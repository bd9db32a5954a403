------------------------------ MODULE MCParts -------------------------------
(***************************************************************************)
(* Seven components that share no state, in one run: `part` says which of  *)
(* them moves, and the others stay as they began.  "buffer": net::Buffer;  *)
(* "pdus": ImPdu and SimpleBuffer; "parser": http_parser_execute; "url":   *)
(* http_parser_parse_url; "http": HttpConn of login_server; "directory":   *)
(* the links to login_server and route_server at both ends; "workers": the *)
(* threads with a queue.                                                   *)
(***************************************************************************)
EXTENDS NetBuffer, PduStream, MCHttpSamples, MCHttpUrl, HttpConn, Directory, WorkerQueues

VARIABLE part

\* Buffer: appendInt*, prependInt* and peekInt* agree on every integer there is room for.
ASSUME IntsRoundTrip == IntsReadBack

\* PduStream: two different bodies, read in pieces of one header and a byte.
MCHeaders == {[service_id |-> 1, command_id |-> 772, seq_num |-> 65535]}
MCAttachments == {[type |-> 2, handle |-> 70000, serviceType |-> 0], [type |-> 0, handle |-> 256, serviceType |-> 1]}

\* HttpConn: a request for msg_server with a query and one for another page;
\* directories that are empty, full, and with two equally loaded servers.
Ask(page, host, rest) ==
    [url |-> page, bytes |-> <<"G","E","T"," ">> \o page \o <<LF,"H","o",":">> \o host \o <<LF,LF>> \o rest]
MCRequests == {Ask(<<"/","m","?">>, <<"h","i">>, <<"X","Y","Z">>), Ask(<<"/">>, <<"h">>, <<>>)}
Load(c, m) == [cur |-> c, max |-> m]
MCDirectories == {<<>>, <<Load(1, 1)>>, <<Load(0, 0), Load(0, 2), Load(0, 1), Load(1, 2)>>}
MCTarget == <<"/","m">>

\* The parts that do not move begin in one way only.
PartsInit ==
    /\ part \in {"buffer", "pdus", "parser", "url", "http", "directory", "workers"}
    /\ BufInit /\ PduInit /\ DirInit
    /\ msg \in (IF part = "parser" THEN Samples ELSE {CHOOSE m \in Samples : TRUE}) /\ HttpInit
    /\ UrlInit /\ (part # "url" => result = Unused(CHOOSE d \in Leftovers : TRUE))
    /\ HttpConnInit /\ (part # "http" => generator = 0 /\ directory = <<>>)
    /\ WorkerInit /\ (part # "workers" => kind = "logger")

notBuf == <<urlVars, pduVars, httpVars, httpConnVars, dirVars, workerVars>>
notPdu == <<urlVars, bufVars, httpVars, httpConnVars, dirVars, workerVars>>
notParser == <<urlVars, bufVars, pduVars, httpConnVars, dirVars, workerVars>>
notHttp == <<urlVars, bufVars, pduVars, httpVars, dirVars, workerVars>>
notDir == <<urlVars, bufVars, pduVars, httpVars, httpConnVars, workerVars>>
notUrl == <<bufVars, pduVars, httpVars, httpConnVars, dirVars, workerVars>>
notWorker == <<urlVars, bufVars, pduVars, httpVars, httpConnVars, dirVars>>

PartsNext ==
    /\ \/ part = "buffer" /\ BufNext /\ UNCHANGED notBuf
       \/ part = "pdus" /\ PduNext /\ UNCHANGED notPdu
       \/ part = "parser" /\ HttpNext /\ UNCHANGED notParser
       \/ part = "url" /\ UrlNext /\ UNCHANGED notUrl
       \/ part = "http" /\ HttpConnNext /\ UNCHANGED notHttp
       \/ part = "directory" /\ DirNext /\ UNCHANGED notDir
       \/ part = "workers" /\ WorkerNext /\ UNCHANGED notWorker
    /\ UNCHANGED part

partVars == <<part, bufVars, notBuf>>

\* The fairness of each part: what may not wait for ever where that part moves.
PartsFairness ==
    /\ \A k \in Https : WF_partVars(part = "http" /\ HttpOnTimer(k) /\ UNCHANGED <<part, notHttp>>)
    /\ \A c \in Links : WF_partVars(part = "directory" /\ LinkTimers(c) /\ UNCHANGED <<part, notDir>>)
    /\ WF_partVars(part = "workers" /\ WorkerStep /\ UNCHANGED <<part, notWorker>>)
    /\ WF_partVars(part = "workers" /\ woken /\ WakeUp /\ UNCHANGED <<part, notWorker>>)
    /\ WF_partVars(part = "workers" /\ StopNotify /\ UNCHANGED <<part, notWorker>>)
    /\ WF_partVars(part = "workers" /\ StopJoin /\ UNCHANGED <<part, notWorker>>)
    /\ WF_partVars(part = "workers" /\ StopDrain /\ UNCHANGED <<part, notWorker>>)

PartsSpec == PartsInit /\ [][PartsNext]_partVars /\ PartsFairness
=============================================================================
