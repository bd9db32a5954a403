---------------------------- MODULE MCProxyParts ----------------------------
(***************************************************************************)
(* Two components that share no state, in one run: `part` says which of    *)
(* them moves, and the other stays as it began.  "proxy": db_proxy_server; *)
(* "links": the slots msg_server keeps for the servers it connects to,     *)
(* db_proxy_server among them.                                             *)
(***************************************************************************)
EXTENDS MCDbProxy, MCServInfo

VARIABLE part

\* The slots begin in one way only where they do not move.
ProxyPartsInit ==
    /\ part \in {"proxy", "links"}
    /\ ProxyInit
    /\ ServInit /\ (part # "links" => \A s \in Servers : servConn[s] = "connecting")

ProxyPartsNext ==
    /\ \/ part = "proxy" /\ ProxyNext /\ UNCHANGED servVars
       \/ part = "links" /\ ServNext /\ UNCHANGED proxyVars
    /\ UNCHANGED part

proxyPartVars == <<part, proxyVars, servVars>>

\* The fairness of ProxyFairSpec and of ServFairSpec, each where its part moves.
ProxyPartsSpec ==
    /\ ProxyPartsInit /\ [][ProxyPartsNext]_proxyPartVars
    /\ WF_proxyPartVars(part = "proxy" /\ MainStep /\ UNCHANGED <<part, servVars>>)
    /\ \A w \in Workers :
           WF_proxyPartVars(part = "proxy" /\ Alive /\ WorkerStep(w) /\ UNCHANGED <<part, servVars>>)
    /\ WF_proxyPartVars(part = "links" /\ Timer /\ UNCHANGED <<part, proxyVars>>)
=============================================================================
