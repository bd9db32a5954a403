----------------------------- MODULE MCImParts ------------------------------
(***************************************************************************)
(* Two components that share no state, in one run: `part` says which of    *)
(* them moves, and the other stays as it began.  "proxy": db_proxy_server; *)
(* "im": the two ends of an ImConn.                                        *)
(***************************************************************************)
EXTENDS MCDbProxy, MCImConn

VARIABLE part

ImPartsInit == part \in {"proxy", "im"} /\ ProxyInit /\ ImConnInit

ImPartsNext ==
    /\ \/ part = "proxy" /\ ProxyNext /\ UNCHANGED imVars
       \/ part = "im" /\ ImConnNext /\ UNCHANGED proxyVars
    /\ UNCHANGED part

imPartVars == <<part, proxyVars, imVars>>

notIm == <<part, proxyVars>>

\* The fairness of ImConnFairSpec, where the ends move.
ImPartsFairness ==
    /\ WF_imPartVars(part = "im" /\ (Establish \/ ConnectFails) /\ UNCHANGED notIm)
    /\ WF_imPartVars(part = "im" /\ AcceptNewSocket /\ UNCHANGED notIm)
    /\ \A e \in Ends :
           /\ WF_imPartVars(part = "im" /\ (Arrive(e) \/ ArriveAtClosed(e) \/ FinArrives(e)) /\ UNCHANGED notIm)
           /\ WF_imPartVars(part = "im" /\ Dispatch(e) /\ UNCHANGED notIm)
           /\ SF_imPartVars(part = "im" /\ OnTimer(e) /\ UNCHANGED notIm)

ImPartsSpec == ImPartsInit /\ [][ImPartsNext]_imPartVars /\ ImPartsFairness
=============================================================================
