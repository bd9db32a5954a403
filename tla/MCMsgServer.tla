---------------------------- MODULE MCMsgServer ----------------------------
(***************************************************************************)
(* MsgServer with two names of one user and one of another.                *)
(***************************************************************************)
EXTENDS MsgServer, TLC

MCIdOf == "ann" :> 1 @@ "Ann" :> 1 @@ "bob" :> 2
MCOneName == "ann" :> 1
=============================================================================
