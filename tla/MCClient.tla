------------------------------ MODULE MCClient ------------------------------
(***************************************************************************)
(* Client with two socket handles, one click on the login button, one      *)
(* message of the user and one failure.  A second connection is a retry's. *)
(***************************************************************************)
EXTENDS Client
=============================================================================
