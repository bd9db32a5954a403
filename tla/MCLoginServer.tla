--------------------------- MODULE MCLoginServer ----------------------------
(***************************************************************************)
(* LoginServer with two clients, and another user of TcpServer on the base *)
(* loop alone and with one loop in the pool; a send buffer takes one cell, *)
(* of the two that the other user sends.                                   *)
(***************************************************************************)
EXTENDS LoginServer

MCClients == {<<"msg_server", "unknown">>, <<"msg_server", "other">>}
=============================================================================
