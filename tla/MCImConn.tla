------------------------------ MODULE MCImConn ------------------------------
(***************************************************************************)
(* ImConn with two PDUs from the connecting end, of two cells or with a    *)
(* broken header, heartbeats from both ends, and send buffers that take    *)
(* two cells, so that a PDU sent behind another one is cut in two.         *)
(***************************************************************************)
EXTENDS ImConn

MCMaxPdus == [e \in Ends |-> IF e = "C" THEN 2 ELSE 0]
=============================================================================
