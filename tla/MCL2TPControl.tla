--------------------------- MODULE MCL2TPControl ---------------------------
(* Bounds of L2TPControl for TLC.  The LAC's hello goroutine starts the     *)
(* exchanges, handlers answer.  Two packets towards the LNS can overtake    *)
(* each other, or be overtaken by a duplicate; one at a time goes back.     *)
EXTENDS L2TPControl

Hellos  == [e \in Peer |-> IF e = "lac" THEN 2 ELSE 0]
Packets == [e \in Peer |-> IF e = "lns" THEN 2 ELSE 1]
=============================================================================
