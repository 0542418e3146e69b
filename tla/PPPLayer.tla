------------------------------ MODULE PPPLayer ------------------------------
(***************************************************************************)
(* What a PPP layer (LCP, IPCP, IPv6CP) promises to the session above it,  *)
(* with the negotiation left out.  The session sees the layer only through *)
(* its own calls and through two callbacks.                                *)
(*   layer  "shut": the layer cannot come up until the session opens it;   *)
(*          "down": it may come up by itself; "up": it is open             *)
(*   told   what the last callback, or the restore of a checkpointed       *)
(*          session, told the session                                      *)
(***************************************************************************)
VARIABLES layer, told

vars == <<layer, told>>

Init == layer = "shut" /\ told = "down"

(***************************************************************************)
(* The session's Open makes it possible for the layer to come up.          *)
(***************************************************************************)
Allow == layer = "shut" /\ layer' = "down" /\ UNCHANGED told

LayerUp == layer = "down" /\ layer' = "up" /\ told' = "up"

LayerDown == layer = "up" /\ layer' = "down" /\ told' = "down"

(***************************************************************************)
(* Close tells the session that an open layer went down; Kill, called when *)
(* the session itself is going away, tells it nothing.                     *)
(***************************************************************************)
Close == layer \in {"up", "down"} /\ layer' = "shut" /\ told' = "down"

Kill == layer \in {"up", "down"} /\ layer' = "shut" /\ UNCHANGED told

Restore == layer' = "up" /\ told' = "up"

Next == Allow \/ LayerUp \/ LayerDown \/ Close \/ Kill \/ Restore

Spec == Init /\ [][Next]_vars
=============================================================================
