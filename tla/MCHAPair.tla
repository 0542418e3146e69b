----------------------------- MODULE MCHAPair -----------------------------
(* Instances of HAPair for TLC: configured priorities and preemption. *)
EXTENDS HAPair

both(v) == [n \in Node |-> [s \in SRGName |-> v]]

\* Equal priorities leave the election to the node ID, until a link event of
\* one node takes its priority below the other's.
Tied       == both(2)
AllPreempt == both(TRUE)
Tracking   == both(2)
=============================================================================
