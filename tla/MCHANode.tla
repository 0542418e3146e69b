----------------------------- MODULE MCHANode -----------------------------
(* Instances of HANode for TLC. *)
EXTENDS HANode, TLC

CONSTANTS s1, i1, i2

all(v) == [s \in SRGName |-> v]

report(state, prio) == all([state |-> state, prio |-> prio])

\* The local priority is 3: the peer reports a lower or a higher one.
Base       == all(3)
Yes        == all(TRUE)
Tracked    == all(2)
PeerStatuses == {report("WAITING", 2), report("STANDBY", 2), report("ACTIVE", 4)}
OneSRG     == [i \in Link |-> s1]

\* The two goroutines that receive heartbeats, and the two links, are alike.
Sym == Permutations(HBThread) \cup Permutations(Link)
=============================================================================
