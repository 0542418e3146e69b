-------------------------------- MODULE SRG --------------------------------
(***************************************************************************)
(* The state machine of one Subscriber Redundancy Group on one node        *)
(* (pkg/ha/srg.go).  Every method of SRGStateMachine runs under sm.mu, so   *)
(* it is one operator from the machine before the call to the machine      *)
(* after it; transitionTo returns nil when the state does not change, so   *)
(* "a transition was returned" is "the state differs".                     *)
(*                                                                         *)
(* A machine is a record: its state, its effective priority, and the       *)
(* priority and state the peer last reported.  Node identifiers are their  *)
(* rank in the alphabetical order; NoPeer, the empty string, is below all. *)
(***************************************************************************)
EXTENDS Integers

\* 2^31 in the code; the model checker scales the 32-bit arithmetic down.
CONSTANT Int32Half

ASSUME Int32HalfAssumption == Int32Half \in Nat \ {0}

SRGState == {"INIT", "WAITING", "READY", "ACTIVE", "STANDBY",
             "ACTIVE_SOLO", "STANDBY_ALONE"}

\* peerState before any heartbeat is Go's zero value, the empty string.
PeerState == SRGState \cup {""}

NoPeer == 0

SRGMachine == [state: SRGState, prio: Nat, peerPrio: Nat, peerState: PeerState]

\* int32: the arithmetic of AdjustPriority wraps.
Int32(i) == ((i + Int32Half) % (2 * Int32Half)) - Int32Half

NewSRGStateMachine(base) ==
    [state |-> "INIT", prio |-> base, peerPrio |-> 0, peerState |-> ""]

IsActive(sm) == sm.state \in {"ACTIVE", "ACTIVE_SOLO"}

transitionTo(sm, new) == [sm EXCEPT !.state = new]

Start(sm) == IF sm.state = "INIT" THEN transitionTo(sm, "WAITING") ELSE sm

\* Mutant: both sides of a tie win.
winsElectionOnTies(sm, self, peer) == sm.prio >= sm.peerPrio

\* Strictly better than the peer: higher effective priority, then lower ID.
winsElection(sm, self, peer) ==
    IF sm.prio # sm.peerPrio THEN sm.prio > sm.peerPrio ELSE self < peer

heardPeer(sm, prio, state) == [sm EXCEPT !.peerPrio = prio, !.peerState = state]

\* Mutant: a STANDBY_ALONE machine does not return to READY.
PeerDiscoveredNotAlone(sm, prio, state) ==
    LET known == heardPeer(sm, prio, state)
    IN IF sm.state \in {"WAITING", "ACTIVE_SOLO"} THEN transitionTo(known, "READY") ELSE known

PeerDiscovered(sm, prio, state) ==
    LET known == heardPeer(sm, prio, state)
    IN IF sm.state \in {"WAITING", "ACTIVE_SOLO", "STANDBY_ALONE"}
       THEN transitionTo(known, "READY")
       ELSE known

Elect(sm, self, peer) ==
    IF sm.state # "READY" THEN sm
    ELSE transitionTo(sm, IF winsElection(sm, self, peer) THEN "ACTIVE" ELSE "STANDBY")

PeerLost(sm) ==
    CASE sm.state = "ACTIVE"  -> transitionTo(sm, "ACTIVE_SOLO")
      [] sm.state = "STANDBY" -> transitionTo(sm, "STANDBY_ALONE")
      [] sm.state = "READY"   -> transitionTo(sm, "WAITING")
      [] sm.state = "WAITING" -> transitionTo(sm, "ACTIVE_SOLO")
      [] OTHER                -> sm

Switchover(sm, force) ==
    CASE sm.state = "ACTIVE"                   -> transitionTo(sm, "STANDBY")
      [] sm.state = "STANDBY"                  -> transitionTo(sm, "ACTIVE")
      [] sm.state = "STANDBY_ALONE" /\ force   -> transitionTo(sm, "ACTIVE")
      [] OTHER                                 -> sm

TrackerPromote(sm) ==
    IF sm.state = "STANDBY_ALONE" THEN transitionTo(sm, "ACTIVE_SOLO") ELSE sm

\* Mutant: the penalty is applied to the current priority, not to the base.
AdjustPriorityOfCurrent(sm, base, delta) ==
    LET new == Int32(Int32(sm.prio) + delta)
    IN [sm EXCEPT !.prio = IF new < 0 THEN 0 ELSE new]

AdjustPriority(sm, base, delta) ==
    LET new == Int32(Int32(base) + delta)
    IN [sm EXCEPT !.prio = IF new < 0 THEN 0 ELSE new]

\* Mutant: an ACTIVE machine does not yield to an ACTIVE peer.
PeerHeartbeatUpdateNoYield(sm, self, peer, prio, state, preempt) ==
    LET known == heardPeer(sm, prio, state)
    IN IF preempt /\ sm.state = "STANDBY" /\ winsElection(known, self, peer)
       THEN transitionTo(known, "ACTIVE") ELSE known

PeerHeartbeatUpdate(sm, self, peer, prio, state, preempt) ==
    LET known == heardPeer(sm, prio, state)
        wins  == winsElection(known, self, peer)
    IN CASE preempt /\ sm.state = "STANDBY" /\ wins -> transitionTo(known, "ACTIVE")
         [] sm.state = "ACTIVE" /\ state = "ACTIVE" /\ ~wins -> transitionTo(known, "STANDBY")
         [] OTHER -> known

\* What handlePeerHeartbeat does to one SRG when no other goroutine
\* interferes: discover and elect, or update.
onHeartbeat(sm, first, self, peer, prio, state, preempt) ==
    IF first \/ sm.state \in {"WAITING", "ACTIVE_SOLO"}
    THEN Elect(PeerDiscovered(sm, prio, state), self, peer)
    ELSE PeerHeartbeatUpdate(sm, self, peer, prio, state, preempt)

\* What handlePeerLost does to one SRG: a node left STANDBY_ALONE with a
\* tracked interface already down promotes itself.
onPeerLost(sm, downCount) ==
    LET lost == PeerLost(sm)
    IN IF lost # sm /\ lost.state = "STANDBY_ALONE" /\ downCount > 0
       THEN TrackerPromote(lost)
       ELSE lost

\* Mutant: an up event is counted at zero too.
countLinkBelowZero(downCount, up) == IF up THEN downCount - 1 ELSE downCount + 1

\* The new down count after a link event: every down event counts, an up
\* event is ignored at zero.
countLink(downCount, up) ==
    IF ~up THEN downCount + 1 ELSE IF downCount > 0 THEN downCount - 1 ELSE 0

trackDelta(decrement, downCount) == Int32(-Int32(decrement) * Int32(downCount))
=============================================================================
