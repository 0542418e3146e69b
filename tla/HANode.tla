------------------------------- MODULE HANode -------------------------------
(***************************************************************************)
(* One node's HA manager with its goroutines taken apart (pkg/ha).  The    *)
(* receive loop, the gRPC server, the timeout ticker, the operator's and   *)
(* the peer's switchover and one goroutine per interface event all run the *)
(* manager's handlers at once.  A handler loops over the SRGs; each SRG    *)
(* method is atomic under sm.mu, and what a returned transition drives     *)
(* (driveSync, driveDataplane, driveRouting) follows outside any lock.     *)
(*                                                                         *)
(* The peer is the environment: it reports any status of Heartbeats.       *)
(* MaxEvents bounds the handlers started and MaxLinkEvents the link        *)
(* events; MaxOverlap and MaxLinkOverlap bound them once handlers          *)
(* overlapped or a driver failed.                                          *)
(***************************************************************************)
EXTENDS SRG, FiniteSets

CONSTANTS SRGName, Self, PeerID, BasePriority, Preempt, TrackDecrement,
          Heartbeats,      \* statuses the peer may report
          HBThread,        \* goroutines that run handlePeerHeartbeat
          LostThread,      \* goroutines that run handlePeerLost
          SwitchThread,    \* goroutines that run a switchover
          LinkThread,      \* goroutines the event bus starts for link events
          Link,            \* tracked interfaces (SwIfIndex)
          LinkSRG,         \* ifToSRG
          AdminEvents,     \* the operator also changes admin state
          DriversFail,     \* dataplane and routing calls may return an error
          MaxEvents, MaxLinkEvents, MaxOverlap, MaxLinkOverlap

Thread == HBThread \cup LostThread \cup SwitchThread \cup LinkThread

Status == [SRGName -> [state: SRGState, prio: Nat]]

ASSUME HANodeAssumption ==
    /\ Self \in Nat \ {NoPeer} /\ PeerID \in Nat \ {NoPeer, Self}
    /\ BasePriority \in [SRGName -> 1..255]
    /\ Preempt \in [SRGName -> BOOLEAN]
    /\ TrackDecrement \in [SRGName -> Nat]
    /\ Heartbeats \subseteq Status
    /\ LinkSRG \in [Link -> SRGName]
    /\ AdminEvents \in BOOLEAN /\ DriversFail \in BOOLEAN
    /\ MaxEvents \in Nat /\ MaxLinkEvents \in Nat
    /\ MaxOverlap \in Nat /\ MaxLinkOverlap \in Nat

VARIABLES
    srg, peerNodeID, ifDownCount,
    syncActive,   \* SyncSender.active: one flag for all SRGs
    cgnatActive,  \* CGNATSyncSender.active
    ascending,    \* the allocator registry's direction
    forwarding,   \* SRG state programmed in the dataplane
    advertised,   \* SRG networks advertised
    linkUp,       \* true link state of the tracked interfaces
    th,           \* program counter and locals of each goroutine
    alone,        \* ghost: no two handlers overlapped and no driver failed
    events, linkEvents

vars == <<srg, peerNodeID, ifDownCount, syncActive, cgnatActive, ascending,
          forwarding, advertised, linkUp, th, alone, events, linkEvents>>
driven == <<syncActive, cgnatActive, ascending, forwarding, advertised>>
env    == <<linkUp, alone, events, linkEvents>>

PC == {"idle", "branch", "discover", "elect", "update", "lost", "promote",
       "switch", "adjust", "linkPromote", "sync", "dataplane", "routing"}
Publishing == {"sync", "dataplane", "routing"}

\* cur: the SRG at hand; old, new: the transition being published; ret: where
\* the handler resumes after publishing.
Local == [pc: PC, ret: PC, todo: SUBSET SRGName, cur: SRGName, first: BOOLEAN,
          hb: Status, force: BOOLEAN, old: SRGState, new: SRGState,
          down: Nat, up: BOOLEAN]

noStatus == [s \in SRGName |-> [state |-> "INIT", prio |-> 0]]

Idle == [pc |-> "idle", ret |-> "idle", todo |-> {}, cur |-> CHOOSE s \in SRGName : TRUE,
         first |-> FALSE, hb |-> noStatus, force |-> FALSE, old |-> "INIT",
         new |-> "INIT", down |-> 0, up |-> TRUE]

Init ==
    /\ srg = [s \in SRGName |-> Start(NewSRGStateMachine(BasePriority[s]))]
    /\ peerNodeID = NoPeer
    /\ ifDownCount = [s \in SRGName |-> 0]
    /\ syncActive = FALSE /\ ascending = TRUE
    /\ cgnatActive = [s \in SRGName |-> FALSE]
    /\ forwarding = [s \in SRGName |-> FALSE]
    /\ advertised = [s \in SRGName |-> FALSE]
    /\ linkUp = [i \in Link |-> TRUE]
    /\ th = [t \in Thread |-> Idle]
    /\ alone = TRUE
    /\ events = 0 /\ linkEvents = 0

-----------------------------------------------------------------------------
(* Control of a handler. *)

at(t, pc) == th[t].pc = pc

\* Where the loop over the SRGs goes on.
loop(todo, pc) == IF todo = {} THEN "idle" ELSE pc

\* Thread t turns SRG s into sm with locals l, publishes a transition if there
\* was one, and resumes at ret.
apply(t, l, s, sm, ret) ==
    /\ srg' = [srg EXCEPT ![s] = sm]
    /\ th' = [th EXCEPT ![t] =
         IF sm.state = srg[s].state
         THEN IF ret = "idle" THEN Idle ELSE [l EXCEPT !.cur = s, !.pc = ret]
         ELSE [l EXCEPT !.cur = s, !.pc = "sync", !.ret = ret,
                        !.old = srg[s].state, !.new = sm.state]]

Quiescent == \A t \in Thread : at(t, "idle")

\* A handler starts, alone or beside others.
starts ==
    /\ alone' = (alone /\ Quiescent)
    /\ alone' \/ (events' =< MaxOverlap /\ linkEvents' =< MaxLinkOverlap)

begin(t, l) ==
    /\ at(t, "idle") /\ events < MaxEvents
    /\ events' = events + 1 /\ UNCHANGED linkEvents
    /\ starts
    /\ th' = [th EXCEPT ![t] = l]
    /\ UNCHANGED <<srg, ifDownCount, driven, linkUp>>

-----------------------------------------------------------------------------
(* handlePeerHeartbeat *)

\* Mutant: the manager stores its own node_id as the peer's.
HeartbeatArrivesOwnID(t, hb) ==
    /\ t \in HBThread
    /\ begin(t, [Idle EXCEPT !.pc = "branch", !.todo = SRGName, !.hb = hb,
                             !.first = (peerNodeID = NoPeer)])
    /\ peerNodeID' = Self

HeartbeatArrives(t, hb) ==
    /\ t \in HBThread
    /\ begin(t, [Idle EXCEPT !.pc = "branch", !.todo = SRGName, !.hb = hb,
                             !.first = (peerNodeID = NoPeer)])
    /\ peerNodeID' = PeerID

\* The test of State() that chooses between discovery and update.
BranchSRG(t, s) ==
    /\ at(t, "branch") /\ s \in th[t].todo
    /\ th' = [th EXCEPT ![t].cur = s, ![t].todo = @ \ {s},
                        ![t].pc = IF th[t].first \/ srg[s].state \in {"WAITING", "ACTIVE_SOLO"}
                                  THEN "discover" ELSE "update"]
    /\ UNCHANGED <<srg, peerNodeID, ifDownCount, driven, env>>

\* Mutant: discovery is not followed by an election.
DiscoverSRGOnly(t) ==
    LET s == th[t].cur
    IN /\ at(t, "discover")
       /\ apply(t, th[t], s, PeerDiscovered(srg[s], th[t].hb[s].prio, th[t].hb[s].state),
                loop(th[t].todo, "branch"))
       /\ UNCHANGED <<peerNodeID, ifDownCount, driven, env>>

DiscoverSRG(t) ==
    LET s == th[t].cur
    IN /\ at(t, "discover")
       /\ apply(t, th[t], s, PeerDiscovered(srg[s], th[t].hb[s].prio, th[t].hb[s].state), "elect")
       /\ UNCHANGED <<peerNodeID, ifDownCount, driven, env>>

ElectSRG(t) ==
    LET s == th[t].cur
    IN /\ at(t, "elect")
       /\ apply(t, th[t], s, Elect(srg[s], Self, PeerID), loop(th[t].todo, "branch"))
       /\ UNCHANGED <<peerNodeID, ifDownCount, driven, env>>

UpdateSRG(t) ==
    LET s == th[t].cur
    IN /\ at(t, "update")
       /\ apply(t, th[t], s,
                PeerHeartbeatUpdate(srg[s], Self, PeerID, th[t].hb[s].prio,
                                    th[t].hb[s].state, Preempt[s]),
                loop(th[t].todo, "branch"))
       /\ UNCHANGED <<peerNodeID, ifDownCount, driven, env>>

-----------------------------------------------------------------------------
(* handlePeerLost *)

PeerIsLost(t) ==
    /\ t \in LostThread
    /\ begin(t, [Idle EXCEPT !.pc = "lost", !.todo = SRGName])
    /\ peerNodeID' = NoPeer

LoseSRG(t, s) ==
    LET rest == th[t].todo \ {s}
        sm   == PeerLost(srg[s])
    IN /\ at(t, "lost") /\ s \in th[t].todo
       /\ apply(t, [th[t] EXCEPT !.todo = rest], s, sm,
                IF sm # srg[s] /\ sm.state = "STANDBY_ALONE" THEN "promote" ELSE loop(rest, "lost"))
       /\ UNCHANGED <<peerNodeID, ifDownCount, driven, env>>

\* A node left alone reads the down count and may promote itself.
PromoteLost(t) ==
    LET s == th[t].cur
    IN /\ at(t, "promote")
       /\ apply(t, th[t], s,
                IF ifDownCount[s] > 0 THEN TrackerPromote(srg[s]) ELSE srg[s],
                loop(th[t].todo, "lost"))
       /\ UNCHANGED <<peerNodeID, ifDownCount, driven, env>>

-----------------------------------------------------------------------------
(* RequestSwitchover, the manager's (force) and the server's (not forced). *)

SwitchoverAsked(t, names, force) ==
    /\ t \in SwitchThread
    /\ begin(t, [Idle EXCEPT !.pc = "switch", !.todo = names, !.force = force])
    /\ UNCHANGED peerNodeID

SwitchSRG(t, s) ==
    LET rest == th[t].todo \ {s}
    IN /\ at(t, "switch") /\ s \in th[t].todo
       /\ apply(t, [th[t] EXCEPT !.todo = rest], s, Switchover(srg[s], th[t].force),
                loop(rest, "switch"))
       /\ UNCHANGED <<peerNodeID, ifDownCount, driven, env>>

-----------------------------------------------------------------------------
(* handleInterfaceEvent *)

\* The link of i changes to up, or (admin change) the event repeats its state;
\* the bus runs the handler in a goroutine of its own, which counts later.
LinkEvent(t, i, up) ==
    /\ t \in LinkThread /\ at(t, "idle") /\ linkEvents < MaxLinkEvents
    /\ TrackDecrement[LinkSRG[i]] # 0
    /\ up # linkUp[i] \/ AdminEvents
    /\ linkUp' = [linkUp EXCEPT ![i] = up]
    /\ linkEvents' = linkEvents + 1 /\ UNCHANGED events
    /\ starts
    /\ th' = [th EXCEPT ![t] = [Idle EXCEPT !.pc = "adjust", !.todo = {LinkSRG[i]},
                                            !.cur = LinkSRG[i], !.up = up]]
    /\ UNCHANGED <<srg, peerNodeID, ifDownCount, driven>>

\* Under m.mu: count the event and read the count.
CountLink(t) ==
    LET s    == th[t].cur
        down == countLink(ifDownCount[s], th[t].up)
    IN /\ at(t, "adjust") /\ th[t].todo # {}
       /\ ifDownCount' = [ifDownCount EXCEPT ![s] = down]
       /\ th' = [th EXCEPT ![t].todo = {}, ![t].down = down]
       /\ UNCHANGED <<srg, peerNodeID, driven, env>>

\* After the unlock: the priority is set from the count that was read.
AdjustSRG(t) ==
    LET s == th[t].cur
    IN /\ at(t, "adjust") /\ th[t].todo = {}
       /\ apply(t, th[t], s,
                AdjustPriority(srg[s], BasePriority[s],
                               trackDelta(TrackDecrement[s], th[t].down)),
                IF th[t].up THEN "idle" ELSE "linkPromote")
       /\ UNCHANGED <<peerNodeID, ifDownCount, driven, env>>

PromoteLink(t) ==
    LET s == th[t].cur
    IN /\ at(t, "linkPromote")
       /\ apply(t, th[t], s, TrackerPromote(srg[s]), "idle")
       /\ UNCHANGED <<peerNodeID, ifDownCount, driven, env>>

-----------------------------------------------------------------------------
(* publishTransition *)

active(state) == state \in {"ACTIVE", "ACTIVE_SOLO"}

\* A driver's flag after thread t's transition: set on entering an active
\* state, cleared on leaving it, otherwise left alone.
driveFlag(t, flag) ==
    CASE active(th[t].new) /\ ~active(th[t].old) -> TRUE
      [] ~active(th[t].new) /\ active(th[t].old) -> FALSE
      [] OTHER -> flag

goto(t, pc) == th' = [th EXCEPT ![t] = IF pc = "idle" THEN Idle ELSE [th[t] EXCEPT !.pc = pc]]

driveSync(t) ==
    LET s == th[t].cur
    IN /\ at(t, "sync")
       /\ syncActive' = driveFlag(t, syncActive)
       /\ cgnatActive' = [cgnatActive EXCEPT ![s] = driveFlag(t, @)]
       /\ ascending' = IF th[t].old = "READY" /\ th[t].new \in {"ACTIVE", "STANDBY"}
                       THEN winsElection(srg[s], Self, peerNodeID) ELSE ascending
       /\ goto(t, "dataplane")
       /\ UNCHANGED <<srg, peerNodeID, ifDownCount, forwarding, advertised, env>>

driveDataplane(t) ==
    LET s == th[t].cur
    IN /\ at(t, "dataplane")
       /\ \/ forwarding' = [forwarding EXCEPT ![s] = driveFlag(t, @)] /\ UNCHANGED alone
          \/ DriversFail /\ alone' = FALSE /\ UNCHANGED forwarding
       /\ goto(t, "routing")
       /\ UNCHANGED <<srg, peerNodeID, ifDownCount, syncActive, cgnatActive, ascending, advertised,
                      linkUp, events, linkEvents>>

\* Mutant: becoming ACTIVE_SOLO advertises nothing.
driveRoutingNotSolo(t) ==
    LET s == th[t].cur
    IN /\ at(t, "routing")
       /\ advertised' = [advertised EXCEPT ![s] = IF th[t].new = "ACTIVE" THEN TRUE
                                                  ELSE IF active(th[t].new) THEN @ ELSE FALSE]
       /\ goto(t, th[t].ret)
       /\ UNCHANGED <<srg, peerNodeID, ifDownCount, syncActive, cgnatActive, ascending, forwarding, env>>

driveRouting(t) ==
    LET s == th[t].cur
    IN /\ at(t, "routing")
       /\ \/ advertised' = [advertised EXCEPT ![s] = driveFlag(t, @)] /\ UNCHANGED alone
          \/ DriversFail /\ alone' = FALSE /\ UNCHANGED advertised
       /\ goto(t, th[t].ret)
       /\ UNCHANGED <<srg, peerNodeID, ifDownCount, syncActive, cgnatActive, ascending, forwarding,
                      linkUp, events, linkEvents>>

-----------------------------------------------------------------------------
Arrival(t) ==
    \/ \E hb \in Heartbeats : HeartbeatArrives(t, hb)
    \/ PeerIsLost(t)
    \/ \E names \in SUBSET SRGName \ {{}}, force \in BOOLEAN : SwitchoverAsked(t, names, force)
    \/ \E i \in Link, up \in BOOLEAN : LinkEvent(t, i, up)

Work(t) ==
    \/ \E s \in SRGName : BranchSRG(t, s) \/ LoseSRG(t, s) \/ SwitchSRG(t, s)
    \/ DiscoverSRG(t) \/ ElectSRG(t) \/ UpdateSRG(t) \/ PromoteLost(t)
    \/ CountLink(t) \/ AdjustSRG(t) \/ PromoteLink(t)
    \/ driveSync(t) \/ driveDataplane(t) \/ driveRouting(t)

Next == \E t \in Thread : Arrival(t) \/ Work(t)

Spec == Init /\ [][Next]_vars

-----------------------------------------------------------------------------
(* Properties. *)

\* Type invariant: machines, driver state and goroutine locals.
TypeOK ==
    /\ srg \in [SRGName -> SRGMachine]
    /\ peerNodeID \in {NoPeer, PeerID}
    /\ ifDownCount \in [SRGName -> Nat]
    /\ syncActive \in BOOLEAN /\ ascending \in BOOLEAN
    /\ cgnatActive \in [SRGName -> BOOLEAN]
    /\ forwarding \in [SRGName -> BOOLEAN] /\ advertised \in [SRGName -> BOOLEAN]
    /\ linkUp \in [Link -> BOOLEAN]
    /\ th \in [Thread -> Local]
    /\ alone \in BOOLEAN
    /\ events \in 0..MaxEvents /\ linkEvents \in 0..MaxLinkEvents

\* Thread t has s between discovery and election.
Electing(t, s) ==
    /\ th[t].cur = s
    /\ at(t, "elect") \/ (th[t].pc \in Publishing /\ th[t].ret = "elect")

\* READY is never a resting state: however heartbeats, losses, switchovers and
\* link events interleave, an SRG that is READY has a goroutine on its way to
\* Elect (handlePeerHeartbeat drops no SRG between the two calls).
ReadyHasElector ==
    \A s \in SRGName : srg[s].state = "READY" => \E t \in Thread : Electing(t, s)

\* When handlers ran one after the other and none runs, the dataplane, the
\* advertised networks and the CGNAT replication agree with every SRG's role,
\* and sessions are replicated exactly when this node is active for some SRG:
\* the drivers follow the transitions (publishTransition, driveSync).
RolesPublished ==
    Quiescent /\ alone =>
        /\ \A s \in SRGName :
             /\ forwarding[s] = IsActive(srg[s])
             /\ advertised[s] = IsActive(srg[s])
             /\ cgnatActive[s] = IsActive(srg[s])
        /\ syncActive <=> \E s \in SRGName : IsActive(srg[s])

downLinks(s) == Cardinality({i \in Link : LinkSRG[i] = s /\ ~linkUp[i]})

\* When handlers ran one after the other and none runs, the effective priority
\* is the configured one less the decrement for each interface that is down,
\* and not below zero (handleInterfaceEvent and AdjustPriority).
TrackedPriority ==
    Quiescent /\ alone => \A s \in SRGName :
        LET due == BasePriority[s] - TrackDecrement[s] * downLinks(s)
        IN srg[s].prio = IF due < 0 THEN 0 ELSE due
=============================================================================
