---------------------------- MODULE HAPairProofs ----------------------------
(***************************************************************************)
(* Invariance proofs for HAPair, for every set of SRGs, all priorities and *)
(* all bounds.  TypeOK is inductive.  ContactElected is inductive together *)
(* with Started (no SRG is in INIT) and TypeOK.  ElectionAgrees needs      *)
(* StaticView: while no link event has happened, every priority a node     *)
(* holds or a heartbeat carries is the configured one, so both sides       *)
(* compute the same election.                                              *)
(***************************************************************************)
EXTENDS HAPair, TLAPS

(***************************************************************************)
(* The methods of the SRG state machine, for every machine, every priority *)
(* and every node identifier.                                              *)
(***************************************************************************)
\* int32 arithmetic yields an integer (AdjustPriority).
LEMMA Int32Type ==
    ASSUME NEW i \in Int
    PROVE  Int32(i) \in Int
  BY Int32HalfAssumption, SMT DEF Int32

\* A fresh or started machine is a machine, WAITING after Start.
LEMMA StartType ==
    ASSUME NEW base \in Nat
    PROVE  /\ Start(NewSRGStateMachine(base)) \in SRGMachine
           /\ Start(NewSRGStateMachine(base)).state = "WAITING"
           /\ Start(NewSRGStateMachine(base)).prio = base
  BY DEF Start, NewSRGStateMachine, transitionTo, SRGMachine, SRGState, PeerState

\* Discovery keeps a machine's priority and stores the peer's.
LEMMA PeerDiscoveredType ==
    ASSUME NEW sm \in SRGMachine, NEW prio \in Nat, NEW state \in SRGState
    PROVE  /\ PeerDiscovered(sm, prio, state) \in SRGMachine
           /\ PeerDiscovered(sm, prio, state).prio = sm.prio
           /\ PeerDiscovered(sm, prio, state).peerPrio = prio
           /\ PeerDiscovered(sm, prio, state).state =
                IF sm.state \in {"WAITING", "ACTIVE_SOLO", "STANDBY_ALONE"}
                THEN "READY" ELSE sm.state
  BY DEF PeerDiscovered, heardPeer, transitionTo, SRGMachine, SRGState, PeerState

\* Election changes only the state, and only from READY.
LEMMA ElectType ==
    ASSUME NEW sm \in SRGMachine, NEW self, NEW peer
    PROVE  /\ Elect(sm, self, peer) \in SRGMachine
           /\ Elect(sm, self, peer).prio = sm.prio
           /\ Elect(sm, self, peer).state =
                IF sm.state # "READY" THEN sm.state
                ELSE IF winsElection(sm, self, peer) THEN "ACTIVE" ELSE "STANDBY"
  BY DEF Elect, transitionTo, SRGMachine, SRGState, PeerState

\* Losing the peer leaves no SRG ACTIVE, STANDBY or READY.
LEMMA PeerLostType ==
    ASSUME NEW sm \in SRGMachine
    PROVE  /\ PeerLost(sm) \in SRGMachine
           /\ PeerLost(sm).prio = sm.prio
           /\ PeerLost(sm).state = CASE sm.state = "ACTIVE"  -> "ACTIVE_SOLO"
                                     [] sm.state = "STANDBY" -> "STANDBY_ALONE"
                                     [] sm.state = "READY"   -> "WAITING"
                                     [] sm.state = "WAITING" -> "ACTIVE_SOLO"
                                     [] OTHER                -> sm.state
  BY DEF PeerLost, transitionTo, SRGMachine, SRGState, PeerState

\* A switchover swaps the elected roles and starts no election.
LEMMA SwitchoverType ==
    ASSUME NEW sm \in SRGMachine, NEW force \in BOOLEAN
    PROVE  /\ Switchover(sm, force) \in SRGMachine
           /\ Switchover(sm, force).prio = sm.prio
           /\ sm.state \in {"ACTIVE", "STANDBY"} =>
                Switchover(sm, force).state \in {"ACTIVE", "STANDBY"}
           /\ Switchover(sm, force).state \in {sm.state, "ACTIVE", "STANDBY"}
  BY DEF Switchover, transitionTo, SRGMachine, SRGState, PeerState

\* Link tracking promotes only a STANDBY_ALONE machine.
LEMMA TrackerPromoteType ==
    ASSUME NEW sm \in SRGMachine
    PROVE  /\ TrackerPromote(sm) \in SRGMachine
           /\ TrackerPromote(sm).prio = sm.prio
           /\ TrackerPromote(sm).state =
                IF sm.state = "STANDBY_ALONE" THEN "ACTIVE_SOLO" ELSE sm.state
  BY DEF TrackerPromote, transitionTo, SRGMachine, SRGState, PeerState

\* The tracking penalty is an integer whatever the counter reached.
LEMMA TrackDeltaType ==
    ASSUME NEW decrement \in Nat, NEW downCount \in Nat
    PROVE  trackDelta(decrement, downCount) \in Int
  <1>1. Int32(decrement) \in Int /\ Int32(downCount) \in Int
    BY Int32Type
  <1>2. -Int32(decrement) * Int32(downCount) \in Int
    BY <1>1
  <1> QED BY <1>2, Int32Type DEF trackDelta

\* The adjusted priority never wraps below zero, and the state is kept.
LEMMA AdjustPriorityType ==
    ASSUME NEW sm \in SRGMachine, NEW base \in Nat, NEW delta \in Int
    PROVE  /\ AdjustPriority(sm, base, delta) \in SRGMachine
           /\ AdjustPriority(sm, base, delta).state = sm.state
  <1> DEFINE new == Int32(Int32(base) + delta)
  <1>1. Int32(base) + delta \in Int
    BY Int32Type
  <1>2. new \in Int
    BY <1>1, Int32Type
  <1>3. (IF new < 0 THEN 0 ELSE new) \in Nat
    BY <1>2
  <1>4. AdjustPriority(sm, base, delta) = [sm EXCEPT !.prio = IF new < 0 THEN 0 ELSE new]
    BY DEF AdjustPriority
  <1> HIDE DEF new
  <1> QED BY <1>3, <1>4 DEF SRGMachine

\* A heartbeat update leaves the machine where it was, or makes it swap ACTIVE
\* and STANDBY according to the election on the reported priority.
LEMMA HeartbeatUpdateType ==
    ASSUME NEW sm \in SRGMachine, NEW self, NEW peer, NEW prio \in Nat,
           NEW state \in SRGState, NEW preempt \in BOOLEAN
    PROVE  LET new == PeerHeartbeatUpdate(sm, self, peer, prio, state, preempt)
               wins == winsElection(heardPeer(sm, prio, state), self, peer)
           IN /\ new \in SRGMachine
              /\ new.prio = sm.prio
              /\ \/ new.state = sm.state
                 \/ sm.state = "STANDBY" /\ new.state = "ACTIVE" /\ wins
                 \/ sm.state = "ACTIVE" /\ new.state = "STANDBY" /\ ~wins
  BY DEF PeerHeartbeatUpdate, heardPeer, transitionTo, SRGMachine, SRGState, PeerState

(***************************************************************************)
(* The pair.                                                               *)
(***************************************************************************)
\* The two nodes are each other's peer, and no node is the empty peer ID.
LEMMA NodePeer ==
    /\ NoPeer \notin Node
    /\ \A n \in Node : Peer(n) \in Node /\ Peer(n) # n /\ Peer(Peer(n)) = n
  BY DEF Node, Peer, NoPeer

\* One SRG after a heartbeat: still a machine with its priority; elected on
\* first contact, or if it was elected before.
LEMMA OnHeartbeat ==
    ASSUME NEW sm \in SRGMachine, NEW first \in BOOLEAN, NEW self, NEW peer,
           NEW prio \in Nat, NEW state \in SRGState, NEW preempt \in BOOLEAN
    PROVE  LET new == onHeartbeat(sm, first, self, peer, prio, state, preempt)
           IN /\ new \in SRGMachine
              /\ new.prio = sm.prio
              /\ sm.state # "INIT" /\ (first \/ sm.state \in {"ACTIVE", "STANDBY"})
                   => new.state \in {"ACTIVE", "STANDBY"}
              /\ sm.state # "INIT" => new.state # "INIT"
  <1> DEFINE d == PeerDiscovered(sm, prio, state)
             new == onHeartbeat(sm, first, self, peer, prio, state, preempt)
  <1>1. CASE first \/ sm.state \in {"WAITING", "ACTIVE_SOLO"}
    <2>1. new = Elect(d, self, peer)
      BY <1>1 DEF onHeartbeat
    <2>2. /\ d \in SRGMachine /\ d.prio = sm.prio
          /\ d.state = IF sm.state \in {"WAITING", "ACTIVE_SOLO", "STANDBY_ALONE"}
                       THEN "READY" ELSE sm.state
      BY PeerDiscoveredType
    <2> HIDE DEF d
    <2>3. /\ Elect(d, self, peer) \in SRGMachine /\ Elect(d, self, peer).prio = d.prio
          /\ Elect(d, self, peer).state =
               IF d.state # "READY" THEN d.state
               ELSE IF winsElection(d, self, peer) THEN "ACTIVE" ELSE "STANDBY"
      BY <2>2, ElectType
    <2>4. sm.state \in SRGState
      BY DEF SRGMachine
    <2> HIDE DEF new
    <2>5. new \in SRGMachine /\ new.prio = sm.prio
      BY <2>1, <2>2, <2>3
    <2>6. sm.state # "INIT" => new.state \in {"ACTIVE", "STANDBY"}
      BY <2>1, <2>2, <2>3, <2>4 DEF SRGState
    <2> QED BY <2>5, <2>6 DEF new
  <1>2. CASE ~(first \/ sm.state \in {"WAITING", "ACTIVE_SOLO"})
    <2>1. new = PeerHeartbeatUpdate(sm, self, peer, prio, state, preempt)
      BY <1>2 DEF onHeartbeat
    <2>2. /\ new \in SRGMachine
          /\ new.prio = sm.prio
          /\ new.state \in {sm.state, "ACTIVE", "STANDBY"}
      BY <2>1, HeartbeatUpdateType
    <2> HIDE DEF new
    <2> QED BY <1>2, <2>2 DEF new
  <1> QED BY <1>1, <1>2

\* One SRG after the peer is lost: still a machine with its priority.
LEMMA OnPeerLost ==
    ASSUME NEW sm \in SRGMachine, NEW down \in Nat
    PROVE  /\ onPeerLost(sm, down) \in SRGMachine
           /\ onPeerLost(sm, down).prio = sm.prio
           /\ onPeerLost(sm, down).state # "ACTIVE"
           /\ onPeerLost(sm, down).state \in {"STANDBY", "STANDBY_ALONE"} =>
                sm.state \in {"STANDBY", "STANDBY_ALONE"}
           /\ sm.state # "INIT" => onPeerLost(sm, down).state # "INIT"
  <1> DEFINE lost == PeerLost(sm)
  <1>1. /\ lost \in SRGMachine /\ lost.prio = sm.prio
        /\ lost.state = CASE sm.state = "ACTIVE"  -> "ACTIVE_SOLO"
                          [] sm.state = "STANDBY" -> "STANDBY_ALONE"
                          [] sm.state = "READY"   -> "WAITING"
                          [] sm.state = "WAITING" -> "ACTIVE_SOLO"
                          [] OTHER                -> sm.state
    BY PeerLostType
  <1>2. onPeerLost(sm, down) = lost \/ onPeerLost(sm, down) = TrackerPromote(lost)
    BY DEF onPeerLost
  <1> HIDE DEF lost
  <1>3. /\ TrackerPromote(lost) \in SRGMachine /\ TrackerPromote(lost).prio = lost.prio
        /\ TrackerPromote(lost).state =
             IF lost.state = "STANDBY_ALONE" THEN "ACTIVE_SOLO" ELSE lost.state
    BY <1>1, TrackerPromoteType
  <1>4. sm.state \in SRGState
    BY DEF SRGMachine
  <1>5. CASE onPeerLost(sm, down) = lost
    BY <1>1, <1>4, <1>5 DEF SRGState
  <1>6. CASE onPeerLost(sm, down) = TrackerPromote(lost)
    BY <1>1, <1>3, <1>4, <1>6 DEF SRGState
  <1> QED BY <1>2, <1>5, <1>6

-----------------------------------------------------------------------------
(* Type correctness. *)

\* The heartbeat a node builds is a status.
LEMMA StatusType ==
    ASSUME NEW machines \in [SRGName -> SRGMachine]
    PROVE  buildSRGStatuses(machines) \in Status
  BY DEF buildSRGStatuses, Status, SRGMachine

\* After a start every SRG is WAITING with its configured priority.
LEMMA FreshType ==
    ASSUME NEW n \in Node
    PROVE  /\ freshSRGs(n) \in [SRGName -> SRGMachine]
           /\ \A s \in SRGName : /\ freshSRGs(n)[s].state = "WAITING"
                                 /\ freshSRGs(n)[s].prio = BasePriority[n][s]
  <1>1. \A s \in SRGName : BasePriority[n][s] \in Nat
    BY PriorityAssumption
  <1> QED BY <1>1, StartType DEF freshSRGs

\* What handlePeerHeartbeat does to the node's SRGs.
LEMMA HeartbeatStep ==
    ASSUME TypeOK, NEW n \in Node, NEW msg \in Status, handlePeerHeartbeat(n, msg)
    PROVE  /\ srg' \in [Node -> [SRGName -> SRGMachine]]
           /\ peerNodeID' \in [Node -> Node \cup {NoPeer}]
           /\ ifDownCount' = ifDownCount
           /\ \A m \in Node : m # n => srg'[m] = srg[m] /\ peerNodeID'[m] = peerNodeID[m]
           /\ \A s \in SRGName : srg'[n][s] =
                 onHeartbeat(srg[n][s], peerNodeID[n] = NoPeer, n, Peer(n),
                             msg[s].prio, msg[s].state, Preempt[n][s])
  <1> USE DEF handlePeerHeartbeat
  <1>1. \A s \in SRGName :
          onHeartbeat(srg[n][s], peerNodeID[n] = NoPeer, n, Peer(n),
                      msg[s].prio, msg[s].state, Preempt[n][s]) \in SRGMachine
    <2> TAKE s \in SRGName
    <2>1. srg[n][s] \in SRGMachine
      BY DEF TypeOK
    <2>2. msg[s].prio \in Nat /\ msg[s].state \in SRGState
      BY DEF Status
    <2>3. Preempt[n][s] \in BOOLEAN
      BY PreemptAssumption
    <2>4. (peerNodeID[n] = NoPeer) \in BOOLEAN
      OBVIOUS
    <2> QED BY <2>1, <2>2, <2>3, <2>4, OnHeartbeat
  <1>2. srg' = [srg EXCEPT ![n] = [s \in SRGName |->
                 onHeartbeat(srg[n][s], peerNodeID[n] = NoPeer, n, Peer(n),
                             msg[s].prio, msg[s].state, Preempt[n][s])]]
    OBVIOUS
  <1>3. srg' \in [Node -> [SRGName -> SRGMachine]]
    BY <1>1, <1>2 DEF TypeOK
  <1>4. peerNodeID' \in [Node -> Node \cup {NoPeer}]
    BY NodePeer DEF TypeOK
  <1> QED BY <1>2, <1>3, <1>4 DEF TypeOK

\* What handlePeerLost does to the node's SRGs.
LEMMA PeerLostStep ==
    ASSUME TypeOK, NEW n \in Node, handlePeerLost(n)
    PROVE  /\ srg' \in [Node -> [SRGName -> SRGMachine]]
           /\ peerNodeID' \in [Node -> Node \cup {NoPeer}]
           /\ peerNodeID'[n] = NoPeer
           /\ ifDownCount' = ifDownCount
           /\ \A m \in Node : m # n => srg'[m] = srg[m] /\ peerNodeID'[m] = peerNodeID[m]
           /\ \A s \in SRGName : srg'[n][s] = onPeerLost(srg[n][s], ifDownCount[n][s])
  <1> USE DEF handlePeerLost
  <1>1. \A s \in SRGName : onPeerLost(srg[n][s], ifDownCount[n][s]) \in SRGMachine
    BY OnPeerLost DEF TypeOK
  <1>2. srg' = [srg EXCEPT ![n] = [s \in SRGName |->
                 onPeerLost(srg[n][s], ifDownCount[n][s])]]
    OBVIOUS
  <1>3. srg' \in [Node -> [SRGName -> SRGMachine]]
    BY <1>1, <1>2 DEF TypeOK
  <1>4. peerNodeID' \in [Node -> Node \cup {NoPeer}]
    BY DEF TypeOK
  <1> QED BY <1>2, <1>3, <1>4 DEF TypeOK

\* A switchover of the SRGs in names on node n, forced or not.
LEMMA SwitchStep ==
    ASSUME TypeOK, NEW n \in Node, NEW names \in SUBSET SRGName, NEW force \in BOOLEAN,
           srg' = [srg EXCEPT ![n] = [s \in SRGName |->
                     IF s \in names THEN Switchover(srg[n][s], force) ELSE srg[n][s]]]
    PROVE  /\ srg' \in [Node -> [SRGName -> SRGMachine]]
           /\ \A m \in Node : m # n => srg'[m] = srg[m]
           /\ \A s \in SRGName : srg'[n][s] = srg[n][s] \/ srg'[n][s] = Switchover(srg[n][s], force)
  <1>1. \A s \in SRGName : Switchover(srg[n][s], force) \in SRGMachine
    BY SwitchoverType DEF TypeOK
  <1> QED BY <1>1 DEF TypeOK

\* A link event: the SRG's priority changes, its state only by promotion.
LEMMA LinkStep ==
    ASSUME TypeOK, NEW n \in Node, NEW s \in SRGName, NEW up \in BOOLEAN,
           handleInterfaceEvent(n, s, up)
    PROVE  /\ srg' \in [Node -> [SRGName -> SRGMachine]]
           /\ ifDownCount' \in [Node -> [SRGName -> Nat]]
           /\ \A m \in Node, r \in SRGName :
                \/ srg'[m][r].state = srg[m][r].state
                \/ srg[m][r].state = "STANDBY_ALONE" /\ srg'[m][r].state = "ACTIVE_SOLO"
  <1> DEFINE down == countLink(ifDownCount[n][s], up)
             sm == AdjustPriority(srg[n][s], BasePriority[n][s], trackDelta(TrackDecrement[n][s], down))
             new == IF up THEN sm ELSE TrackerPromote(sm)
  <1>1. down \in Nat
    BY DEF TypeOK, countLink
  <1>2. srg[n][s] \in SRGMachine
    BY DEF TypeOK
  <1>0. BasePriority[n][s] \in Nat /\ TrackDecrement[n][s] \in Nat
    <2>1. BasePriority[n][s] \in Nat
      BY PriorityAssumption
    <2> QED BY <2>1, TrackAssumption
  <1>3. srg' = [srg EXCEPT ![n][s] = new] /\ ifDownCount' = [ifDownCount EXCEPT ![n][s] = down]
    BY DEF handleInterfaceEvent
  <1> HIDE DEF down
  <1>4. trackDelta(TrackDecrement[n][s], down) \in Int
    BY <1>0, <1>1, TrackDeltaType
  <1>5. sm \in SRGMachine /\ sm.state = srg[n][s].state
    BY <1>0, <1>2, <1>4, AdjustPriorityType
  <1> HIDE DEF sm
  <1>6. /\ new \in SRGMachine
        /\ \/ new.state = srg[n][s].state
           \/ srg[n][s].state = "STANDBY_ALONE" /\ new.state = "ACTIVE_SOLO"
    BY <1>5, TrackerPromoteType
  <1> HIDE DEF new
  <1>7. srg' \in [Node -> [SRGName -> SRGMachine]]
    BY <1>3, <1>6 DEF TypeOK
  <1>8. ifDownCount' \in [Node -> [SRGName -> Nat]]
    BY <1>1, <1>3 DEF TypeOK
  <1>9. ASSUME NEW m \in Node, NEW r \in SRGName
        PROVE  \/ srg'[m][r].state = srg[m][r].state
               \/ srg[m][r].state = "STANDBY_ALONE" /\ srg'[m][r].state = "ACTIVE_SOLO"
    <2>1. CASE m = n /\ r = s
      BY <1>3, <1>6, <2>1 DEF TypeOK
    <2>2. CASE ~(m = n /\ r = s)
      <3>1. srg'[m][r] = srg[m][r]
        BY <1>3, <2>2 DEF TypeOK
      <3> QED BY <3>1
    <2> QED BY <2>1, <2>2
  <1> QED BY <1>7, <1>8, <1>9

\* The initial state is well typed.
LEMMA TypeInit == Init => TypeOK
  <1> SUFFICES ASSUME Init PROVE TypeOK
    OBVIOUS
  <1> USE DEF Init
  <1>1. srg \in [Node -> [SRGName -> SRGMachine]]
    BY FreshType
  <1>2. /\ peerNodeID \in [Node -> Node \cup {NoPeer}]
        /\ ifDownCount \in [Node -> [SRGName -> Nat]]
        /\ stream \in [Node -> {"none", "open", "broken"}]
        /\ switchReq \in [Node -> SUBSET SRGName]
    OBVIOUS
  <1>3. connected \in [Node -> BOOLEAN]
    OBVIOUS
  <1>4. /\ req \in [Node -> Seq(Status)] /\ rep \in [Node -> Seq(Status)]
        /\ \A n \in Node : Len(req[n]) <= QueueLen /\ Len(rep[n]) <= QueueLen
        /\ faults \in 0..MaxFaults /\ switchovers \in 0..MaxSwitchovers
        /\ linkEvents \in 0..MaxLinkEvents
    BY BoundAssumption
  <1> QED BY <1>1, <1>2, <1>3, <1>4 DEF TypeOK

\* The parts of TypeOK that the actions change independently.
HAType ==
    /\ srg \in [Node -> [SRGName -> SRGMachine]]
    /\ peerNodeID \in [Node -> Node \cup {NoPeer}]
    /\ ifDownCount \in [Node -> [SRGName -> Nat]]

ConnType == connected \in [Node -> BOOLEAN]

QueueType ==
    /\ stream \in [Node -> {"none", "open", "broken"}]
    /\ req \in [Node -> Seq(Status)] /\ rep \in [Node -> Seq(Status)]
    /\ \A n \in Node : Len(req[n]) <= QueueLen /\ Len(rep[n]) <= QueueLen

SwitchType == switchReq \in [Node -> SUBSET SRGName]

BoundType ==
    /\ faults \in 0..MaxFaults /\ switchovers \in 0..MaxSwitchovers
    /\ linkEvents \in 0..MaxLinkEvents

\* TypeOK is the conjunction of its parts.
LEMMA TypeParts == TypeOK <=> HAType /\ ConnType /\ QueueType /\ SwitchType /\ BoundType
  BY DEF TypeOK, HAType, ConnType, QueueType, SwitchType, BoundType

\* What an unchanged group of variables means for the parts of the type.
LEMMA UnchangedTypes ==
    ASSUME TypeOK
    PROVE  /\ UNCHANGED ha => HAType'
           /\ UNCHANGED network => ConnType' /\ QueueType'
           /\ UNCHANGED switchReq => SwitchType'
           /\ UNCHANGED bounds => BoundType'
           /\ UNCHANGED connected => ConnType'
  BY TypeParts DEF ha, network, bounds, HAType, ConnType, QueueType, SwitchType, BoundType

\* A fault keeps the bounds.
LEMMA FaultType ==
    ASSUME TypeOK, Fault
    PROVE  BoundType'
  BY BoundAssumption DEF Fault, BoundType, TypeOK

\* The head of a nonempty heartbeat queue is a status.
LEMMA QueueHead ==
    ASSUME TypeOK, NEW n \in Node
    PROVE  /\ req[n] # << >> => Head(req[n]) \in Status
           /\ rep[n] # << >> => Head(rep[n]) \in Status
  BY DEF TypeOK

\* A heartbeat queue array stays typed and bounded when a status is appended
\* to a queue with room (sendHeartbeat, the reply of serveHeartbeat)...
LEMMA QueuePush ==
    ASSUME NEW q \in [Node -> Seq(Status)], \A n \in Node : Len(q[n]) <= QueueLen,
           NEW m \in Node, NEW msg \in Status, Len(q[m]) < QueueLen
    PROVE  /\ [q EXCEPT ![m] = Append(@, msg)] \in [Node -> Seq(Status)]
           /\ \A n \in Node : Len([q EXCEPT ![m] = Append(@, msg)][n]) <= QueueLen
  <1>1. q[m] \in Seq(Status)
    OBVIOUS
  <1>2. Append(q[m], msg) \in Seq(Status) /\ Len(Append(q[m], msg)) = Len(q[m]) + 1
    BY <1>1
  <1>3. Len(Append(q[m], msg)) <= QueueLen
    BY <1>1, <1>2, BoundAssumption
  <1> QED BY <1>2, <1>3

\* ... and when the head of a nonempty queue is taken.
LEMMA QueuePop ==
    ASSUME NEW q \in [Node -> Seq(Status)], \A n \in Node : Len(q[n]) <= QueueLen,
           NEW m \in Node, q[m] # << >>
    PROVE  /\ [q EXCEPT ![m] = Tail(@)] \in [Node -> Seq(Status)]
           /\ \A n \in Node : Len([q EXCEPT ![m] = Tail(@)][n]) <= QueueLen
  <1>1. q[m] \in Seq(Status)
    OBVIOUS
  <1>2. Tail(q[m]) \in Seq(Status) /\ Len(Tail(q[m])) = Len(q[m]) - 1
    BY <1>1
  <1>3. Len(Tail(q[m])) <= QueueLen
    BY <1>1, <1>2, BoundAssumption
  <1> QED BY <1>2, <1>3

\* A heartbeat keeps the manager's state well typed...
LEMMA HeartbeatHAType ==
    ASSUME TypeOK, NEW n \in Node, NEW msg \in Status, handlePeerHeartbeat(n, msg)
    PROVE  HAType'
  BY HeartbeatStep DEF HAType, TypeOK

\* ... and so does the loss of the peer.
LEMMA PeerLostHAType ==
    ASSUME TypeOK, NEW n \in Node, handlePeerLost(n)
    PROVE  HAType'
  BY PeerLostStep DEF HAType, TypeOK

\* Every step keeps the state well typed: one case per action.
LEMMA TypeNext == TypeOK /\ [Next]_vars => TypeOK'
  <1> SUFFICES ASSUME TypeOK, [Next]_vars PROVE TypeOK'
    OBVIOUS
  <1>U. /\ UNCHANGED ha => HAType'
        /\ UNCHANGED network => ConnType' /\ QueueType'
        /\ UNCHANGED switchReq => SwitchType'
        /\ UNCHANGED bounds => BoundType'
        /\ UNCHANGED connected => ConnType'
    BY UnchangedTypes
  <1>P. HAType' /\ ConnType' /\ QueueType' /\ SwitchType' /\ BoundType' => TypeOK'
    BY TypeParts, PTL
  <1>1. ASSUME NEW n \in Node, sendHeartbeat(n) PROVE TypeOK'
    <2>1. buildSRGStatuses(srg[n]) \in Status
      BY StatusType DEF TypeOK
    <2>2. QueueType'
      BY <1>1, <2>1, QueuePush DEF sendHeartbeat, QueueType, TypeOK
    <2>3. UNCHANGED <<ha, connected, switchReq, bounds>>
      BY <1>1 DEF sendHeartbeat
    <2> QED BY <1>U, <1>P, <2>2, <2>3
  <1>2. ASSUME NEW n \in Node, serveHeartbeat(n) PROVE TypeOK'
    <2> DEFINE p == Peer(n)
    <2>1. p \in Node /\ req[p] # << >> /\ Len(rep[p]) < QueueLen
      BY <1>2, NodePeer DEF serveHeartbeat
    <2>2. Head(req[p]) \in Status
      BY <2>1, QueueHead
    <2>3. handlePeerHeartbeat(n, Head(req[p]))
      BY <1>2 DEF serveHeartbeat
    <2>4. HAType'
      BY <2>2, <2>3, HeartbeatHAType
    <2>5. buildSRGStatuses(srg'[n]) \in Status
      BY <2>4, StatusType DEF HAType
    <2>6. /\ req' = [req EXCEPT ![p] = Tail(@)]
          /\ rep' = [rep EXCEPT ![p] = Append(@, buildSRGStatuses(srg'[n]))]
          /\ UNCHANGED <<connected, stream, switchReq, bounds>>
      BY <1>2 DEF serveHeartbeat
    <2> HIDE DEF p
    <2>7. QueueType'
      BY <2>1, <2>5, <2>6, QueuePush, QueuePop DEF QueueType, TypeOK
    <2> QED BY <1>U, <1>P, <2>4, <2>6, <2>7
  <1>3. ASSUME NEW n \in Node, RecvHeartbeat(n) PROVE TypeOK'
    <2>1. rep[n] # << >> /\ handlePeerHeartbeat(n, Head(rep[n]))
      BY <1>3 DEF RecvHeartbeat
    <2>2. HAType'
      BY <2>1, QueueHead, HeartbeatHAType
    <2>3. QueueType'
      BY <1>3, <2>1, QueuePop DEF RecvHeartbeat, QueueType, TypeOK
    <2>4. ConnType'
      BY <1>3 DEF RecvHeartbeat, ConnType, TypeOK
    <2>5. UNCHANGED <<switchReq, bounds>>
      BY <1>3 DEF RecvHeartbeat
    <2> QED BY <1>U, <1>P, <2>2, <2>3, <2>4, <2>5
  <1>4. ASSUME NEW n \in Node, RecvError(n) PROVE TypeOK'
    <2>1. HAType'
      BY <1>4, PeerLostHAType DEF RecvError
    <2>2. QueueType'
      BY <1>4 DEF RecvError, QueueType, TypeOK
    <2>3. ConnType'
      BY <1>4 DEF RecvError, ConnType, TypeOK
    <2>4. UNCHANGED <<switchReq, bounds>>
      BY <1>4 DEF RecvError
    <2> QED BY <1>U, <1>P, <2>1, <2>2, <2>3, <2>4
  <1>5. ASSUME NEW n \in Node, reconnectPeer(n) PROVE TypeOK'
    <2>1. QueueType'
      BY <1>5 DEF reconnectPeer, QueueType, TypeOK
    <2>2. UNCHANGED <<ha, connected, switchReq, bounds>>
      BY <1>5 DEF reconnectPeer
    <2> QED BY <1>U, <1>P, <2>1, <2>2
  <1>6. ASSUME NEW n \in Node, StartupTimeout(n) PROVE TypeOK'
    <2>1. handlePeerLost(n) /\ UNCHANGED <<network, switchReq, bounds>>
      BY <1>6 DEF StartupTimeout
    <2>2. HAType'
      BY <2>1, PeerLostHAType
    <2> QED BY <1>U, <1>P, <2>1, <2>2
  <1>7. ASSUME NEW n \in Node, OpenFails(n) \/ PeerTimeout(n) PROVE TypeOK'
    <2>1. handlePeerLost(n) /\ Fault /\ UNCHANGED <<network, switchReq>>
      BY <1>7 DEF OpenFails, PeerTimeout
    <2>2. HAType'
      BY <2>1, PeerLostHAType
    <2>3. BoundType'
      BY <2>1, FaultType
    <2> QED BY <1>U, <1>P, <2>1, <2>2, <2>3
  <1>8. ASSUME NEW n \in Node, NEW names \in SUBSET SRGName \ {{}}, NEW force \in BOOLEAN,
               RequestSwitchover(n, names, force)
        PROVE  TypeOK'
    <2>1. srg' = [srg EXCEPT ![n] = [s \in SRGName |->
                    IF s \in names THEN Switchover(srg[n][s], force) ELSE srg[n][s]]]
      BY <1>8 DEF RequestSwitchover
    <2>2. srg' \in [Node -> [SRGName -> SRGMachine]]
      BY <2>1, SwitchStep
    <2>3. UNCHANGED <<peerNodeID, ifDownCount, network, faults, linkEvents>>
      BY <1>8 DEF RequestSwitchover
    <2>4. HAType'
      BY <2>2, <2>3 DEF HAType, TypeOK
    <2>5. SwitchType'
      BY <1>8 DEF RequestSwitchover, SwitchType, TypeOK
    <2>6. BoundType'
      BY <1>8, <2>3, BoundAssumption DEF RequestSwitchover, BoundType, TypeOK
    <2> QED BY <1>U, <1>P, <2>3, <2>4, <2>5, <2>6
  <1>9. ASSUME NEW n \in Node, ServeSwitchover(n) PROVE TypeOK'
    <2>1. srg' = [srg EXCEPT ![n] = [s \in SRGName |->
                    IF s \in switchReq[n] THEN Switchover(srg[n][s], FALSE) ELSE srg[n][s]]]
      BY <1>9 DEF ServeSwitchover
    <2>2. switchReq[n] \in SUBSET SRGName
      BY DEF TypeOK
    <2>3. srg' \in [Node -> [SRGName -> SRGMachine]]
      BY <2>1, <2>2, SwitchStep
    <2>4. UNCHANGED <<peerNodeID, ifDownCount, network, bounds>>
      BY <1>9 DEF ServeSwitchover
    <2>5. HAType'
      BY <2>3, <2>4 DEF HAType, TypeOK
    <2>6. SwitchType'
      BY <1>9 DEF ServeSwitchover, SwitchType, TypeOK
    <2> QED BY <1>U, <1>P, <2>4, <2>5, <2>6
  <1>10. ASSUME NEW n \in Node, LoseSwitchover(n) PROVE TypeOK'
    <2>1. SwitchType'
      BY <1>10 DEF LoseSwitchover, SwitchType, TypeOK
    <2>2. UNCHANGED <<ha, network>> /\ Fault
      BY <1>10 DEF LoseSwitchover
    <2> QED BY <1>U, <1>P, <2>1, <2>2, FaultType
  <1>11. ASSUME NEW n \in Node, NEW s \in SRGName, NEW up \in BOOLEAN,
                handleInterfaceEvent(n, s, up)
         PROVE  TypeOK'
    <2>1. UNCHANGED <<peerNodeID, network, switchReq, faults, switchovers>>
      BY <1>11 DEF handleInterfaceEvent
    <2>2. HAType'
      BY <1>11, <2>1, LinkStep DEF HAType, TypeOK
    <2>3. BoundType'
      BY <1>11, <2>1, BoundAssumption, SMTT(20) DEF handleInterfaceEvent, BoundType, TypeOK
    <2> QED BY <1>U, <1>P, <2>1, <2>2, <2>3
  <1>12. ASSUME NEW n \in Node, StreamBreaks(n) PROVE TypeOK'
    <2>1. QueueType'
      BY <1>12, BoundAssumption DEF StreamBreaks, QueueType, TypeOK
    <2>2. Fault /\ UNCHANGED <<ha, connected, switchReq>>
      BY <1>12 DEF StreamBreaks
    <2> QED BY <1>U, <1>P, <2>1, <2>2, FaultType
  <1>13. ASSUME NEW n \in Node, Restart(n) PROVE TypeOK'
    <2>1. HAType'
      BY <1>13, FreshType DEF Restart, HAType, TypeOK
    <2>2. ConnType'
      BY <1>13 DEF Restart, ConnType, TypeOK
    <2>3. QueueType'
      BY <1>13, BoundAssumption DEF Restart, QueueType, TypeOK
    <2>4. SwitchType'
      BY <1>13 DEF Restart, SwitchType, TypeOK
    <2>5. BoundType'
      BY <1>13, FaultType DEF Restart
    <2> QED BY <1>P, <2>1, <2>2, <2>3, <2>4, <2>5
  <1>14. CASE UNCHANGED vars
    BY <1>14, <1>U, <1>P DEF vars, ha, network, bounds
  <1> QED BY <1>1, <1>2, <1>3, <1>4, <1>5, <1>6, <1>7, <1>8, <1>9, <1>10, <1>11,
             <1>12, <1>13, <1>14 DEF Next, Step, Environment

\* Every reachable state of the pair is well typed: in particular priorities
\* stay naturals under link tracking and the heartbeat queues stay bounded.
THEOREM TypeCorrect == Spec => []TypeOK
  BY TypeInit, TypeNext, PTL DEF Spec

-----------------------------------------------------------------------------
(* A node in contact has elected. *)

\* NewManager starts every machine, so no SRG is ever seen in INIT.
Started == \A n \in Node, s \in SRGName : srg[n][s].state # "INIT"

ContactInv == Started /\ ContactElected

\* A step of node n alone preserves ContactInv when it leaves the node's SRGs
\* started, and elected if the node still knows its peer.
LEMMA ContactLocal ==
    ASSUME ContactInv, NEW n \in Node,
           \A m \in Node : m # n => srg'[m] = srg[m] /\ peerNodeID'[m] = peerNodeID[m],
           \A s \in SRGName : srg'[n][s].state # "INIT",
           peerNodeID'[n] # NoPeer => \A s \in SRGName : srg'[n][s].state \in {"ACTIVE", "STANDBY"}
    PROVE  ContactInv'
  BY DEF ContactInv, Started, ContactElected

\* Handling a heartbeat preserves ContactInv.
LEMMA ContactHeartbeat ==
    ASSUME TypeOK, ContactInv, NEW n \in Node, NEW msg \in Status, handlePeerHeartbeat(n, msg)
    PROVE  ContactInv'
  <1>1. ASSUME NEW s \in SRGName PROVE srg'[n][s].state \in {"ACTIVE", "STANDBY"}
    <2>1. srg'[n][s] = onHeartbeat(srg[n][s], peerNodeID[n] = NoPeer, n, Peer(n),
                                   msg[s].prio, msg[s].state, Preempt[n][s])
      BY HeartbeatStep
    <2>2. srg[n][s] \in SRGMachine
      BY DEF TypeOK
    <2>3. msg[s].prio \in Nat /\ msg[s].state \in SRGState
      BY DEF Status
    <2>4. Preempt[n][s] \in BOOLEAN
      BY PreemptAssumption
    <2>6. /\ srg[n][s].state # "INIT"
          /\ peerNodeID[n] = NoPeer \/ srg[n][s].state \in {"ACTIVE", "STANDBY"}
      BY DEF ContactInv, Started, ContactElected
    <2> DEFINE first == peerNodeID[n] = NoPeer
               new == onHeartbeat(srg[n][s], first, n, Peer(n),
                                  msg[s].prio, msg[s].state, Preempt[n][s])
    <2>7. first \/ srg[n][s].state \in {"ACTIVE", "STANDBY"}
      BY <2>6
    <2>8. first \in BOOLEAN
      OBVIOUS
    <2>9. srg'[n][s] = new
      BY <2>1
    <2> HIDE DEF first
    <2>10. srg[n][s].state # "INIT" /\ (first \/ srg[n][s].state \in {"ACTIVE", "STANDBY"})
             => new.state \in {"ACTIVE", "STANDBY"}
      BY <2>2, <2>3, <2>4, <2>8, OnHeartbeat
    <2> HIDE DEF new
    <2> QED BY <2>6, <2>7, <2>9, <2>10
  <1>2. \A m \in Node : m # n => srg'[m] = srg[m] /\ peerNodeID'[m] = peerNodeID[m]
    BY HeartbeatStep
  <1>3. \A s \in SRGName : srg'[n][s].state # "INIT"
    BY <1>1
  <1> QED BY <1>1, <1>2, <1>3, ContactLocal

\* Losing the peer preserves ContactInv: the node forgets its peer.
LEMMA ContactPeerLost ==
    ASSUME TypeOK, ContactInv, NEW n \in Node, handlePeerLost(n)
    PROVE  ContactInv'
  <1>1. ASSUME NEW s \in SRGName PROVE srg'[n][s].state # "INIT"
    <2>1. srg'[n][s] = onPeerLost(srg[n][s], ifDownCount[n][s])
      BY PeerLostStep
    <2>2. /\ srg[n][s] \in SRGMachine /\ ifDownCount[n][s] \in Nat
          /\ srg[n][s].state # "INIT"
      BY DEF TypeOK, ContactInv, Started
    <2> QED BY <2>1, <2>2, OnPeerLost
  <1>2. /\ peerNodeID'[n] = NoPeer
        /\ \A m \in Node : m # n => srg'[m] = srg[m] /\ peerNodeID'[m] = peerNodeID[m]
    BY PeerLostStep
  <1> QED BY <1>1, <1>2, ContactLocal

\* A switchover preserves ContactInv: it swaps elected roles.
LEMMA ContactSwitch ==
    ASSUME TypeOK, ContactInv, NEW n \in Node, NEW names \in SUBSET SRGName,
           NEW force \in BOOLEAN, UNCHANGED peerNodeID,
           srg' = [srg EXCEPT ![n] = [s \in SRGName |->
                     IF s \in names THEN Switchover(srg[n][s], force) ELSE srg[n][s]]]
    PROVE  ContactInv'
  <1>1. ASSUME NEW s \in SRGName
        PROVE  /\ srg'[n][s].state # "INIT"
               /\ peerNodeID[n] # NoPeer => srg'[n][s].state \in {"ACTIVE", "STANDBY"}
    <2>1. srg'[n][s] = srg[n][s] \/ srg'[n][s] = Switchover(srg[n][s], force)
      BY SwitchStep
    <2>2. /\ srg[n][s].state # "INIT"
          /\ peerNodeID[n] # NoPeer => srg[n][s].state \in {"ACTIVE", "STANDBY"}
      BY DEF ContactInv, Started, ContactElected
    <2>3. srg[n][s] \in SRGMachine
      BY DEF TypeOK
    <2>4. Switchover(srg[n][s], force).state \in {srg[n][s].state, "ACTIVE", "STANDBY"}
      BY <2>3, SwitchoverType
    <2> QED BY <2>1, <2>2, <2>4
  <1>2. \A m \in Node : m # n => srg'[m] = srg[m] /\ peerNodeID'[m] = peerNodeID[m]
    BY SwitchStep
  <1>3. peerNodeID'[n] = peerNodeID[n]
    OBVIOUS
  <1> QED BY <1>1, <1>2, <1>3, ContactLocal

\* Every step preserves ContactInv: one case per handler.
LEMMA ContactNext == TypeOK /\ ContactInv /\ [Next]_vars => ContactInv'
  <1> SUFFICES ASSUME TypeOK, ContactInv, [Next]_vars PROVE ContactInv'
    OBVIOUS
  <1>U. UNCHANGED <<srg, peerNodeID>> => ContactInv'
    BY DEF ContactInv, Started, ContactElected
  <1>1. ASSUME NEW n \in Node, serveHeartbeat(n) PROVE ContactInv'
    <2>1. /\ Peer(n) \in Node /\ req[Peer(n)] # << >>
          /\ handlePeerHeartbeat(n, Head(req[Peer(n)]))
      BY <1>1, NodePeer DEF serveHeartbeat
    <2> QED BY <2>1, QueueHead, ContactHeartbeat
  <1>2. ASSUME NEW n \in Node, RecvHeartbeat(n) PROVE ContactInv'
    BY <1>2, QueueHead, ContactHeartbeat DEF RecvHeartbeat
  <1>3. ASSUME NEW n \in Node, RecvError(n) \/ StartupTimeout(n)
                                \/ OpenFails(n) \/ PeerTimeout(n)
        PROVE  ContactInv'
    BY <1>3, ContactPeerLost DEF RecvError, StartupTimeout, OpenFails, PeerTimeout
  <1>4. ASSUME NEW n \in Node, NEW names \in SUBSET SRGName \ {{}}, NEW force \in BOOLEAN,
               RequestSwitchover(n, names, force)
        PROVE  ContactInv'
    BY <1>4, ContactSwitch DEF RequestSwitchover
  <1>5. ASSUME NEW n \in Node, ServeSwitchover(n) PROVE ContactInv'
    <2>1. switchReq[n] \in SUBSET SRGName
      BY DEF TypeOK
    <2> QED BY <1>5, <2>1, ContactSwitch DEF ServeSwitchover
  <1>6. ASSUME NEW n \in Node, NEW s \in SRGName, NEW up \in BOOLEAN,
               handleInterfaceEvent(n, s, up)
        PROVE  ContactInv'
    <2>1. UNCHANGED peerNodeID
      BY <1>6 DEF handleInterfaceEvent
    <2>2. \A m \in Node, r \in SRGName :
                \/ srg'[m][r].state = srg[m][r].state
                \/ srg[m][r].state = "STANDBY_ALONE" /\ srg'[m][r].state = "ACTIVE_SOLO"
      BY <1>6, LinkStep
    <2> QED BY <2>1, <2>2 DEF ContactInv, Started, ContactElected
  <1>7. ASSUME NEW n \in Node, Restart(n) PROVE ContactInv'
    <2>1. /\ srg' = [srg EXCEPT ![n] = freshSRGs(n)]
          /\ peerNodeID' = [peerNodeID EXCEPT ![n] = NoPeer]
      BY <1>7 DEF Restart
    <2>2. \A s \in SRGName : srg'[n][s].state # "INIT"
      BY <2>1, FreshType DEF TypeOK
    <2>3. /\ peerNodeID'[n] = NoPeer
          /\ \A m \in Node : m # n => srg'[m] = srg[m] /\ peerNodeID'[m] = peerNodeID[m]
      BY <2>1 DEF TypeOK
    <2> QED BY <2>2, <2>3, ContactLocal
  <1>8. ASSUME NEW n \in Node, \/ sendHeartbeat(n) \/ reconnectPeer(n)
                                \/ LoseSwitchover(n) \/ StreamBreaks(n)
        PROVE  ContactInv'
    BY <1>8, <1>U DEF sendHeartbeat, reconnectPeer, LoseSwitchover, StreamBreaks, ha
  <1>9. CASE UNCHANGED vars
    BY <1>9, <1>U DEF vars
  <1> QED BY <1>1, <1>2, <1>3, <1>4, <1>5, <1>6, <1>7, <1>8, <1>9 DEF Next, Step, Environment

\* A node that knows its peer has finished every election, for any set of SRGs,
\* any priorities, any number of faults, switchovers and link events.
THEOREM ContactCorrect == Spec => []ContactElected
  <1>1. Init => ContactInv
    BY FreshType DEF Init, ContactInv, Started, ContactElected
  <1>2. ContactInv => ContactElected
    BY DEF ContactInv
  <1> QED BY <1>1, <1>2, TypeCorrect, ContactNext, PTL DEF Spec

-----------------------------------------------------------------------------
(* Both nodes judge every election alike. *)

\* The verdict on an own priority against a reported one (winsElection).
Wins(own, reported, self, peer) == IF own # reported THEN own > reported ELSE self < peer

\* One SRG after a heartbeat: it turns ACTIVE only by winning and STANDBY only
\* by losing the election against the priority the heartbeat carries.
LEMMA HeartbeatVerdict ==
    ASSUME NEW sm \in SRGMachine, NEW first \in BOOLEAN, NEW self, NEW peer,
           NEW prio \in Nat, NEW state \in SRGState, NEW preempt \in BOOLEAN
    PROVE  LET new == onHeartbeat(sm, first, self, peer, prio, state, preempt)
           IN /\ new.state = "ACTIVE" => sm.state = "ACTIVE" \/ Wins(sm.prio, prio, self, peer)
              /\ new.state \in {"STANDBY", "STANDBY_ALONE"} =>
                   sm.state \in {"STANDBY", "STANDBY_ALONE"} \/ ~Wins(sm.prio, prio, self, peer)
  <1> DEFINE d == PeerDiscovered(sm, prio, state)
             h == heardPeer(sm, prio, state)
             new == onHeartbeat(sm, first, self, peer, prio, state, preempt)
  <1>1. CASE first \/ sm.state \in {"WAITING", "ACTIVE_SOLO"}
    <2>1. new = Elect(d, self, peer)
      BY <1>1 DEF onHeartbeat
    <2>2. /\ d \in SRGMachine /\ d.prio = sm.prio /\ d.peerPrio = prio
          /\ d.state = IF sm.state \in {"WAITING", "ACTIVE_SOLO", "STANDBY_ALONE"}
                       THEN "READY" ELSE sm.state
      BY PeerDiscoveredType
    <2> HIDE DEF d
    <2>3. Elect(d, self, peer).state =
               IF d.state # "READY" THEN d.state
               ELSE IF winsElection(d, self, peer) THEN "ACTIVE" ELSE "STANDBY"
      BY <2>2, ElectType
    <2>4. winsElection(d, self, peer) = Wins(sm.prio, prio, self, peer)
      BY <2>2 DEF winsElection, Wins
    <2> HIDE DEF new
    <2>5. new.state = IF d.state # "READY" THEN d.state
                      ELSE IF Wins(sm.prio, prio, self, peer) THEN "ACTIVE" ELSE "STANDBY"
      BY <2>1, <2>3, <2>4
    <2> QED BY <2>2, <2>5 DEF new
  <1>2. CASE ~(first \/ sm.state \in {"WAITING", "ACTIVE_SOLO"})
    <2>1. new = PeerHeartbeatUpdate(sm, self, peer, prio, state, preempt)
      BY <1>2 DEF onHeartbeat
    <2>2. winsElection(h, self, peer) = Wins(sm.prio, prio, self, peer)
      BY DEF winsElection, Wins, heardPeer, SRGMachine
    <2>3. \/ new.state = sm.state
          \/ sm.state = "STANDBY" /\ new.state = "ACTIVE" /\ winsElection(h, self, peer)
          \/ sm.state = "ACTIVE" /\ new.state = "STANDBY" /\ ~winsElection(h, self, peer)
      BY <2>1, HeartbeatUpdateType
    <2> HIDE DEF new, h
    <2> QED BY <2>2, <2>3 DEF new
  <1> QED BY <1>1, <1>2

\* The verdict on the configured priorities is Outranks.
LEMMA WinsIsOutranks ==
    ASSUME NEW n \in Node, NEW s \in SRGName
    PROVE  Wins(BasePriority[n][s], BasePriority[Peer(n)][s], n, Peer(n)) <=> Outranks(n, s)
  <1>1. BasePriority[n][s] \in 1..255
    BY PriorityAssumption
  <1>2. BasePriority[Peer(n)][s] \in 1..255
    BY NodePeer, PriorityAssumption
  <1> QED BY <1>1, <1>2, SMTT(20) DEF Wins, Outranks

\* Every status in queue q carries the configured priorities of node n.
Carries(q, n) == \A i \in 1..Len(q), s \in SRGName : q[i][s].prio = BasePriority[n][s]

\* Until a link event, the configured priorities are all a node knows of itself
\* and of its peer; until a switchover, no switchover RPC is in flight.
StaticView ==
    /\ linkEvents = 0 => \A n \in Node :
         /\ \A s \in SRGName : srg[n][s].prio = BasePriority[n][s]
         /\ Carries(req[n], n) /\ Carries(rep[n], Peer(n))
    /\ switchovers = 0 => \A n \in Node : switchReq[n] = {}

\* Taking the head of a queue keeps what the queue carries...
LEMMA CarriesPop ==
    ASSUME NEW q \in Seq(Status), NEW n \in Node, Carries(q, n), q # << >>
    PROVE  /\ \A s \in SRGName : Head(q)[s].prio = BasePriority[n][s]
           /\ Carries(Tail(q), n)
  <1>1. 1 \in 1..Len(q) /\ Head(q) = q[1]
    OBVIOUS
  <1>2. \A i \in 1..Len(Tail(q)) : i + 1 \in 1..Len(q) /\ Tail(q)[i] = q[i + 1]
    OBVIOUS
  <1> QED BY <1>1, <1>2 DEF Carries

\* ... and so does appending a status with the configured priorities.
LEMMA CarriesPush ==
    ASSUME NEW q \in Seq(Status), NEW n \in Node, Carries(q, n), NEW msg \in Status,
           \A s \in SRGName : msg[s].prio = BasePriority[n][s]
    PROVE  Carries(Append(q, msg), n)
  <1>1. \A i \in 1..Len(Append(q, msg)) :
          \/ i \in 1..Len(q) /\ Append(q, msg)[i] = q[i]
          \/ Append(q, msg)[i] = msg
    OBVIOUS
  <1> QED BY <1>1 DEF Carries

\* A heartbeat changes no priority.
LEMMA HeartbeatKeepsPriority ==
    ASSUME TypeOK, NEW n \in Node, NEW msg \in Status, handlePeerHeartbeat(n, msg)
    PROVE  \A m \in Node, s \in SRGName : srg'[m][s].prio = srg[m][s].prio
  <1>1. ASSUME NEW s \in SRGName PROVE srg'[n][s].prio = srg[n][s].prio
    <2> DEFINE first == peerNodeID[n] = NoPeer
               new == onHeartbeat(srg[n][s], first, n, Peer(n),
                                  msg[s].prio, msg[s].state, Preempt[n][s])
    <2>1. srg'[n][s] = new
      BY HeartbeatStep
    <2>2. srg[n][s] \in SRGMachine
      BY DEF TypeOK
    <2>3. msg[s].prio \in Nat /\ msg[s].state \in SRGState
      BY DEF Status
    <2>4. Preempt[n][s] \in BOOLEAN
      BY PreemptAssumption
    <2>5. first \in BOOLEAN
      OBVIOUS
    <2> HIDE DEF first
    <2>6. new.prio = srg[n][s].prio
      BY <2>2, <2>3, <2>4, <2>5, OnHeartbeat, SMTT(20)
    <2> HIDE DEF new
    <2> QED BY <2>1, <2>6
  <1>2. \A m \in Node : m # n => srg'[m] = srg[m]
    BY HeartbeatStep
  <1> QED BY <1>1, <1>2

\* The loss of the peer changes no priority, makes no SRG ACTIVE and none
\* STANDBY or STANDBY_ALONE that was neither.
LEMMA PeerLostKeeps ==
    ASSUME TypeOK, NEW n \in Node, handlePeerLost(n)
    PROVE  \A m \in Node, s \in SRGName :
             /\ srg'[m][s].prio = srg[m][s].prio
             /\ srg'[m][s].state = "ACTIVE" => srg[m][s].state = "ACTIVE"
             /\ srg'[m][s].state \in {"STANDBY", "STANDBY_ALONE"} =>
                  srg[m][s].state \in {"STANDBY", "STANDBY_ALONE"}
  <1>1. ASSUME NEW s \in SRGName
        PROVE  /\ srg'[n][s].prio = srg[n][s].prio
               /\ srg'[n][s].state # "ACTIVE"
               /\ srg'[n][s].state \in {"STANDBY", "STANDBY_ALONE"} =>
                    srg[n][s].state \in {"STANDBY", "STANDBY_ALONE"}
    <2>1. srg'[n][s] = onPeerLost(srg[n][s], ifDownCount[n][s])
      BY PeerLostStep
    <2>2. srg[n][s] \in SRGMachine /\ ifDownCount[n][s] \in Nat
      BY DEF TypeOK
    <2> QED BY <2>1, <2>2, OnPeerLost
  <1>2. \A m \in Node : m # n => srg'[m] = srg[m]
    BY PeerLostStep
  <1> QED BY <1>1, <1>2

\* The conclusion of ElectionAgrees for one SRG of one node.
Agrees(n, s) ==
    /\ srg[n][s].state = "ACTIVE" => Outranks(n, s)
    /\ srg[n][s].state \in {"STANDBY", "STANDBY_ALONE"} => ~Outranks(n, s)

RolesAgree == \A n \in Node, s \in SRGName : Agrees(n, s)

OwnPriority == \A n \in Node, s \in SRGName : srg[n][s].prio = BasePriority[n][s]

QueuesCarry == \A n \in Node : Carries(req[n], n) /\ Carries(rep[n], Peer(n))

NoRequest == \A n \in Node : switchReq[n] = {}

\* The inductive invariant, by what each conjunct depends on.
ElectionInv ==
    /\ linkEvents = 0 => OwnPriority /\ QueuesCarry
    /\ switchovers = 0 => NoRequest
    /\ switchovers = 0 /\ linkEvents = 0 => RolesAgree

\* ElectionInv is the checked strengthening with the property itself.
LEMMA ElectionInvParts == ElectionInv <=> StaticView /\ ElectionAgrees
  BY DEF ElectionInv, StaticView, ElectionAgrees, RolesAgree, Agrees, OwnPriority,
         QueuesCarry, NoRequest

\* A heartbeat that carries the configured priorities elects the right node.
LEMMA HeartbeatAgrees ==
    ASSUME TypeOK, OwnPriority, RolesAgree, NEW n \in Node, NEW msg \in Status,
           \A s \in SRGName : msg[s].prio = BasePriority[Peer(n)][s],
           handlePeerHeartbeat(n, msg)
    PROVE  RolesAgree'
  <1>1. ASSUME NEW s \in SRGName
        PROVE  /\ srg'[n][s].state = "ACTIVE" => Outranks(n, s)
               /\ srg'[n][s].state \in {"STANDBY", "STANDBY_ALONE"} => ~Outranks(n, s)
    <2> DEFINE first == peerNodeID[n] = NoPeer
               sm == srg[n][s]
               new == onHeartbeat(sm, first, n, Peer(n),
                                  msg[s].prio, msg[s].state, Preempt[n][s])
               wins == Wins(sm.prio, msg[s].prio, n, Peer(n))
    <2>1. srg'[n][s] = new
      BY HeartbeatStep
    <2>2. sm \in SRGMachine
      BY DEF TypeOK
    <2>3. msg[s].prio \in Nat /\ msg[s].state \in SRGState
      BY DEF Status
    <2>4. Preempt[n][s] \in BOOLEAN
      BY PreemptAssumption
    <2>5. first \in BOOLEAN
      OBVIOUS
    <2>6. wins <=> Outranks(n, s)
      BY WinsIsOutranks DEF OwnPriority
    <2>7. /\ sm.state = "ACTIVE" => Outranks(n, s)
          /\ sm.state \in {"STANDBY", "STANDBY_ALONE"} => ~Outranks(n, s)
      BY DEF RolesAgree, Agrees
    <2> HIDE DEF first, sm
    <2>8. /\ new.state = "ACTIVE" => sm.state = "ACTIVE" \/ wins
          /\ new.state \in {"STANDBY", "STANDBY_ALONE"} =>
               sm.state \in {"STANDBY", "STANDBY_ALONE"} \/ ~wins
      BY <2>2, <2>3, <2>4, <2>5, HeartbeatVerdict, SMTT(20)
    <2> HIDE DEF new, wins
    <2> QED BY <2>1, <2>6, <2>7, <2>8
  <1>2. \A m \in Node : m # n => srg'[m] = srg[m]
    BY HeartbeatStep
  <1> QED BY <1>1, <1>2, SMTT(20) DEF RolesAgree, Agrees, Outranks

\* A heartbeat from a queue that carries the peer's configured priorities
\* preserves the parts of ElectionInv about machines.
LEMMA HeartbeatElectionInv ==
    ASSUME TypeOK, ElectionInv, NEW n \in Node, NEW q \in Seq(Status), q # << >>,
           linkEvents = 0 => Carries(q, Peer(n)), handlePeerHeartbeat(n, Head(q))
    PROVE  /\ linkEvents = 0 => OwnPriority'
           /\ switchovers = 0 /\ linkEvents = 0 => RolesAgree'
  <1>1. Head(q) \in Status /\ Peer(n) \in Node
    BY NodePeer
  <1>2. linkEvents = 0 => OwnPriority'
    BY <1>1, HeartbeatKeepsPriority DEF ElectionInv, OwnPriority
  <1>3. linkEvents = 0 => \A s \in SRGName : Head(q)[s].prio = BasePriority[Peer(n)][s]
    BY <1>1, CarriesPop
  <1>4. switchovers = 0 /\ linkEvents = 0 => RolesAgree'
    BY <1>1, <1>3, HeartbeatAgrees DEF ElectionInv
  <1> QED BY <1>2, <1>4

\* The loss of a peer preserves the parts of ElectionInv about machines.
LEMMA PeerLostElectionInv ==
    ASSUME TypeOK, ElectionInv, NEW n \in Node, handlePeerLost(n)
    PROVE  /\ linkEvents = 0 => OwnPriority'
           /\ switchovers = 0 /\ linkEvents = 0 => RolesAgree'
  BY PeerLostKeeps, SMTT(20) DEF ElectionInv, OwnPriority, RolesAgree, Agrees, Outranks

\* Every step preserves ElectionInv: one case per handler.
LEMMA ElectionNext == TypeOK /\ ElectionInv /\ [Next]_vars => ElectionInv'
  <1> SUFFICES ASSUME TypeOK, ElectionInv, [Next]_vars PROVE ElectionInv'
    OBVIOUS
  <1>H. UNCHANGED srg => /\ linkEvents = 0 => OwnPriority'
                         /\ switchovers = 0 /\ linkEvents = 0 => RolesAgree'
    BY DEF ElectionInv, OwnPriority, RolesAgree, Agrees, Outranks
  <1>Q. UNCHANGED <<req, rep>> => (linkEvents = 0 => QueuesCarry')
    BY DEF ElectionInv, QueuesCarry, Carries
  <1>S. UNCHANGED switchReq => (switchovers = 0 => NoRequest')
    BY DEF ElectionInv, NoRequest
  <1>B. /\ UNCHANGED bounds => UNCHANGED <<switchovers, linkEvents>>
        /\ Fault => UNCHANGED <<switchovers, linkEvents>>
    BY DEF bounds, Fault
  <1>N. UNCHANGED network => UNCHANGED <<req, rep>>
    BY DEF network
  <1>A. UNCHANGED ha => UNCHANGED srg
    BY DEF ha
  <1>P. ASSUME UNCHANGED <<switchovers, linkEvents>>,
               linkEvents = 0 => OwnPriority', linkEvents = 0 => QueuesCarry',
               switchovers = 0 => NoRequest',
               switchovers = 0 /\ linkEvents = 0 => RolesAgree'
        PROVE  ElectionInv'
    BY <1>P DEF ElectionInv
  <1>1. ASSUME NEW n \in Node, sendHeartbeat(n) PROVE ElectionInv'
    <2>1. ASSUME linkEvents = 0 PROVE QueuesCarry'
      <3> DEFINE msg == buildSRGStatuses(srg[n])
      <3>1. msg \in Status /\ \A s \in SRGName : msg[s].prio = BasePriority[n][s]
        BY <2>1, StatusType DEF TypeOK, ElectionInv, OwnPriority, buildSRGStatuses
      <3>2. req' = [req EXCEPT ![n] = Append(@, msg)] /\ UNCHANGED rep
        BY <1>1 DEF sendHeartbeat
      <3>3. req[n] \in Seq(Status) /\ req \in [Node -> Seq(Status)]
        BY DEF TypeOK
      <3>4. QueuesCarry
        BY <2>1 DEF ElectionInv
      <3> HIDE DEF msg
      <3>5. Carries(Append(req[n], msg), n)
        BY <3>1, <3>3, <3>4, CarriesPush DEF QueuesCarry
      <3> QED BY <3>2, <3>3, <3>4, <3>5 DEF QueuesCarry, Carries
    <2>2. UNCHANGED <<ha, switchReq, bounds>>
      BY <1>1 DEF sendHeartbeat
    <2> QED BY <1>H, <1>S, <1>B, <1>A, <1>P, <2>1, <2>2
  <1>2. ASSUME NEW n \in Node, serveHeartbeat(n) PROVE ElectionInv'
    <2> DEFINE p == Peer(n)
    <2>1. p \in Node /\ Peer(p) = n /\ req[p] # << >>
      BY <1>2, NodePeer DEF serveHeartbeat
    <2>2. handlePeerHeartbeat(n, Head(req[p]))
      BY <1>2 DEF serveHeartbeat
    <2>3. req[p] \in Seq(Status) /\ rep[p] \in Seq(Status)
      BY <2>1 DEF TypeOK
    <2>4. linkEvents = 0 => Carries(req[p], p) /\ Carries(rep[p], n)
      BY <2>1 DEF ElectionInv, QueuesCarry
    <2>5. /\ linkEvents = 0 => OwnPriority'
          /\ switchovers = 0 /\ linkEvents = 0 => RolesAgree'
      BY <2>1, <2>2, <2>3, <2>4, HeartbeatElectionInv
    <2>6. HAType'
      BY <2>1, <2>2, QueueHead, HeartbeatHAType
    <2>7. /\ req' = [req EXCEPT ![p] = Tail(@)]
          /\ rep' = [rep EXCEPT ![p] = Append(@, buildSRGStatuses(srg'[n]))]
          /\ UNCHANGED <<switchReq, bounds>>
      BY <1>2 DEF serveHeartbeat
    <2>8. ASSUME linkEvents = 0 PROVE QueuesCarry'
      <3> DEFINE msg == buildSRGStatuses(srg'[n])
      <3>1. msg \in Status
        BY <2>6, StatusType DEF HAType
      <3>2. \A s \in SRGName : msg[s].prio = BasePriority[n][s]
        BY <2>5, <2>8 DEF OwnPriority, buildSRGStatuses
      <3> HIDE DEF msg, p
      <3>3. Carries(Append(rep[p], msg), n)
        BY <2>3, <2>4, <2>8, <3>1, <3>2, CarriesPush
      <3>4. Carries(Tail(req[p]), p)
        BY <2>1, <2>3, <2>4, <2>8, CarriesPop
      <3>5. req \in [Node -> Seq(Status)] /\ rep \in [Node -> Seq(Status)]
        BY DEF TypeOK
      <3>6. QueuesCarry
        BY <2>8 DEF ElectionInv
      <3>7. rep' = [rep EXCEPT ![p] = Append(@, msg)]
        BY <2>7 DEF msg
      <3>8. \A m \in Node : Carries(req'[m], m)
        BY <2>1, <2>7, <3>4, <3>5, <3>6 DEF QueuesCarry
      <3>9. \A m \in Node : Carries(rep'[m], Peer(m))
        BY <2>1, <3>7, <3>3, <3>5, <3>6 DEF QueuesCarry
      <3> QED BY <3>8, <3>9 DEF QueuesCarry, Carries
    <2> QED BY <1>S, <1>B, <1>P, <2>5, <2>7, <2>8
  <1>3. ASSUME NEW n \in Node, RecvHeartbeat(n) PROVE ElectionInv'
    <2>1. rep[n] # << >> /\ handlePeerHeartbeat(n, Head(rep[n]))
      BY <1>3 DEF RecvHeartbeat
    <2>2. rep[n] \in Seq(Status) /\ Peer(n) \in Node
      BY NodePeer DEF TypeOK
    <2>3. linkEvents = 0 => Carries(rep[n], Peer(n))
      BY DEF ElectionInv, QueuesCarry
    <2>4. /\ linkEvents = 0 => OwnPriority'
          /\ switchovers = 0 /\ linkEvents = 0 => RolesAgree'
      BY <2>1, <2>2, <2>3, HeartbeatElectionInv
    <2>5. rep' = [rep EXCEPT ![n] = Tail(@)] /\ UNCHANGED <<req, switchReq, bounds>>
      BY <1>3 DEF RecvHeartbeat
    <2>6. ASSUME linkEvents = 0 PROVE QueuesCarry'
      <3>1. Carries(Tail(rep[n]), Peer(n))
        BY <2>1, <2>2, <2>3, <2>6, CarriesPop
      <3>2. QueuesCarry /\ rep \in [Node -> Seq(Status)]
        BY <2>6 DEF ElectionInv, TypeOK
      <3> QED BY <2>5, <3>1, <3>2 DEF QueuesCarry, Carries
    <2> QED BY <1>S, <1>B, <1>P, <2>4, <2>5, <2>6
  <1>4. ASSUME NEW n \in Node, RecvError(n) PROVE ElectionInv'
    <2>1. handlePeerLost(n) /\ UNCHANGED <<req, rep, switchReq, bounds>>
      BY <1>4 DEF RecvError
    <2> QED BY <1>Q, <1>S, <1>B, <1>P, <2>1, PeerLostElectionInv
  <1>5. ASSUME NEW n \in Node, StartupTimeout(n) \/ OpenFails(n) \/ PeerTimeout(n)
        PROVE  ElectionInv'
    <2>1. handlePeerLost(n) /\ UNCHANGED <<network, switchReq>> /\ (UNCHANGED bounds \/ Fault)
      BY <1>5 DEF StartupTimeout, OpenFails, PeerTimeout
    <2> QED BY <1>Q, <1>S, <1>B, <1>N, <1>P, <2>1, PeerLostElectionInv
  <1>6. ASSUME NEW n \in Node, reconnectPeer(n) PROVE ElectionInv'
    <2>1. UNCHANGED <<ha, req, rep, switchReq, bounds>>
      BY <1>6 DEF reconnectPeer
    <2> QED BY <1>H, <1>Q, <1>S, <1>B, <1>A, <1>P, <2>1
  <1>7. ASSUME NEW n \in Node, NEW names \in SUBSET SRGName \ {{}}, NEW force \in BOOLEAN,
               RequestSwitchover(n, names, force)
        PROVE  ElectionInv'
    <2>0. switchovers' = switchovers + 1 /\ UNCHANGED linkEvents /\ UNCHANGED network
      BY <1>7 DEF RequestSwitchover
    <2>1. switchovers' # 0 /\ UNCHANGED linkEvents /\ UNCHANGED network
      <3>1. switchovers \in Nat
        BY BoundAssumption DEF TypeOK
      <3> QED BY <2>0, <3>1
    <2>2. linkEvents = 0 => OwnPriority'
      <3>1. srg' = [srg EXCEPT ![n] = [s \in SRGName |->
                 IF s \in names THEN Switchover(srg[n][s], force) ELSE srg[n][s]]]
        BY <1>7 DEF RequestSwitchover
      <3>2. \A s \in SRGName : srg[n][s] \in SRGMachine
        BY DEF TypeOK
      <3>3. \A s \in SRGName : Switchover(srg[n][s], force).prio = srg[n][s].prio
        BY <3>2, SwitchoverType
      <3>4. \A m \in Node : m # n => srg'[m] = srg[m]
        BY <3>1 DEF TypeOK
      <3>5. \A s \in SRGName : srg'[n][s].prio = srg[n][s].prio
        BY <3>1, <3>3 DEF TypeOK
      <3> QED BY <3>4, <3>5 DEF OwnPriority, ElectionInv
    <2> QED BY <1>Q, <1>N, <2>1, <2>2 DEF ElectionInv
  <1>8. ASSUME NEW n \in Node, ServeSwitchover(n) PROVE ElectionInv'
    <2>1. switchReq[n] # {} /\ UNCHANGED <<network, bounds>>
      BY <1>8 DEF ServeSwitchover
    <2>2. switchovers # 0
      BY <2>1 DEF ElectionInv, NoRequest
    <2>3. linkEvents = 0 => OwnPriority'
      <3>1. srg' = [srg EXCEPT ![n] = [s \in SRGName |->
                 IF s \in switchReq[n] THEN Switchover(srg[n][s], FALSE) ELSE srg[n][s]]]
        BY <1>8 DEF ServeSwitchover
      <3>2. \A s \in SRGName : srg[n][s] \in SRGMachine
        BY DEF TypeOK
      <3>3. \A s \in SRGName : Switchover(srg[n][s], FALSE).prio = srg[n][s].prio
        BY <3>2, SwitchoverType
      <3>4. \A m \in Node : m # n => srg'[m] = srg[m]
        BY <3>1 DEF TypeOK
      <3>5. \A s \in SRGName : srg'[n][s].prio = srg[n][s].prio
        BY <3>1, <3>3 DEF TypeOK
      <3> QED BY <3>4, <3>5 DEF OwnPriority, ElectionInv
    <2> QED BY <1>Q, <1>N, <1>B, <1>P, <2>1, <2>2, <2>3
  <1>9. ASSUME NEW n \in Node, LoseSwitchover(n) PROVE ElectionInv'
    <2>1. switchReq' = [switchReq EXCEPT ![n] = {}] /\ Fault /\ UNCHANGED <<ha, network>>
      BY <1>9 DEF LoseSwitchover
    <2>2. switchovers = 0 => NoRequest'
      BY <2>1 DEF ElectionInv, NoRequest, TypeOK
    <2> QED BY <1>H, <1>Q, <1>N, <1>A, <1>B, <1>P, <2>1, <2>2
  <1>10. ASSUME NEW n \in Node, NEW s \in SRGName, NEW up \in BOOLEAN,
                handleInterfaceEvent(n, s, up)
         PROVE  ElectionInv'
    <2>1. linkEvents' = linkEvents + 1 /\ UNCHANGED <<switchReq, switchovers>>
      BY <1>10 DEF handleInterfaceEvent
    <2>2. linkEvents \in Nat
      BY BoundAssumption DEF TypeOK
    <2>3. linkEvents' # 0
      BY <2>1, <2>2
    <2> QED BY <1>S, <2>1, <2>3 DEF ElectionInv
  <1>11. ASSUME NEW n \in Node, StreamBreaks(n) PROVE ElectionInv'
    <2>1. /\ req' = [req EXCEPT ![n] = << >>] /\ rep' = [rep EXCEPT ![n] = << >>]
          /\ Fault /\ UNCHANGED <<ha, switchReq>>
      BY <1>11 DEF StreamBreaks
    <2>2. linkEvents = 0 => QueuesCarry'
      BY <2>1 DEF ElectionInv, QueuesCarry, Carries, TypeOK
    <2> QED BY <1>H, <1>S, <1>A, <1>B, <1>P, <2>1, <2>2
  <1>12. ASSUME NEW n \in Node, Restart(n) PROVE ElectionInv'
    <2>1. /\ Fault /\ srg' = [srg EXCEPT ![n] = freshSRGs(n)]
          /\ req' = [m \in Node |-> << >>] /\ rep' = [m \in Node |-> << >>]
          /\ switchReq' = [switchReq EXCEPT ![n] = {}]
      BY <1>12 DEF Restart
    <2>2. QueuesCarry'
      BY <2>1 DEF QueuesCarry, Carries
    <2>3. switchovers = 0 => NoRequest'
      BY <2>1 DEF ElectionInv, NoRequest, TypeOK
    <2>4. /\ \A m \in Node : m # n => srg'[m] = srg[m]
          /\ \A s \in SRGName : srg'[n][s].state = "WAITING" /\ srg'[n][s].prio = BasePriority[n][s]
      BY <2>1, FreshType DEF TypeOK
    <2>5. linkEvents = 0 => OwnPriority'
      BY <2>4 DEF ElectionInv, OwnPriority
    <2>6. switchovers = 0 /\ linkEvents = 0 => RolesAgree'
      BY <2>4 DEF ElectionInv, RolesAgree, Agrees, Outranks
    <2> QED BY <1>B, <1>P, <2>1, <2>2, <2>3, <2>5, <2>6
  <1>13. CASE UNCHANGED vars
    <2>1. UNCHANGED <<srg, req, rep, switchReq, switchovers, linkEvents>>
      BY <1>13 DEF vars
    <2> QED BY <1>H, <1>Q, <1>S, <1>P, <2>1
  <1> QED BY <1>1, <1>2, <1>3, <1>4, <1>5, <1>6, <1>7, <1>8, <1>9, <1>10, <1>11,
             <1>12, <1>13 DEF Next, Step, Environment

\* Until the operator or a tracked link intervenes, only the higher-ranked node
\* is ever ACTIVE and only the other STANDBY, whatever restarts, broken
\* streams, lost peers and delayed heartbeats happened on the way.
THEOREM ElectionCorrect == Spec => []ElectionAgrees
  <1>1. Init => ElectionInv
    <2> SUFFICES ASSUME Init PROVE ElectionInv
      OBVIOUS
    <2>1. \A n \in Node, s \in SRGName :
            srg[n][s].state = "WAITING" /\ srg[n][s].prio = BasePriority[n][s]
      BY FreshType DEF Init
    <2>2. QueuesCarry /\ NoRequest
      BY DEF Init, QueuesCarry, Carries, NoRequest
    <2> QED BY <2>1, <2>2 DEF ElectionInv, OwnPriority, RolesAgree, Agrees
  <1>2. ElectionInv => ElectionAgrees
    BY ElectionInvParts
  <1> QED BY <1>1, <1>2, TypeCorrect, ElectionNext, PTL DEF Spec
=============================================================================
