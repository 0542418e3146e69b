------------------------------- MODULE HAPair -------------------------------
(***************************************************************************)
(* Two osvbng nodes peering for a set of SRGs (pkg/ha: manager.go,         *)
(* heartbeat.go, peer.go, server.go).  Each node dials its peer and runs a *)
(* heartbeat stream as client, and serves the peer's stream; both streams  *)
(* carry per-SRG status and drive handlePeerHeartbeat, so a node hears its *)
(* peer over two FIFO channels that are not ordered with each other.       *)
(*                                                                         *)
(* Handlers are atomic here; HANode takes them apart.  What a transition   *)
(* drives (publishTransition) is modelled in HANode.  Streams break, nodes *)
(* restart, timeouts fire and switchover RPCs are lost, MaxFaults times;   *)
(* MaxSwitchovers and MaxLinkEvents bound the operator and the links, and  *)
(* MaxDisturbances all of these together.                                  *)
(***************************************************************************)
EXTENDS SRG, Sequences

CONSTANTS SRGName, BasePriority, Preempt, TrackDecrement,
          QueueLen, MaxFaults, MaxSwitchovers, MaxLinkEvents, MaxDisturbances

\* The two configured node_ids, by alphabetical rank.
Node == 1..2

Peer(n) == 3 - n

ASSUME PriorityAssumption == BasePriority \in [Node -> [SRGName -> 1..255]]

ASSUME PreemptAssumption == Preempt \in [Node -> [SRGName -> BOOLEAN]]

ASSUME TrackAssumption == TrackDecrement \in [Node -> [SRGName -> Nat]]

ASSUME BoundAssumption ==
    /\ QueueLen \in Nat \ {0}
    /\ MaxFaults \in Nat /\ MaxSwitchovers \in Nat /\ MaxLinkEvents \in Nat
    /\ MaxDisturbances \in Nat

VARIABLES
    srg,          \* Manager.srgs, per node and SRG
    peerNodeID,   \* Manager.peerNodeID
    ifDownCount,  \* Manager.ifDownCount
    connected,    \* PeerClient.state.Connected
    stream,       \* this node's client heartbeat stream
    req,          \* heartbeats on that stream, towards the peer's server
    rep,          \* replies on that stream, towards this node
    switchReq,    \* SRGs of the switchover RPC in flight towards this node
    faults, switchovers, linkEvents

vars == <<srg, peerNodeID, ifDownCount, connected, stream, req, rep,
          switchReq, faults, switchovers, linkEvents>>
ha      == <<srg, peerNodeID, ifDownCount>>
network == <<connected, stream, req, rep>>
bounds  == <<faults, switchovers, linkEvents>>

Status == [SRGName -> [state: SRGState, prio: Nat]]

buildSRGStatuses(machines) ==
    [s \in SRGName |-> [state |-> machines[s].state, prio |-> machines[s].prio]]

freshSRGs(n) == [s \in SRGName |-> Start(NewSRGStateMachine(BasePriority[n][s]))]

Init ==
    /\ srg = [n \in Node |-> freshSRGs(n)]
    /\ peerNodeID = [n \in Node |-> NoPeer]
    /\ ifDownCount = [n \in Node |-> [s \in SRGName |-> 0]]
    /\ connected = [n \in Node |-> FALSE]
    /\ stream = [n \in Node |-> "none"]
    /\ req = [n \in Node |-> << >>]
    /\ rep = [n \in Node |-> << >>]
    /\ switchReq = [n \in Node |-> {}]
    /\ faults = 0 /\ switchovers = 0 /\ linkEvents = 0

-----------------------------------------------------------------------------
(* Handlers of the manager. *)

handlePeerHeartbeat(n, msg) ==
    /\ srg' = [srg EXCEPT ![n] = [s \in SRGName |->
                 onHeartbeat(srg[n][s], peerNodeID[n] = NoPeer, n, Peer(n),
                             msg[s].prio, msg[s].state, Preempt[n][s])]]
    /\ peerNodeID' = [peerNodeID EXCEPT ![n] = Peer(n)]
    /\ UNCHANGED ifDownCount

handlePeerLost(n) ==
    /\ srg' = [srg EXCEPT ![n] = [s \in SRGName |->
                 onPeerLost(srg[n][s], ifDownCount[n][s])]]
    /\ peerNodeID' = [peerNodeID EXCEPT ![n] = NoPeer]
    /\ UNCHANGED ifDownCount

hasWaitingSRGs(n) == \E s \in SRGName : srg[n][s].state = "WAITING"

\* Faults, switchovers and link events also share one bound.
Disturbed == faults + switchovers + linkEvents < MaxDisturbances

Fault ==
    /\ faults < MaxFaults /\ Disturbed
    /\ faults' = faults + 1
    /\ UNCHANGED <<switchovers, linkEvents>>

-----------------------------------------------------------------------------
(* Heartbeats. *)

sendHeartbeat(n) ==
    /\ stream[n] = "open" /\ Len(req[n]) < QueueLen
    /\ req' = [req EXCEPT ![n] = Append(@, buildSRGStatuses(srg[n]))]
    /\ UNCHANGED <<ha, connected, stream, rep, switchReq, bounds>>

\* The server side: handle the peer's heartbeat and reply with our status.
serveHeartbeat(n) ==
    LET p == Peer(n)
    IN /\ req[p] # << >> /\ Len(rep[p]) < QueueLen
       /\ handlePeerHeartbeat(n, Head(req[p]))
       /\ req' = [req EXCEPT ![p] = Tail(@)]
       /\ rep' = [rep EXCEPT ![p] = Append(@, buildSRGStatuses(srg'[n]))]
       /\ UNCHANGED <<connected, stream, switchReq, bounds>>

\* The client side: ReceiveLoop takes a reply.
RecvHeartbeat(n) ==
    /\ rep[n] # << >>
    /\ handlePeerHeartbeat(n, Head(rep[n]))
    /\ rep' = [rep EXCEPT ![n] = Tail(@)]
    /\ connected' = [connected EXCEPT ![n] = TRUE]
    /\ UNCHANGED <<stream, req, switchReq, bounds>>

\* ReceiveLoop sees the stream fail: the peer is lost, then reconnectPeer.
RecvError(n) ==
    /\ stream[n] = "broken"
    /\ handlePeerLost(n)
    /\ stream' = [stream EXCEPT ![n] = "none"]
    /\ connected' = [connected EXCEPT ![n] = FALSE]
    /\ UNCHANGED <<req, rep, switchReq, bounds>>

\* ConnectWithBackoff succeeds and OpenHeartbeatStream opens the stream.
reconnectPeer(n) ==
    /\ stream[n] = "none"
    /\ stream' = [stream EXCEPT ![n] = "open"]
    /\ UNCHANGED <<ha, connected, req, rep, switchReq, bounds>>

\* OpenHeartbeatStream fails: ReceiveLoop finds no stream, declares the peer
\* lost again and reconnects.
OpenFails(n) ==
    /\ stream[n] = "none" /\ Fault
    /\ handlePeerLost(n)
    /\ UNCHANGED <<network, switchReq>>

\* checkPeerTimeout, connected: no reply for longer than the timeout, or a
\* reply whose clock skew is refused.
PeerTimeout(n) ==
    /\ connected[n] /\ Fault
    /\ handlePeerLost(n)
    /\ UNCHANGED <<network, switchReq>>

\* checkPeerTimeout, not connected: SRGs still WAITING after the timeout.
StartupTimeout(n) ==
    /\ ~connected[n] /\ hasWaitingSRGs(n)
    /\ handlePeerLost(n)
    /\ UNCHANGED <<network, switchReq, bounds>>

-----------------------------------------------------------------------------
(* Operator and links. *)

\* RequestSwitchover: the local half, and the RPC towards the peer.
RequestSwitchover(n, names, force) ==
    /\ switchovers < MaxSwitchovers /\ Disturbed /\ switchReq[Peer(n)] = {}
    /\ srg' = [srg EXCEPT ![n] = [s \in SRGName |->
                 IF s \in names THEN Switchover(srg[n][s], force) ELSE srg[n][s]]]
    /\ switchReq' = [switchReq EXCEPT ![Peer(n)] = names]
    /\ switchovers' = switchovers + 1
    /\ UNCHANGED <<peerNodeID, ifDownCount, network, faults, linkEvents>>

\* HAPeerServer.RequestSwitchover on the node that receives the RPC.
ServeSwitchover(n) ==
    /\ switchReq[n] # {}
    /\ srg' = [srg EXCEPT ![n] = [s \in SRGName |->
                 IF s \in switchReq[n] THEN Switchover(srg[n][s], FALSE) ELSE srg[n][s]]]
    /\ switchReq' = [switchReq EXCEPT ![n] = {}]
    /\ UNCHANGED <<peerNodeID, ifDownCount, network, bounds>>

\* The RPC fails; the caller logs it and keeps its local transition.
LoseSwitchover(n) ==
    /\ switchReq[n] # {} /\ Fault
    /\ switchReq' = [switchReq EXCEPT ![n] = {}]
    /\ UNCHANGED <<ha, network>>

handleInterfaceEvent(n, s, up) ==
    LET down == countLink(ifDownCount[n][s], up)
        sm   == AdjustPriority(srg[n][s], BasePriority[n][s],
                               trackDelta(TrackDecrement[n][s], down))
    IN /\ TrackDecrement[n][s] # 0 /\ linkEvents < MaxLinkEvents /\ Disturbed
       /\ ifDownCount' = [ifDownCount EXCEPT ![n][s] = down]
       /\ srg' = [srg EXCEPT ![n][s] = IF up THEN sm ELSE TrackerPromote(sm)]
       /\ linkEvents' = linkEvents + 1
       /\ UNCHANGED <<peerNodeID, network, switchReq, faults, switchovers>>

-----------------------------------------------------------------------------
(* Faults. *)

StreamBreaks(n) ==
    /\ stream[n] = "open" /\ Fault
    /\ stream' = [stream EXCEPT ![n] = "broken"]
    /\ req' = [req EXCEPT ![n] = << >>]
    /\ rep' = [rep EXCEPT ![n] = << >>]
    /\ UNCHANGED <<ha, connected, switchReq>>

\* The process dies and comes back: nothing of the HA state is persisted.
Restart(n) ==
    /\ Fault
    /\ srg' = [srg EXCEPT ![n] = freshSRGs(n)]
    /\ peerNodeID' = [peerNodeID EXCEPT ![n] = NoPeer]
    /\ ifDownCount' = [ifDownCount EXCEPT ![n] = [s \in SRGName |-> 0]]
    /\ connected' = [connected EXCEPT ![n] = FALSE]
    /\ stream' = [m \in Node |-> IF m = n THEN "none"
                                 ELSE IF stream[m] = "open" THEN "broken" ELSE stream[m]]
    /\ req' = [m \in Node |-> << >>]
    /\ rep' = [m \in Node |-> << >>]
    /\ switchReq' = [switchReq EXCEPT ![n] = {}]

-----------------------------------------------------------------------------
Step(n) ==
    \/ sendHeartbeat(n)
    \/ serveHeartbeat(n)
    \/ RecvHeartbeat(n)
    \/ RecvError(n)
    \/ reconnectPeer(n)
    \/ StartupTimeout(n)
    \/ ServeSwitchover(n)

Environment(n) ==
    \/ OpenFails(n)
    \/ PeerTimeout(n)
    \/ \E names \in SUBSET SRGName \ {{}}, force \in BOOLEAN :
         RequestSwitchover(n, names, force)
    \/ LoseSwitchover(n)
    \/ \E s \in SRGName, up \in BOOLEAN : handleInterfaceEvent(n, s, up)
    \/ StreamBreaks(n)
    \/ Restart(n)

Next == \E n \in Node : Step(n) \/ Environment(n)

Spec == Init /\ [][Next]_vars

\* The ticker keeps sending, the two receive goroutines keep running, the
\* reconnect loop retries for ever and an RPC is answered unless it is lost.
Fairness == \A n \in Node :
    /\ WF_vars(sendHeartbeat(n)) /\ WF_vars(serveHeartbeat(n))
    /\ WF_vars(RecvHeartbeat(n)) /\ WF_vars(RecvError(n))
    /\ WF_vars(reconnectPeer(n)) /\ WF_vars(StartupTimeout(n))
    /\ WF_vars(ServeSwitchover(n))

FairSpec == Spec /\ Fairness

-----------------------------------------------------------------------------
(* Properties. *)

\* n wins the election for s against its peer on the configured values.
Outranks(n, s) ==
    \/ BasePriority[n][s] > BasePriority[Peer(n)][s]
    \/ BasePriority[n][s] = BasePriority[Peer(n)][s] /\ n < Peer(n)

\* Type invariant of the pair: machines, streams and queues hold what the
\* Go types and the queue bound allow.
TypeOK ==
    /\ srg \in [Node -> [SRGName -> SRGMachine]]
    /\ peerNodeID \in [Node -> Node \cup {NoPeer}]
    /\ ifDownCount \in [Node -> [SRGName -> Nat]]
    /\ connected \in [Node -> BOOLEAN]
    /\ stream \in [Node -> {"none", "open", "broken"}]
    /\ req \in [Node -> Seq(Status)] /\ rep \in [Node -> Seq(Status)]
    /\ \A n \in Node : Len(req[n]) <= QueueLen /\ Len(rep[n]) <= QueueLen
    /\ switchReq \in [Node -> SUBSET SRGName]
    /\ faults \in 0..MaxFaults /\ switchovers \in 0..MaxSwitchovers
    /\ linkEvents \in 0..MaxLinkEvents

\* A node that knows its peer has finished every election: between handlers no
\* SRG is left WAITING, READY, ACTIVE_SOLO or STANDBY_ALONE while
\* Manager.peerNodeID is set, whatever timeouts, restarts, link events and
\* switchovers came before (handlePeerHeartbeat re-elects on first contact).
ContactElected ==
    \A n \in Node : peerNodeID[n] # NoPeer =>
        \A s \in SRGName : srg[n][s].state \in {"ACTIVE", "STANDBY"}

\* Until the operator or a tracked link intervenes, both nodes judge every
\* election alike, over restarts, broken streams and reordered statuses: only
\* the higher-ranked node is ever ACTIVE and only the other ever STANDBY
\* (winsElection uses each side's own view of the two priorities).
ElectionAgrees ==
    switchovers = 0 /\ linkEvents = 0 =>
        \A n \in Node, s \in SRGName :
            /\ srg[n][s].state = "ACTIVE" => Outranks(n, s)
            /\ srg[n][s].state \in {"STANDBY", "STANDBY_ALONE"} => ~Outranks(n, s)

\* The pair settles on exactly one forwarding node per SRG once faults,
\* switchovers and link events stop; in particular two nodes that are both
\* ACTIVE find out (PeerHeartbeatUpdate makes the loser yield).
Converges ==
    <>[](\A s \in SRGName : \E n \in Node :
            IsActive(srg[n][s]) /\ ~IsActive(srg[Peer(n)][s]))
=============================================================================
