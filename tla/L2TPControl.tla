---------------------------- MODULE L2TPControl ----------------------------
(***************************************************************************)
(* Two L2TPv2 peers, each running this code: the control channel, the punt *)
(* consumer that dispatches inbound messages, the runner's Tick loop and   *)
(* the hello goroutine, over a UDP path that loses, duplicates and         *)
(* reorders.  The tunnel is established: Start messages have gone each way *)
(* and have been acknowledged.                                             *)
(*                                                                         *)
(* The channel has no lock.  Dispatch and Tick are taken as single steps;  *)
(* the hello goroutine's Send is split where it reads Ns and the queue, so *)
(* that whatever the others do in between is overwritten or not, as a data *)
(* race allows.                                                            *)
(***************************************************************************)
EXTENDS ControlChannel

CONSTANTS
  Start,    \* messages exchanged each way so far, modulo SeqMod
  MaxSend,  \* bound: messages originated by the two peers together
  MaxHello, \* bound: hello messages among them, of each peer
  MaxNet    \* bound: distinct packets in flight towards each peer

ASSUME StartAssumption == Start \in 0..(SeqMod - 1)
Peer == {"lac", "lns"}
other(e) == IF e = "lac" THEN "lns" ELSE "lac"

ASSUME BoundAssumption ==
  MaxSend \in Nat /\ MaxHello \in [Peer -> Nat] /\ MaxNet \in [Peer -> Nat]

VARIABLES
  ch,         \* the control channel of each peer
  registered, \* the tunnel is in Component.tunnels: inbound packets find it
  net,        \* packets in flight towards each peer
  hello,      \* the hello goroutine's copies inside SendSession, if it is there
  nextId,     \* names given to message bodies so far, plus one
  hellos,     \* how many hellos each peer has sent
  delivered,  \* bodies handed to the handlers of each peer, in order
  acked       \* bodies each peer dropped from its queue as acknowledged

vars == <<ch, registered, net, hello, nextId, hellos, delivered, acked>>

Id == 1..MaxSend
SeqNo == 0..(SeqMod - 1)
Idle == [id |-> NoBody, ns |-> 0, queue |-> <<>>]
Message == [ns : SeqNo, id : Id, attempts : 0..MaxRetries]
Channel == [ns : SeqNo, nr : SeqNo, cwnd : 1..PeerWindow, ssthresh : 1..PeerWindow,
            queue : Seq(Message), zlb : BOOLEAN]

\* Types of the channel records, packets, local copies and histories: Ns and
\* Nr stay in the sequence space, the windows in 1..PeerWindow, and no queued
\* message has been tried more than MaxRetries times.
TypeOK ==
  /\ ch \in [Peer -> Channel]
  /\ registered \in [Peer -> BOOLEAN]
  /\ net \in [Peer -> SUBSET [ns : SeqNo, nr : SeqNo, id : Id \cup {NoBody}]]
  /\ hello \in [Peer -> [id : Id \cup {NoBody}, ns : SeqNo, queue : Seq(Message)]]
  /\ nextId \in [Peer -> 1..(MaxSend + 1)]
  /\ hellos \in [Peer -> Nat]
  /\ delivered \in [Peer -> Seq(Id)]
  /\ acked \in [Peer -> SUBSET Id]

Init ==
  /\ ch = [e \in Peer |-> [NewControlChannel EXCEPT
                             !.ns = Start, !.nr = Start,
                             !.cwnd = growCwndOnAck(NewControlChannel, Start)]]
  /\ registered = [e \in Peer |-> TRUE]
  /\ net = [e \in Peer |-> {}]
  /\ hello = [e \in Peer |-> Idle]
  /\ nextId = [e \in Peer |-> 1]
  /\ hellos = [e \in Peer |-> 0]
  /\ delivered = [e \in Peer |-> <<>>]
  /\ acked = [e \in Peer |-> {}]

-----------------------------------------------------------------------------
\* The path to the other peer keeps any subset of what was sent, and of what
\* it held (`kept').
Transmit(e, out, kept) ==
  \E got \in SUBSET out :
    /\ Cardinality(net[other(e)] \cup got) <= MaxNet[other(e)]
    /\ net' = [net EXCEPT ![e] = kept, ![other(e)] = @ \cup got]

MaySend == nextId["lac"] + nextId["lns"] - 2 < MaxSend

\* Bodies that left the queue between the channels c and d.
Popped(c, d) ==
  {c.queue[i].id : i \in DOMAIN c.queue} \ {d.queue[i].id : i \in DOMAIN d.queue}

\* (mutant) a duplicate is handed to its handler again
DispatchRepeats(e, p, reply, dup, ok) ==
  LET r == Recv(ch[e], p, ok)
      handled == p.id # NoBody
  IN  /\ registered[e] /\ p \in net[e] /\ ~ reply
      /\ ch' = [ch EXCEPT ![e] = r.c]
      /\ Transmit(e, r.out, IF dup THEN net[e] ELSE net[e] \ {p})
      /\ delivered' = [delivered EXCEPT ![e] = IF handled THEN Append(@, p.id) ELSE @]
      /\ UNCHANGED <<registered, hello, hellos, acked, nextId>>

\* Dispatch of a packet for a known tunnel: Recv, then, for an accepted
\* message with a body, its handler, which may send one reply (ICRQ is
\* answered with ICRP, ICRP with ICCN; HELLO and ICCN with nothing).
Dispatch(e, p, reply, dup, ok) ==
  LET r == Recv(ch[e], p, ok)
      handled == Accepts(ch[e], p) /\ p.id # NoBody
      s == IF reply THEN SendSession(r.c, nextId[e], ok) ELSE [c |-> r.c, out |-> {}]
  IN  /\ registered[e] /\ p \in net[e]
      /\ reply => handled /\ MaySend
      /\ ch' = [ch EXCEPT ![e] = s.c]
      /\ Transmit(e, r.out \cup s.out, IF dup THEN net[e] ELSE net[e] \ {p})
      /\ delivered' = [delivered EXCEPT ![e] = IF handled THEN Append(@, p.id) ELSE @]
      /\ acked' = [acked EXCEPT ![e] = @ \cup Popped(ch[e], r.c)]
      /\ nextId' = [nextId EXCEPT ![e] = IF reply THEN @ + 1 ELSE @]
      /\ UNCHANGED <<registered, hello, hellos>>

\* LookupTunnel finds nothing once the channel was declared dead.
DispatchUnknown(e, p) ==
  /\ ~ registered[e] /\ p \in net[e]
  /\ net' = [net EXCEPT ![e] = @ \ {p}]
  /\ UNCHANGED <<ch, registered, hello, nextId, hellos, delivered, acked>>

\* (mutant) the dead channel keeps the message that ran out of retries
RunnerTickKeeps(e, expired, zlbDue) ==
  LET r == Tick(ch[e], expired, zlbDue)
  IN  /\ r.out # {} \/ r.dead
      /\ ch' = [ch EXCEPT ![e] = [r.c EXCEPT !.queue = [i \in DOMAIN ch[e].queue |->
                   IF i \in expired THEN [ch[e].queue[i] EXCEPT !.attempts = @ + 1]
                                    ELSE ch[e].queue[i]]]]
      /\ registered' = [registered EXCEPT ![e] = @ /\ ~ r.dead]
      /\ Transmit(e, r.out, net[e])
      /\ UNCHANGED <<hello, nextId, hellos, delivered, acked>>

\* One turn of tunnelRunner.loop.  The dead callback unregisters the tunnel;
\* the runner and the hello goroutine keep going.
RunnerTick(e, expired, zlbDue) ==
  LET r == Tick(ch[e], expired, zlbDue)
  IN  /\ r.out # {} \/ r.dead
      /\ ch' = [ch EXCEPT ![e] = r.c]
      /\ registered' = [registered EXCEPT ![e] = @ /\ ~ r.dead]
      /\ Transmit(e, r.out, net[e])
      /\ UNCHANGED <<hello, nextId, hellos, delivered, acked>>

\* The hello goroutine enters SendSession and reads the channel.
HelloRead(e) ==
  /\ hello[e].id = NoBody
  /\ MaySend /\ hellos[e] < MaxHello[e]
  /\ hello' = [hello EXCEPT ![e] = [id |-> nextId[e], ns |-> ch[e].ns,
                                    queue |-> ch[e].queue]]
  /\ nextId' = [nextId EXCEPT ![e] = @ + 1]
  /\ hellos' = [hellos EXCEPT ![e] = @ + 1]
  /\ UNCHANGED <<ch, registered, net, delivered, acked>>

\* It writes Ns and the queue back, each computed from its copy or re-read.
HelloWrite(e, staleNs, staleQueue, ok) ==
  LET h == hello[e]
      ns == IF staleNs THEN h.ns ELSE ch[e].ns
      q == IF staleQueue THEN h.queue ELSE ch[e].queue
      r == Enqueue(ch[e], h.id, h.ns, (ns + 1) % SeqMod, q, ok)
  IN  /\ h.id # NoBody
      /\ ch' = [ch EXCEPT ![e] = r.c]
      /\ hello' = [hello EXCEPT ![e] = Idle]
      /\ Transmit(e, r.out, net[e])
      /\ UNCHANGED <<registered, nextId, hellos, delivered, acked>>

\* Sends of one loop that succeed before the transport fails: none or all.
Sends == {0, PeerWindow}

Retransmit(e) ==
  \E expired \in SUBSET InFlight(ch[e].queue), zlbDue \in BOOLEAN :
    RunnerTick(e, expired, zlbDue)

Next ==
  \E e \in Peer :
    \/ \E p \in net[e], reply, dup \in BOOLEAN, ok \in Sends : Dispatch(e, p, reply, dup, ok)
    \/ \E p \in net[e] : DispatchUnknown(e, p)
    \/ Retransmit(e)
    \/ HelloRead(e)
    \/ \E staleNs, staleQueue \in BOOLEAN, ok \in Sends :
         HelloWrite(e, staleNs, staleQueue, ok)

Spec == Init /\ [][Next]_vars

-----------------------------------------------------------------------------
\* The send window is kept and never stalls: the messages in flight are the
\* head of the queue, they are at most the peer's receive window, and a queue
\* that is not empty has its head in flight, hence a retransmission timer
\* armed - also after a transport error, an acknowledgement of everything in
\* flight, a shrunken window or a lost race with the hello goroutine.
WindowHeld ==
  \A e \in Peer :
    LET q == ch[e].queue IN
    /\ \A i \in InFlight(q) : 1..i \subseteq InFlight(q)
    /\ Cardinality(InFlight(q)) <= PeerWindow
    /\ q # <<>> => 1 \in InFlight(q)

\* However the path loses, duplicates and reorders packets and however they
\* are retransmitted, Recv hands every message body to its handler at most
\* once, and in the order they were sent.
DeliveredInOrder ==
  \A e \in Peer : \A i, j \in DOMAIN delivered[e] :
    i < j => delivered[e][i] < delivered[e][j]

\* What "reliable control channel" says: a message the sender dropped as
\* acknowledged was handed to a handler of the peer.
AckedDelivered ==
  \A e \in Peer : acked[e] \subseteq {delivered[other(e)][i] : i \in DOMAIN delivered[other(e)]}
=============================================================================
