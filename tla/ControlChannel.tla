--------------------------- MODULE ControlChannel ---------------------------
(***************************************************************************)
(* The L2TPv2 control channel of pkg/l2tp/control_channel.go as operators  *)
(* on a channel record:                                                    *)
(*   ns, nr     next sequence number to assign, next one expected;         *)
(*   cwnd       send window, ssthresh its slow-start threshold;            *)
(*   queue      messages awaiting transmission or acknowledgement, each    *)
(*              [ns, id, attempts]; attempts = 0 means not yet sent;       *)
(*   zlb        an acknowledgement is owed (zlbDeadline is set).           *)
(* Time is abstracted: Tick is given the set of messages whose deadline    *)
(* has passed.  An operation yields [c, out]: the channel and the packets  *)
(* handed to the transport.  id names a message body; NoBody is a ZLB.     *)
(***************************************************************************)
EXTENDS Integers, Sequences, FiniteSets

CONSTANTS
  SeqMod,      \* size of the sequence space, 2^16 in the code
  MaxRetries,  \* Config.MaxRetries
  PeerWindow   \* Config.PeerRWS, the only source of peerWindow in production

ASSUME SeqModAssumption == SeqMod \in Nat /\ SeqMod >= 2 /\ SeqMod % 2 = 0
ASSUME MaxRetriesAssumption == MaxRetries \in Nat \ {0}
ASSUME PeerWindowAssumption == PeerWindow \in Nat \ {0}

NoBody == 0

Packet(c, id, ns) == [ns |-> ns, nr |-> c.nr, id |-> id]

NewControlChannel ==
  [ns |-> 0, nr |-> 0, cwnd |-> 1, ssthresh |-> PeerWindow,
   queue |-> <<>>, zlb |-> FALSE]

\* a < b in serial-number arithmetic: the top bit of a - b is set.
seqLess(a, b) == ((a - b) % SeqMod) >= SeqMod \div 2

InFlight(q) == {i \in DOMAIN q : q[i].attempts > 0}
Unsent(q) == DOMAIN q \ InFlight(q)

-----------------------------------------------------------------------------
(* Sending. *)

\* The loop of driveSend reaches unsent message i with every in-flight
\* message and every unsent one before i counted, and stops at cwnd.  The
\* transport fails after `ok' successful sends, which ends the loop with the
\* failing message already marked as sent.
driveSend(c, ok) ==
  LET q == c.queue
      Fits(i) == Cardinality(InFlight(q) \cup {j \in DOMAIN q : j < i}) < c.cwnd
      Before(i) == Cardinality({j \in Unsent(q) : j < i})
      marked == {i \in Unsent(q) : Fits(i) /\ Before(i) <= ok}
      emitted == {i \in marked : Before(i) < ok}
  IN  [c |-> [c EXCEPT
                !.queue = [i \in DOMAIN q |->
                             IF i \in marked THEN [q[i] EXCEPT !.attempts = 1] ELSE q[i]],
                !.zlb = @ /\ emitted = {}],
       out |-> {Packet(c, q[i].id, q[i].ns) : i \in emitted}]

\* SendSession with the message's sequence number and the queue it extends
\* made explicit: a caller on another goroutine may use stale copies.
Enqueue(c, id, ns, nextNs, q, ok) ==
  driveSend([c EXCEPT !.ns = nextNs,
                      !.queue = Append(q, [ns |-> ns, id |-> id, attempts |-> 0])], ok)

SendSession(c, id, ok) == Enqueue(c, id, c.ns, (c.ns + 1) % SeqMod, c.queue, ok)

-----------------------------------------------------------------------------
(* Receiving. *)

\* How many messages at the head of the queue are sent and have ns < nr.
Acked(q, nr) ==
  Cardinality({i \in DOMAIN q :
                 \A j \in 1..i : q[j].attempts > 0 /\ seqLess(q[j].ns, nr)})

\* Each acknowledged message grows the window by one, up to the peer's.
growCwndOnAck(c, n) == IF c.cwnd + n > PeerWindow THEN PeerWindow ELSE c.cwnd + n

\* (mutant) the acknowledged messages leave without driving the rest
ackThroughStalls(c, nr, ok) ==
  LET n == Acked(c.queue, nr)
  IN  [c |-> [c EXCEPT !.queue = SubSeq(@, n + 1, Len(@)),
                       !.cwnd = growCwndOnAck(c, n)], out |-> {}]

ackThrough(c, nr, ok) ==
  LET n == Acked(c.queue, nr)
  IN  IF n = 0 THEN [c |-> c, out |-> {}]
      ELSE driveSend([c EXCEPT !.queue = SubSeq(@, n + 1, Len(@)),
                               !.cwnd = growCwndOnAck(c, n)], ok)

\* Every received message, a ZLB too, leaves an acknowledgement owed; the one
\* whose ns is the expected one advances nr.
Accepts(c, p) == p.ns = c.nr

Recv(c, p, ok) ==
  LET r == ackThrough(c, p.nr, ok)
  IN  [r EXCEPT !.c.nr = IF Accepts(c, p) THEN (@ + 1) % SeqMod ELSE @,
                !.c.zlb = TRUE]

-----------------------------------------------------------------------------
(* Timers. *)

\* Retransmits the expired messages in queue order.  The first one that is
\* out of retries ends the tick: the channel is dead and its queue dropped.
Tick(c, expired, zlbDue) ==
  LET q == c.queue
      worn == {i \in expired : q[i].attempts + 1 > MaxRetries}
      dead == worn # {}
      resent == {i \in expired : \A w \in worn : i < w}
      zlb == ~ dead /\ zlbDue /\ c.zlb
      shrunk == IF resent = {} THEN c
                ELSE [c EXCEPT !.ssthresh = IF Cardinality(resent) = 1 /\ c.cwnd >= 2
                                            THEN c.cwnd \div 2 ELSE 1,
                               !.cwnd = 1]
  IN  [c |-> [shrunk EXCEPT
                !.queue = IF dead THEN <<>>
                          ELSE [i \in DOMAIN q |->
                                  IF i \in resent THEN [q[i] EXCEPT !.attempts = @ + 1]
                                                  ELSE q[i]],
                !.zlb = @ /\ ~ zlb],
       out |-> {Packet(c, q[i].id, q[i].ns) : i \in resent}
                 \cup IF zlb THEN {Packet(c, NoBody, c.ns)} ELSE {},
       dead |-> dead]
=============================================================================
