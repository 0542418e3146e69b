------------------------- MODULE L2TPControlProofs -------------------------
(***************************************************************************)
(* The L2TPv2 control channel between two peers, for any sequence space,   *)
(* window, retry limit and number of messages: TypeOK and WindowHeld.      *)
(*                                                                         *)
(* WindowHeld speaks of the queue a channel holds.  It is kept because the *)
(* copy the hello goroutine may write back is also the queue of some       *)
(* earlier moment: sent up to some message within the peer's window, and   *)
(* not sent after it.                                                      *)
(***************************************************************************)
EXTENDS L2TPControl, FiniteSetTheorems, SequenceTheorems, TLAPS

\* Messages 1..k of the queue are in flight and the others are not.
SentUpTo(q, k) ==
  /\ k \in 0..Len(q)
  /\ \A i \in 1..Len(q) : q[i].attempts > 0 <=> i <= k

Windowed(q) == q \in Seq(Message) /\ \E k \in 0..PeerWindow : SentUpTo(q, k)

\* A timer runs for the head of the queue.
Timed(q) == q # <<>> => q[1].attempts > 0

IInv ==
  /\ TypeOK
  /\ \A e \in Peer : /\ Windowed(ch[e].queue) /\ Timed(ch[e].queue)
                     /\ Windowed(hello[e].queue)

PacketType == [ns : SeqNo, nr : SeqNo, id : Id \cup {NoBody}]

\* What an operation on a channel yields when it keeps the invariant.
Good(r) ==
  /\ r \in [c : Channel, out : SUBSET PacketType]
  /\ Windowed(r.c.queue) /\ Timed(r.c.queue)

-----------------------------------------------------------------------------
(* Queues. *)

\* A function on 1..n is a sequence of length n.
LEMMA FunctionIsSeq ==
  ASSUME NEW S, NEW n \in Nat, NEW f \in [1..n -> S]
  PROVE  f \in Seq(S) /\ Len(f) = n /\ DOMAIN f = 1..n
<1>1. f \in Seq(S)
  BY SeqDef
<1> QED
  BY <1>1, LenProperties

\* What SentUpTo says of the sets the channel's operators count.
LEMMA SentSets ==
  ASSUME NEW q \in Seq(Message), NEW k, SentUpTo(q, k)
  PROVE  /\ k \in Nat /\ k <= Len(q) /\ Len(q) \in Nat /\ DOMAIN q = 1..Len(q)
         /\ InFlight(q) = 1..k /\ Unsent(q) = (k + 1)..Len(q)
<1>1. Len(q) \in Nat /\ DOMAIN q = 1..Len(q)
  BY LenProperties
<1>2. k \in Nat /\ k <= Len(q)
  BY <1>1 DEF SentUpTo
<1>3. InFlight(q) = 1..k
  BY <1>1, <1>2 DEF InFlight, SentUpTo
<1> QED
  BY <1>1, <1>2, <1>3 DEF Unsent

\* The messages in flight fit the peer's window and are the head of the queue.
LEMMA WindowedMeaning ==
  ASSUME NEW q, Windowed(q), Timed(q)
  PROVE  /\ \A i \in InFlight(q) : 1..i \subseteq InFlight(q)
         /\ Cardinality(InFlight(q)) <= PeerWindow
         /\ q # <<>> => 1 \in InFlight(q)
<1>1. PICK k \in 0..PeerWindow : SentUpTo(q, k)
  BY DEF Windowed
<1>2. q \in Seq(Message)
  BY DEF Windowed
<1>3. k \in Nat /\ InFlight(q) = 1..k /\ DOMAIN q = 1..Len(q) /\ Len(q) \in Nat
  BY <1>1, <1>2, SentSets
<1>4. Cardinality(1..k) = k
  BY <1>3, FS_Interval
<1>5. q # <<>> => 1 \in InFlight(q)
  BY <1>2, <1>3, EmptySeq DEF Timed, InFlight
<1>6. k <= PeerWindow
  BY PeerWindowAssumption
<1> QED
  BY <1>3, <1>4, <1>5, <1>6

\* Sending a message, or sending it again, counts the attempt.
LEMMA MessageSent ==
  ASSUME NEW m \in Message, NEW n \in 1..MaxRetries
  PROVE  /\ [m EXCEPT !.attempts = n] \in Message
         /\ [m EXCEPT !.attempts = n].attempts = n
BY DEF Message

\* The messages of a queue.
LEMMA QueuedMessage ==
  ASSUME NEW q \in Seq(Message), NEW i \in 1..Len(q)
  PROVE  q[i] \in Message /\ q[i].attempts \in Nat
<1>1. q[i] \in Message
  BY ElementOfSeq
<1>2. 0..MaxRetries \subseteq Nat
  BY MaxRetriesAssumption
<1> QED
  BY <1>1, <1>2 DEF Message

-----------------------------------------------------------------------------
(* The operations on a channel. *)

\* driveSend marks the messages after the ones in flight, up to the window.
LEMMA DriveSendMarks ==
  ASSUME NEW q \in Seq(Message), NEW k \in 0..PeerWindow, SentUpTo(q, k),
         NEW cwnd \in 1..PeerWindow, NEW ok \in Nat,
         NEW marked, marked = {i \in Unsent(q) :
           /\ Cardinality(InFlight(q) \cup {j \in DOMAIN q : j < i}) < cwnd
           /\ Cardinality({j \in Unsent(q) : j < i}) <= ok},
         NEW r, r = [i \in DOMAIN q |->
           IF i \in marked THEN [q[i] EXCEPT !.attempts = 1] ELSE q[i]]
  PROVE  Windowed(r) /\ Timed(r)
<1>1. /\ k \in Nat /\ k <= Len(q) /\ Len(q) \in Nat /\ DOMAIN q = 1..Len(q)
      /\ InFlight(q) = 1..k /\ Unsent(q) = (k + 1)..Len(q)
  BY SentSets
<1>2. PeerWindow \in Nat /\ 1 \in 1..MaxRetries
  BY PeerWindowAssumption, MaxRetriesAssumption
<1>3. \A i \in Unsent(q) :
        /\ Cardinality(InFlight(q) \cup {j \in DOMAIN q : j < i}) = i - 1
        /\ Cardinality({j \in Unsent(q) : j < i}) = i - 1 - k
  <2> TAKE i \in Unsent(q)
  <2>1. i \in Int /\ k < i /\ i <= Len(q)
    BY <1>1
  <2>2. InFlight(q) \cup {j \in DOMAIN q : j < i} = 1..(i - 1)
    BY <1>1, <2>1
  <2>3. {j \in Unsent(q) : j < i} = (k + 1)..(i - 1)
    BY <1>1, <2>1
  <2>4. /\ Cardinality(1..(i - 1)) = IF 1 > i - 1 THEN 0 ELSE (i - 1) - 1 + 1
        /\ Cardinality((k + 1)..(i - 1)) = IF k + 1 > i - 1 THEN 0 ELSE (i - 1) - (k + 1) + 1
    <3>1. 1 \in Int /\ i - 1 \in Int /\ k + 1 \in Int
      BY <1>1, <2>1
    <3> QED
      BY <3>1, FS_Interval, Zenon
  <2>5. /\ (IF 1 > i - 1 THEN 0 ELSE (i - 1) - 1 + 1) = i - 1
        /\ (IF k + 1 > i - 1 THEN 0 ELSE (i - 1) - (k + 1) + 1) = i - 1 - k
    BY <1>1, <2>1
  <2> QED
    BY <2>2, <2>3, <2>4, <2>5, Zenon
<1>4. marked = {i \in (k + 1)..Len(q) : i - 1 < cwnd /\ i - 1 - k <= ok}
  BY <1>1, <1>3
<1>5. PICK n \in Nat : /\ k <= n /\ n <= Len(q) /\ n <= PeerWindow
                       /\ \A i \in 1..Len(q) : i <= n <=> i <= k \/ i \in marked
  <2> DEFINE a == IF Len(q) < cwnd THEN Len(q) ELSE cwnd
             b == IF a < k + 1 + ok THEN a ELSE k + 1 + ok
             n == IF b < k THEN k ELSE b
  <2>1. a \in Nat /\ b \in Nat /\ n \in Nat /\ cwnd <= PeerWindow /\ k <= PeerWindow
    BY <1>1, <1>2
  <2>2. k <= n /\ n <= Len(q) /\ n <= PeerWindow
    BY <1>1, <1>2, <2>1
  <2>3. \A i \in 1..Len(q) : i <= n <=> i <= k \/ i \in marked
    <3> TAKE i \in 1..Len(q)
    <3>1. i \in marked <=> k < i /\ i <= cwnd /\ i <= k + 1 + ok
      BY <1>1, <1>4
    <3>2. i <= b <=> i <= cwnd /\ i <= k + 1 + ok
      BY <1>1
    <3>3. i <= n <=> i <= k \/ i <= b
      BY <1>1, <2>1
    <3> QED
      BY <1>1, <3>1, <3>2, <3>3
  <2> QED
    BY <2>1, <2>2, <2>3
<1>6. \A i \in 1..Len(q) : /\ r[i] \in Message
                           /\ r[i].attempts > 0 <=> i <= n
  <2> TAKE i \in 1..Len(q)
  <2>1. q[i] \in Message /\ r[i] = IF i \in marked THEN [q[i] EXCEPT !.attempts = 1] ELSE q[i]
    BY <1>1, ElementOfSeq
  <2>2. q[i].attempts > 0 <=> i <= k
    BY DEF SentUpTo
  <2>3. [q[i] EXCEPT !.attempts = 1] \in Message /\ [q[i] EXCEPT !.attempts = 1].attempts = 1
    BY <1>2, <2>1, MessageSent
  <2>4. i <= n <=> i <= k \/ i \in marked
    BY <1>5
  <2>5. CASE i \in marked
    BY <2>1, <2>3, <2>4, <2>5
  <2>6. CASE i \notin marked
    BY <2>1, <2>2, <2>4, <2>6
  <2> QED
    BY <2>5, <2>6
<1>7. r \in Seq(Message) /\ Len(r) = Len(q)
  <2>1. r \in [1..Len(q) -> Message]
    BY <1>1, <1>6
  <2> QED
    BY <1>1, <2>1, FunctionIsSeq
<1>8. Windowed(r)
  <2>1. n \in 0..PeerWindow /\ n \in 0..Len(q)
    BY <1>1, <1>2, <1>5
  <2>2. SentUpTo(r, n)
    BY <1>6, <1>7, <2>1 DEF SentUpTo
  <2> QED
    BY <1>7, <2>1, <2>2 DEF Windowed
<1>9. ASSUME r # <<>> PROVE r[1].attempts > 0
  <2>1. 1 \in 1..Len(q)
    BY <1>1, <1>7, <1>9, EmptySeq
  <2>2. 1 <= k \/ 1 \in marked
    <3>1. CASE k = 0
      <4>1. 1 \in (k + 1)..Len(q) /\ 1 - 1 < cwnd /\ 1 - 1 - k <= ok
        BY <1>1, <2>1, <3>1
      <4> QED
        BY <1>4, <4>1, Zenon
    <3>2. CASE k # 0
      BY <1>1, <3>2
    <3> QED
      BY <3>1, <3>2
  <2> QED
    BY <1>5, <1>6, <2>1, <2>2
<1> QED
  BY <1>8, <1>9 DEF Timed

\* driveSend leaves a channel whose queue is within the window and has its
\* head in flight, whatever the queue was sent up to and wherever the
\* transport failed.
LEMMA DriveSendKeeps ==
  ASSUME NEW c \in Channel, Windowed(c.queue), NEW ok \in Nat
  PROVE  Good(driveSend(c, ok))
<1> DEFINE q == c.queue
           Fits(i) == Cardinality(InFlight(q) \cup {j \in DOMAIN q : j < i}) < c.cwnd
           Before(i) == Cardinality({j \in Unsent(q) : j < i})
           marked == {i \in Unsent(q) : Fits(i) /\ Before(i) <= ok}
           emitted == {i \in marked : Before(i) < ok}
           r == [i \in DOMAIN q |->
                   IF i \in marked THEN [q[i] EXCEPT !.attempts = 1] ELSE q[i]]
           z == c.zlb /\ emitted = {}
           out == {Packet(c, q[i].id, q[i].ns) : i \in emitted}
           d == [c EXCEPT !.queue = r, !.zlb = z]
<1>1. /\ q \in Seq(Message) /\ c.cwnd \in 1..PeerWindow
      /\ c.nr \in SeqNo /\ c.zlb \in BOOLEAN
  BY DEF Channel
<1>2. PICK k \in 0..PeerWindow : SentUpTo(q, k)
  BY DEF Windowed
<1>3. Windowed(r) /\ Timed(r)
  BY <1>1, <1>2, DriveSendMarks
<1>4. driveSend(c, ok) = [c |-> d, out |-> out]
  BY Zenon DEF driveSend
<1>5. out \subseteq PacketType
  <2>1. \A i \in emitted : q[i] \in Message
    BY <1>1, LenProperties, ElementOfSeq DEF Unsent
  <2> QED
    <3>1. \A i \in emitted : Packet(c, q[i].id, q[i].ns) \in PacketType
      BY <1>1, <2>1 DEF Packet, PacketType, Message
    <3> QED
      BY <3>1, Zenon
<1>6. z \in BOOLEAN /\ r \in Seq(Message)
  BY <1>1, <1>3 DEF Windowed
<1> HIDE DEF r, z, out
<1>7. d \in Channel /\ d.queue = r
  BY <1>6 DEF Channel
<1> HIDE DEF d
<1> QED
  BY <1>3, <1>4, <1>5, <1>7 DEF Good

\* SendSession extends the queue it was given, its own or a stale copy.
LEMMA EnqueueKeeps ==
  ASSUME NEW c \in Channel, NEW id \in Id, NEW ns \in SeqNo, NEW nextNs \in SeqNo,
         NEW q, Windowed(q), NEW ok \in Nat
  PROVE  Good(Enqueue(c, id, ns, nextNs, q, ok))
<1> DEFINE m == [ns |-> ns, id |-> id, attempts |-> 0]
           p == Append(q, m)
           d == [c EXCEPT !.ns = nextNs, !.queue = p]
<1>1. q \in Seq(Message) /\ m \in Message
  BY MaxRetriesAssumption DEF Windowed, Message
<1>2. PICK k \in 0..PeerWindow : SentUpTo(q, k)
  BY DEF Windowed
<1>3. /\ p \in Seq(Message) /\ Len(p) = Len(q) + 1 /\ Len(q) \in Nat
      /\ \A i \in 1..Len(q) : p[i] = q[i]
      /\ p[Len(q) + 1] = m
  BY <1>1, AppendProperties, LenProperties
<1>4. SentUpTo(p, k)
  <2>1. k \in Nat /\ k <= Len(q)
    BY <1>2, <1>3 DEF SentUpTo
  <2>2. ASSUME NEW i \in 1..Len(p) PROVE p[i].attempts > 0 <=> i <= k
    <3>1. CASE i \in 1..Len(q)
      BY <1>2, <1>3, <3>1 DEF SentUpTo
    <3>2. CASE i = Len(q) + 1
      <4>1. p[i].attempts = 0 /\ ~ (i <= k)
        BY <1>3, <2>1, <3>2
      <4> QED
        BY <4>1
    <3> QED
      BY <1>3, <3>1, <3>2
  <2> QED
    BY <1>3, <2>1, <2>2 DEF SentUpTo
<1> HIDE DEF p
<1>5. d \in Channel /\ d.queue = p
  BY <1>3 DEF Channel
<1>6. Windowed(p)
  BY <1>3, <1>4 DEF Windowed
<1>7. Good(driveSend(d, ok))
  BY <1>5, <1>6, DriveSendKeeps
<1>8. Enqueue(c, id, ns, nextNs, q, ok) = driveSend(d, ok)
  BY Zenon DEF Enqueue, p
<1> QED
  BY <1>7, <1>8

\* Only messages in flight are acknowledged.
LEMMA AckedInFlight ==
  ASSUME NEW q \in Seq(Message), NEW k, SentUpTo(q, k), NEW nr
  PROVE  Acked(q, nr) \in 0..k
<1> DEFINE A == {i \in DOMAIN q :
                   \A j \in 1..i : q[j].attempts > 0 /\ seqLess(q[j].ns, nr)}
<1>1. k \in Nat /\ k <= Len(q) /\ Len(q) \in Nat /\ DOMAIN q = 1..Len(q)
  BY SentSets
<1>2. ASSUME NEW i \in A PROVE i \in 1..k
  <2>1. i \in 1..Len(q) /\ q[i].attempts > 0
    BY <1>1
  <2> QED
    BY <1>1, <2>1 DEF SentUpTo
<1>3. IsFiniteSet(1..k) /\ Cardinality(1..k) = k
  BY <1>1, FS_Interval
<1> HIDE DEF A
<1>4. A \in SUBSET (1..k)
  BY <1>2
<1>5. IsFiniteSet(A) /\ Cardinality(A) <= k
  BY <1>3, <1>4, FS_Subset
<1>6. Cardinality(A) \in Nat
  BY <1>5, FS_CardinalityType
<1>7. Acked(q, nr) = Cardinality(A)
  BY Zenon DEF Acked, A
<1> QED
  BY <1>1, <1>5, <1>6, <1>7

\* Dropping messages in flight leaves a queue sent up to some message.
LEMMA DroppedHead ==
  ASSUME NEW q \in Seq(Message), NEW k \in 0..PeerWindow, SentUpTo(q, k),
         NEW n \in 0..k
  PROVE  Windowed(SubSeq(q, n + 1, Len(q)))
<1> DEFINE p == SubSeq(q, n + 1, Len(q))
<1>1. /\ k \in Nat /\ k <= Len(q) /\ Len(q) \in Nat /\ n \in Nat /\ n <= k
      /\ PeerWindow \in Nat
  BY SentSets, PeerWindowAssumption
<1>2. \A i \in (n + 1)..Len(q) : q[i] \in Message
  BY <1>1, ElementOfSeq
<1>3. /\ p \in Seq(Message)
      /\ Len(p) = IF n + 1 <= Len(q) THEN Len(q) - (n + 1) + 1 ELSE 0
      /\ \A i \in 1..(Len(q) - (n + 1) + 1) : p[i] = q[(n + 1) + i - 1]
  <2>1. n + 1 \in Int /\ Len(q) \in Int
    BY <1>1
  <2> QED
    BY <1>2, <2>1, SubSeqProperties
<1> HIDE DEF p
<1>4. Len(p) = Len(q) - n
  BY <1>1, <1>3
<1>5. SentUpTo(p, k - n)
  <2>1. k - n \in 0..Len(p)
    BY <1>1, <1>4
  <2>2. ASSUME NEW i \in 1..Len(p) PROVE p[i].attempts > 0 <=> i <= k - n
    <3>1. i \in 1..(Len(q) - (n + 1) + 1) /\ n + i \in 1..Len(q) /\ (n + 1) + i - 1 = n + i
      BY <1>1, <1>4
    <3>2. p[i] = q[n + i]
      BY <1>3, <3>1
    <3>3. q[n + i].attempts > 0 <=> n + i <= k
      BY <3>1 DEF SentUpTo
    <3>4. n + i <= k <=> i <= k - n
      BY <1>1, <1>4
    <3> QED
      BY <3>2, <3>3, <3>4
  <2> QED
    BY <2>1, <2>2 DEF SentUpTo
<1>6. k - n \in 0..PeerWindow
  BY <1>1
<1>7. Windowed(p)
  BY <1>3, <1>5, <1>6 DEF Windowed
<1> QED
  BY <1>7 DEF p
\* ackThrough drops what was acknowledged and drives the rest; a packet that
\* acknowledges nothing leaves the channel alone.
LEMMA AckThroughKeeps ==
  ASSUME NEW c \in Channel, Windowed(c.queue), Timed(c.queue), NEW nr, NEW ok \in Nat
  PROVE  Good(ackThrough(c, nr, ok))
<1> DEFINE q == c.queue
           n == Acked(q, nr)
           p == SubSeq(q, n + 1, Len(q))
           w == growCwndOnAck(c, n)
           d == [c EXCEPT !.queue = p, !.cwnd = w]
<1>1. q \in Seq(Message) /\ c.cwnd \in 1..PeerWindow
  BY DEF Channel
<1>2. PICK k \in 0..PeerWindow : SentUpTo(q, k)
  BY DEF Windowed
<1>3. n \in 0..k
  BY <1>1, <1>2, AckedInFlight
<1>4. Windowed(p)
  BY <1>1, <1>2, <1>3, DroppedHead
<1>5. w \in 1..PeerWindow
  BY <1>1, <1>3, PeerWindowAssumption DEF growCwndOnAck
<1>6. ackThrough(c, nr, ok) = IF n = 0 THEN [c |-> c, out |-> {}] ELSE driveSend(d, ok)
  BY Zenon DEF ackThrough
<1>7. CASE n = 0
  BY <1>6, <1>7 DEF Good
<1>8. CASE n # 0
  <2>1. p \in Seq(Message)
    BY <1>4 DEF Windowed
  <2> HIDE DEF p, w
  <2>2. d \in Channel /\ d.queue = p
    BY <1>5, <2>1 DEF Channel
  <2>3. Good(driveSend(d, ok))
    BY <1>4, <2>2, DriveSendKeeps
  <2> QED
    BY <1>6, <1>8, <2>3
<1> QED
  BY <1>7, <1>8

\* The sequence numbers wrap within their space.
LEMMA NextSeqNo ==
  ASSUME NEW n \in SeqNo
  PROVE  (n + 1) % SeqMod \in SeqNo
BY SeqModAssumption DEF SeqNo

\* Recv: what the packet acknowledges, then Nr and the acknowledgement owed.
LEMMA RecvKeeps ==
  ASSUME NEW c \in Channel, Windowed(c.queue), Timed(c.queue), NEW p, NEW ok \in Nat
  PROVE  Good(Recv(c, p, ok))
<1> DEFINE r == ackThrough(c, p.nr, ok)
           n == IF Accepts(c, p) THEN (r.c.nr + 1) % SeqMod ELSE r.c.nr
           d == [r.c EXCEPT !.nr = n, !.zlb = TRUE]
<1>1. Good(r)
  BY AckThroughKeeps
<1>2. Recv(c, p, ok) = [r EXCEPT !.c.nr = IF Accepts(c, p) THEN (@ + 1) % SeqMod ELSE @,
                                 !.c.zlb = TRUE]
  BY Zenon DEF Recv
<1> HIDE DEF r
<1>3. r \in [c : Channel, out : SUBSET PacketType]
  BY <1>1 DEF Good
<1>4. r.c \in Channel /\ r.out \in SUBSET PacketType
  BY <1>3
<1>5. n \in SeqNo
  BY <1>4, NextSeqNo DEF Channel
<1>6. Recv(c, p, ok) = [c |-> d, out |-> r.out]
  BY <1>2, <1>3, <1>4 DEF Channel
<1> HIDE DEF n
<1>7. d \in Channel /\ d.queue = r.c.queue
  BY <1>4, <1>5 DEF Channel
<1> HIDE DEF d
<1> QED
  BY <1>1, <1>4, <1>6, <1>7 DEF Good

\* What is queued, hence what Recv takes off the queue, are message bodies.
LEMMA MessageIds ==
  ASSUME NEW c \in Channel
  PROVE  {c.queue[i].id : i \in DOMAIN c.queue} \subseteq Id
<1>1. \A i \in DOMAIN c.queue : c.queue[i] \in Message
  BY ElementOfSeq, LenProperties DEF Channel
<1> QED
  BY <1>1 DEF Message

\* Tick: the messages in flight stay the same ones, each tried at most
\* MaxRetries times; a dead channel holds nothing.
LEMMA TickQueue ==
  ASSUME NEW q, Windowed(q), Timed(q), NEW resent \in SUBSET InFlight(q),
         \A i \in resent : q[i].attempts + 1 <= MaxRetries,
         NEW r, r = [i \in DOMAIN q |->
           IF i \in resent THEN [q[i] EXCEPT !.attempts = @ + 1] ELSE q[i]]
  PROVE  Windowed(r) /\ Timed(r)
<1>1. q \in Seq(Message)
  BY DEF Windowed
<1>2. PICK k \in 0..PeerWindow : SentUpTo(q, k)
  BY DEF Windowed
<1>3. k \in Nat /\ Len(q) \in Nat /\ DOMAIN q = 1..Len(q)
  BY <1>1, <1>2, SentSets
<1>4. ASSUME NEW i \in 1..Len(q)
      PROVE  r[i] \in Message /\ (r[i].attempts > 0 <=> q[i].attempts > 0)
  <2>1. q[i] \in Message /\ q[i].attempts \in Nat
    BY <1>1, QueuedMessage
  <2>2. CASE i \in resent
    <3>1. q[i].attempts > 0 /\ q[i].attempts + 1 \in 1..MaxRetries
      BY <2>1, <2>2, MaxRetriesAssumption DEF InFlight
    <3>2. r[i] = [q[i] EXCEPT !.attempts = q[i].attempts + 1]
      BY <1>3, <2>2
    <3>3. r[i] \in Message /\ r[i].attempts = q[i].attempts + 1
      BY <2>1, <3>1, <3>2, MessageSent
    <3> QED
      BY <2>1, <3>1, <3>3
  <2>3. CASE i \notin resent
    BY <1>3, <2>1, <2>3
  <2> QED
    BY <2>2, <2>3
<1>5. r \in Seq(Message) /\ Len(r) = Len(q)
  <2>1. r \in [1..Len(q) -> Message]
    BY <1>3, <1>4
  <2> QED
    BY <1>3, <2>1, FunctionIsSeq
<1>6. Windowed(r)
  BY <1>2, <1>4, <1>5 DEF Windowed, SentUpTo
<1>7. ASSUME r # <<>> PROVE r[1].attempts > 0
  <2>1. 1 \in 1..Len(q) /\ q # <<>>
    BY <1>1, <1>3, <1>5, <1>7, EmptySeq
  <2> QED
    BY <1>4, <2>1 DEF Timed
<1> QED
  BY <1>6, <1>7 DEF Timed

\* Tick leaves a channel within the window that has its head in flight, or an
\* empty one.
LEMMA TickKeeps ==
  ASSUME NEW c \in Channel, Windowed(c.queue), Timed(c.queue),
         NEW expired \in SUBSET InFlight(c.queue), NEW zlbDue \in BOOLEAN
  PROVE  /\ Tick(c, expired, zlbDue).c \in Channel
         /\ Tick(c, expired, zlbDue).out \in SUBSET PacketType
         /\ Tick(c, expired, zlbDue).dead \in BOOLEAN
         /\ Windowed(Tick(c, expired, zlbDue).c.queue)
         /\ Timed(Tick(c, expired, zlbDue).c.queue)
<1> DEFINE q == c.queue
           worn == {i \in expired : q[i].attempts + 1 > MaxRetries}
           dead == worn # {}
           resent == {i \in expired : \A w \in worn : i < w}
           zlb == ~ dead /\ zlbDue /\ c.zlb
           shrunk == IF resent = {} THEN c
                     ELSE [c EXCEPT !.ssthresh = IF Cardinality(resent) = 1 /\ c.cwnd >= 2
                                                 THEN c.cwnd \div 2 ELSE 1,
                                    !.cwnd = 1]
           kept == [i \in DOMAIN q |->
                      IF i \in resent THEN [q[i] EXCEPT !.attempts = @ + 1] ELSE q[i]]
           p == IF dead THEN <<>> ELSE kept
           z == shrunk.zlb /\ ~ zlb
           d == [shrunk EXCEPT !.queue = p, !.zlb = z]
           out == {Packet(c, q[i].id, q[i].ns) : i \in resent}
                    \cup IF zlb THEN {Packet(c, NoBody, c.ns)} ELSE {}
<1>1. Tick(c, expired, zlbDue) = [c |-> d, out |-> out, dead |-> dead]
  BY Zenon DEF Tick
<1>2. /\ q \in Seq(Message) /\ c.cwnd \in 1..PeerWindow /\ c.zlb \in BOOLEAN
      /\ c.ns \in SeqNo /\ c.nr \in SeqNo
  BY DEF Channel
<1>3. /\ DOMAIN q = 1..Len(q) /\ InFlight(q) \subseteq DOMAIN q
      /\ \A i \in DOMAIN q : q[i] \in Message /\ q[i].attempts + 1 \in Int
  <2>1. DOMAIN q = 1..Len(q) /\ InFlight(q) \subseteq DOMAIN q
    BY <1>2, LenProperties DEF InFlight
  <2>2. \A i \in DOMAIN q : q[i] \in Message /\ q[i].attempts \in Nat
    BY <1>2, <2>1, QueuedMessage
  <2> QED
    BY <2>1, <2>2
<1>4. resent \in SUBSET InFlight(q)
  OBVIOUS
<1>5. out \subseteq PacketType
  <2>1. \A i \in resent : Packet(c, q[i].id, q[i].ns) \in PacketType
    BY <1>2, <1>3, <1>4 DEF Packet, PacketType, Message
  <2>2. Packet(c, NoBody, c.ns) \in PacketType
    BY <1>2 DEF Packet, PacketType
  <2> QED
    BY <2>1, <2>2, Zenon
<1>6. Windowed(p) /\ Timed(p)
  <2>1. CASE dead
    <3>1. SentUpTo(<<>>, 0) /\ <<>> \in Seq(Message) /\ 0 \in 0..PeerWindow
      BY EmptySeq, PeerWindowAssumption DEF SentUpTo
    <3> QED
      BY <2>1, <3>1 DEF Windowed, Timed
  <2>2. CASE ~ dead
    <3>1. \A i \in resent : q[i].attempts + 1 <= MaxRetries
      BY <1>3, <1>4, <2>2, MaxRetriesAssumption
    <3>2. Windowed(kept) /\ Timed(kept)
      BY <1>4, <3>1, TickQueue, Zenon
    <3> QED
      BY <2>2, <3>2, Zenon
  <2> QED
    BY <2>1, <2>2
<1>7. shrunk \in Channel
  <2>1. CASE resent = {}
    BY <2>1
  <2>2. CASE resent # {}
    <3> DEFINE s == IF Cardinality(resent) = 1 /\ c.cwnd >= 2 THEN c.cwnd \div 2 ELSE 1
    <3>1. s \in 1..PeerWindow /\ 1 \in 1..PeerWindow
      BY <1>2, PeerWindowAssumption
    <3> HIDE DEF s
    <3>2. [c EXCEPT !.ssthresh = s, !.cwnd = 1] \in Channel
      BY <3>1 DEF Channel
    <3> QED
      BY <2>2, <3>2 DEF s
  <2> QED
    BY <2>1, <2>2
<1>8. z \in BOOLEAN /\ p \in Seq(Message) /\ dead \in BOOLEAN
  BY <1>6, <1>7 DEF Windowed, Channel
<1> HIDE DEF shrunk, z, p, dead, out
<1>9. d \in Channel /\ d.queue = p
  BY <1>7, <1>8 DEF Channel
<1> HIDE DEF d
<1> QED
  BY <1>1, <1>5, <1>6, <1>8, <1>9
-----------------------------------------------------------------------------
(* The steps. *)

\* The path only ever holds packets a peer sent.
LEMMA TransmitKeeps ==
  ASSUME TypeOK, NEW e \in Peer, NEW out \in SUBSET PacketType,
         NEW kept \in SUBSET net[e], Transmit(e, out, kept)
  PROVE  net' \in [Peer -> SUBSET PacketType]
<1>1. net \in [Peer -> SUBSET PacketType] /\ other(e) \in Peer
  BY DEF TypeOK, PacketType, Peer, other
<1>2. PICK got \in SUBSET out :
        net' = [net EXCEPT ![e] = kept, ![other(e)] = @ \cup got]
  BY DEF Transmit
<1> QED
  BY <1>1, <1>2

\* A body is only named while the bound allows one more.
LEMMA MaySendId ==
  ASSUME TypeOK, MaySend, NEW e \in Peer
  PROVE  nextId[e] \in Id /\ nextId[e] + 1 \in 1..(MaxSend + 1)
<1>1. nextId["lac"] \in 1..(MaxSend + 1) /\ nextId["lns"] \in 1..(MaxSend + 1)
  BY DEF TypeOK, Peer
<1>2. e = "lac" \/ e = "lns"
  BY DEF Peer
<1> QED
  BY <1>1, <1>2, BoundAssumption DEF MaySend, Id

\* The three parts of the invariant that are about queues, for a step that
\* changes one peer's channel and maybe its hello goroutine.
LEMMA QueuesKept ==
  ASSUME IInv, NEW e \in Peer, NEW c \in Channel, Windowed(c.queue), Timed(c.queue),
         ch' = [ch EXCEPT ![e] = c],
         hello' = hello \/ hello' = [hello EXCEPT ![e] = Idle]
  PROVE  /\ ch' \in [Peer -> Channel]
         /\ hello' \in [Peer -> [id : Id \cup {NoBody}, ns : SeqNo, queue : Seq(Message)]]
         /\ \A f \in Peer : /\ Windowed(ch'[f].queue) /\ Timed(ch'[f].queue)
                            /\ Windowed(hello'[f].queue)
<1> DEFINE H == [id : Id \cup {NoBody}, ns : SeqNo, queue : Seq(Message)]
<1>1. /\ ch \in [Peer -> Channel] /\ hello \in [Peer -> H]
      /\ \A f \in Peer : /\ Windowed(ch[f].queue) /\ Timed(ch[f].queue)
                         /\ Windowed(hello[f].queue)
  BY DEF IInv, TypeOK
<1>2. Idle \in H /\ Idle.queue = <<>>
  BY SeqModAssumption, EmptySeq DEF Idle, SeqNo
<1>3. Windowed(<<>>)
  <2>1. SentUpTo(<<>>, 0) /\ <<>> \in Seq(Message) /\ 0 \in 0..PeerWindow
    BY EmptySeq, PeerWindowAssumption DEF SentUpTo
  <2> QED
    BY <2>1 DEF Windowed
<1> HIDE DEF H
<1>4. ch' \in [Peer -> Channel] /\ \A f \in Peer : ch'[f] = IF f = e THEN c ELSE ch[f]
  BY <1>1
<1>5. /\ hello' \in [Peer -> H]
      /\ \A f \in Peer : hello'[f] = hello[f] \/ hello'[f] = Idle
  BY <1>1, <1>2
<1> QED
  BY <1>1, <1>2, <1>3, <1>4, <1>5 DEF H

\* Dispatch: Recv and the handler's reply, both within the window.
LEMMA DispatchStep ==
  ASSUME IInv, NEW e \in Peer, NEW p \in net[e], NEW reply \in BOOLEAN,
         NEW dup \in BOOLEAN, NEW ok \in Nat, Dispatch(e, p, reply, dup, ok)
  PROVE  IInv'
<1> DEFINE r == Recv(ch[e], p, ok)
           handled == Accepts(ch[e], p) /\ p.id # NoBody
           s == IF reply THEN SendSession(r.c, nextId[e], ok) ELSE [c |-> r.c, out |-> {}]
<1>1. /\ reply => handled /\ MaySend
      /\ ch' = [ch EXCEPT ![e] = s.c]
      /\ Transmit(e, r.out \cup s.out, IF dup THEN net[e] ELSE net[e] \ {p})
      /\ delivered' = [delivered EXCEPT ![e] = IF handled THEN Append(@, p.id) ELSE @]
      /\ acked' = [acked EXCEPT ![e] = @ \cup Popped(ch[e], r.c)]
      /\ nextId' = [nextId EXCEPT ![e] = IF reply THEN @ + 1 ELSE @]
      /\ UNCHANGED <<registered, hello, hellos>>
  BY Zenon DEF Dispatch
<1>2. /\ TypeOK /\ ch[e] \in Channel /\ Windowed(ch[e].queue) /\ Timed(ch[e].queue)
      /\ p.id \in Id \cup {NoBody}
  BY DEF IInv, TypeOK
<1>3. Good(r)
  BY <1>2, RecvKeeps
<1> HIDE DEF r
<1>4. r.c \in Channel /\ r.out \in SUBSET PacketType
  BY <1>3 DEF Good
<1>5. Good(s)
  <2>1. CASE reply
    <3>1. nextId[e] \in Id /\ r.c.ns \in SeqNo /\ (r.c.ns + 1) % SeqMod \in SeqNo
      BY <1>1, <1>2, <1>4, <2>1, MaySendId, NextSeqNo DEF Channel
    <3>2. Windowed(r.c.queue)
      BY <1>3 DEF Good
    <3>3. Good(Enqueue(r.c, nextId[e], r.c.ns, (r.c.ns + 1) % SeqMod, r.c.queue, ok))
      BY <1>4, <3>1, <3>2, EnqueueKeeps
    <3> QED
      BY <2>1, <3>3 DEF SendSession
  <2>2. CASE ~ reply
    BY <1>3, <1>4, <2>2 DEF Good
  <2> QED
    BY <2>1, <2>2
<1>6. nextId' \in [Peer -> 1..(MaxSend + 1)]
  BY <1>1, <1>2, MaySendId DEF TypeOK
<1> HIDE DEF s, handled
<1>7. /\ s.c \in Channel /\ s.out \in SUBSET PacketType
      /\ Windowed(s.c.queue) /\ Timed(s.c.queue)
  BY <1>5 DEF Good
<1>8. /\ ch' \in [Peer -> Channel]
      /\ hello' \in [Peer -> [id : Id \cup {NoBody}, ns : SeqNo, queue : Seq(Message)]]
      /\ \A f \in Peer : /\ Windowed(ch'[f].queue) /\ Timed(ch'[f].queue)
                         /\ Windowed(hello'[f].queue)
  BY <1>1, <1>7, QueuesKept
<1>9. net' \in [Peer -> SUBSET PacketType]
  <2>1. (IF dup THEN net[e] ELSE net[e] \ {p}) \in SUBSET net[e]
    OBVIOUS
  <2>2. r.out \cup s.out \in SUBSET PacketType
    BY <1>4, <1>7
  <2> QED
    BY <1>1, <1>2, <2>1, <2>2, TransmitKeeps
<1>10. delivered' \in [Peer -> Seq(Id)]
  <2>1. handled => p.id \in Id
    BY <1>2 DEF handled
  <2>2. delivered \in [Peer -> Seq(Id)]
    BY <1>2 DEF TypeOK
  <2>3. (IF handled THEN Append(delivered[e], p.id) ELSE delivered[e]) \in Seq(Id)
    BY <2>1, <2>2, AppendProperties
  <2> QED
    BY <1>1, <2>2, <2>3
<1>11. acked' \in [Peer -> SUBSET Id]
  <2>1. Popped(ch[e], r.c) \subseteq Id
    BY <1>2, MessageIds DEF Popped
  <2> QED
    BY <1>1, <1>2, <2>1 DEF TypeOK
<1>12. registered' \in [Peer -> BOOLEAN] /\ hellos' \in [Peer -> Nat]
  BY <1>1, <1>2 DEF TypeOK
<1> QED
  BY <1>6, <1>8, <1>9, <1>10, <1>11, <1>12 DEF IInv, TypeOK, PacketType

\* Nothing is left of a packet for a tunnel that is gone.
LEMMA DispatchUnknownStep ==
  ASSUME IInv, NEW e \in Peer, NEW p \in net[e], DispatchUnknown(e, p)
  PROVE  IInv'
<1>1. net' \in [Peer -> SUBSET PacketType]
  BY DEF IInv, TypeOK, PacketType, DispatchUnknown
<1> QED
  BY <1>1, Zenon DEF IInv, TypeOK, PacketType, DispatchUnknown

\* A turn of the runner's loop, with the dead callback.
LEMMA RunnerTickStep ==
  ASSUME IInv, NEW e \in Peer, NEW expired \in SUBSET InFlight(ch[e].queue),
         NEW zlbDue \in BOOLEAN, RunnerTick(e, expired, zlbDue)
  PROVE  IInv'
<1> DEFINE r == Tick(ch[e], expired, zlbDue)
<1>1. /\ ch' = [ch EXCEPT ![e] = r.c]
      /\ registered' = [registered EXCEPT ![e] = @ /\ ~ r.dead]
      /\ Transmit(e, r.out, net[e])
      /\ UNCHANGED <<hello, nextId, hellos, delivered, acked>>
  BY Zenon DEF RunnerTick
<1>2. TypeOK /\ ch[e] \in Channel /\ Windowed(ch[e].queue) /\ Timed(ch[e].queue)
  BY DEF IInv, TypeOK
<1>3. /\ r.c \in Channel /\ r.out \in SUBSET PacketType
      /\ Windowed(r.c.queue) /\ Timed(r.c.queue)
  BY <1>2, TickKeeps
<1> HIDE DEF r
<1>4. /\ ch' \in [Peer -> Channel]
      /\ hello' \in [Peer -> [id : Id \cup {NoBody}, ns : SeqNo, queue : Seq(Message)]]
      /\ \A f \in Peer : /\ Windowed(ch'[f].queue) /\ Timed(ch'[f].queue)
                         /\ Windowed(hello'[f].queue)
  BY <1>1, <1>3, QueuesKept
<1>5. net' \in [Peer -> SUBSET PacketType]
  BY <1>1, <1>2, <1>3, TransmitKeeps
<1>6. registered' \in [Peer -> BOOLEAN]
  BY <1>1, <1>2 DEF TypeOK
<1>7. /\ nextId' \in [Peer -> 1..(MaxSend + 1)] /\ hellos' \in [Peer -> Nat]
      /\ delivered' \in [Peer -> Seq(Id)] /\ acked' \in [Peer -> SUBSET Id]
  BY <1>1, <1>2 DEF TypeOK
<1> QED
  BY <1>4, <1>5, <1>6, <1>7 DEF IInv, TypeOK, PacketType

\* The hello goroutine's copy is the queue of this moment.
LEMMA HelloReadStep ==
  ASSUME IInv, NEW e \in Peer, HelloRead(e)
  PROVE  IInv'
<1> DEFINE H == [id : Id \cup {NoBody}, ns : SeqNo, queue : Seq(Message)]
           h == [id |-> nextId[e], ns |-> ch[e].ns, queue |-> ch[e].queue]
<1>1. /\ TypeOK /\ MaySend /\ hello' = [hello EXCEPT ![e] = h]
      /\ nextId' = [nextId EXCEPT ![e] = @ + 1] /\ hellos' = [hellos EXCEPT ![e] = @ + 1]
      /\ UNCHANGED <<ch, registered, net, delivered, acked>>
  BY Zenon DEF HelloRead, IInv
<1>2. nextId[e] \in Id /\ nextId[e] + 1 \in 1..(MaxSend + 1)
  BY <1>1, MaySendId
<1>3. h \in H /\ Windowed(h.queue)
  BY <1>2 DEF IInv, TypeOK, Channel
<1>4. hello \in [Peer -> H]
  BY <1>1 DEF TypeOK
<1> HIDE DEF h, H
<1>5. hello' \in [Peer -> H] /\ \A f \in Peer : Windowed(hello'[f].queue)
  <2>1. \A f \in Peer : Windowed(hello[f].queue)
    BY DEF IInv
  <2> QED
    BY <1>1, <1>3, <1>4, <2>1
<1>6. nextId' \in [Peer -> 1..(MaxSend + 1)] /\ hellos' \in [Peer -> Nat]
  BY <1>1, <1>2 DEF TypeOK
<1>7. /\ ch' \in [Peer -> Channel] /\ registered' \in [Peer -> BOOLEAN]
      /\ net' \in [Peer -> SUBSET PacketType]
      /\ delivered' \in [Peer -> Seq(Id)] /\ acked' \in [Peer -> SUBSET Id]
      /\ \A f \in Peer : Windowed(ch'[f].queue) /\ Timed(ch'[f].queue)
  BY <1>1 DEF IInv, TypeOK, PacketType
<1> QED
  BY <1>5, <1>6, <1>7 DEF IInv, TypeOK, PacketType, H

\* Whatever it read, what it writes back is sent up to some message.
LEMMA HelloWriteStep ==
  ASSUME IInv, NEW e \in Peer, NEW staleNs \in BOOLEAN, NEW staleQueue \in BOOLEAN,
         NEW ok \in Nat, HelloWrite(e, staleNs, staleQueue, ok)
  PROVE  IInv'
<1> DEFINE h == hello[e]
           ns == IF staleNs THEN h.ns ELSE ch[e].ns
           q == IF staleQueue THEN h.queue ELSE ch[e].queue
           r == Enqueue(ch[e], h.id, h.ns, (ns + 1) % SeqMod, q, ok)
<1>1. /\ h.id # NoBody /\ ch' = [ch EXCEPT ![e] = r.c]
      /\ hello' = [hello EXCEPT ![e] = Idle] /\ Transmit(e, r.out, net[e])
      /\ UNCHANGED <<registered, nextId, hellos, delivered, acked>>
  BY Zenon DEF HelloWrite
<1>2. /\ TypeOK /\ ch[e] \in Channel /\ ch[e].ns \in SeqNo
      /\ h.id \in Id \cup {NoBody} /\ h.ns \in SeqNo
      /\ Windowed(ch[e].queue) /\ Windowed(h.queue)
  BY DEF IInv, TypeOK, Channel
<1>3. Good(r)
  <2>1. h.id \in Id /\ Windowed(q) /\ (ns + 1) % SeqMod \in SeqNo
    BY <1>1, <1>2, NextSeqNo
  <2> QED
    BY <1>2, <2>1, EnqueueKeeps
<1> HIDE DEF r
<1>4. /\ r.c \in Channel /\ r.out \in SUBSET PacketType
      /\ Windowed(r.c.queue) /\ Timed(r.c.queue)
  BY <1>3 DEF Good
<1>5. /\ ch' \in [Peer -> Channel]
      /\ hello' \in [Peer -> [id : Id \cup {NoBody}, ns : SeqNo, queue : Seq(Message)]]
      /\ \A f \in Peer : /\ Windowed(ch'[f].queue) /\ Timed(ch'[f].queue)
                         /\ Windowed(hello'[f].queue)
  BY <1>1, <1>4, QueuesKept
<1>6. net' \in [Peer -> SUBSET PacketType]
  BY <1>1, <1>2, <1>4, TransmitKeeps
<1>7. /\ registered' \in [Peer -> BOOLEAN] /\ nextId' \in [Peer -> 1..(MaxSend + 1)]
      /\ hellos' \in [Peer -> Nat]
      /\ delivered' \in [Peer -> Seq(Id)] /\ acked' \in [Peer -> SUBSET Id]
  BY <1>1, <1>2 DEF TypeOK
<1> QED
  BY <1>5, <1>6, <1>7 DEF IInv, TypeOK, PacketType

-----------------------------------------------------------------------------
(* The theorems. *)

\* An established tunnel starts with nothing queued.
LEMMA InitIInv == Init => IInv
<1> SUFFICES ASSUME Init PROVE IInv
  OBVIOUS
<1> DEFINE w == growCwndOnAck(NewControlChannel, Start)
           c == [NewControlChannel EXCEPT !.ns = Start, !.nr = Start, !.cwnd = w]
<1>1. w \in 1..PeerWindow /\ Start \in SeqNo
  BY StartAssumption, SeqModAssumption, PeerWindowAssumption
  DEF growCwndOnAck, NewControlChannel, SeqNo
<1> HIDE DEF w
<1>2. c \in Channel /\ c.queue = <<>>
  <2>1. NewControlChannel \in Channel /\ NewControlChannel.queue = <<>>
    <3>1. 0 \in SeqNo /\ 1 \in 1..PeerWindow /\ PeerWindow \in 1..PeerWindow
      BY SeqModAssumption, PeerWindowAssumption DEF SeqNo
    <3>2. <<>> \in Seq(Message)
      BY EmptySeq
    <3> QED
      BY <3>1, <3>2 DEF NewControlChannel, Channel
  <2>2. /\ [NewControlChannel EXCEPT !.ns = Start, !.nr = Start, !.cwnd = w] \in Channel
        /\ [NewControlChannel EXCEPT !.ns = Start, !.nr = Start, !.cwnd = w].queue = <<>>
    BY <1>1, <2>1 DEF Channel
  <2> QED
    BY <2>2
<1>3. Windowed(<<>>) /\ Timed(<<>>)
  <2>1. SentUpTo(<<>>, 0) /\ <<>> \in Seq(Message) /\ 0 \in 0..PeerWindow
    BY EmptySeq, PeerWindowAssumption DEF SentUpTo
  <2> QED
    BY <2>1 DEF Windowed, Timed
<1>4. /\ Idle \in [id : Id \cup {NoBody}, ns : SeqNo, queue : Seq(Message)]
      /\ Idle.queue = <<>>
  BY SeqModAssumption, EmptySeq DEF Idle, SeqNo
<1>5. ch = [e \in Peer |-> c] /\ hello = [e \in Peer |-> Idle]
  BY Zenon DEF Init, w
<1> HIDE DEF c
<1>6. \A e \in Peer : /\ Windowed(ch[e].queue) /\ Timed(ch[e].queue)
                      /\ Windowed(hello[e].queue)
  BY <1>2, <1>3, <1>4, <1>5
<1>7. /\ registered \in [Peer -> BOOLEAN] /\ net \in [Peer -> SUBSET PacketType]
      /\ nextId \in [Peer -> 1..(MaxSend + 1)] /\ hellos \in [Peer -> Nat]
      /\ delivered \in [Peer -> Seq(Id)] /\ acked \in [Peer -> SUBSET Id]
  BY BoundAssumption, EmptySeq DEF Init
<1>8. TypeOK
  BY <1>2, <1>4, <1>5, <1>7 DEF TypeOK, PacketType
<1> QED
  BY <1>6, <1>8 DEF IInv

\* Every step keeps the invariant, one lemma per action.
LEMMA NextIInv == IInv /\ [Next]_vars => IInv'
<1> SUFFICES ASSUME IInv, [Next]_vars PROVE IInv'
  OBVIOUS
<1>1. Sends \subseteq Nat
  BY PeerWindowAssumption DEF Sends
<1>2. CASE Next
  <2>1. PICK e \in Peer :
          \/ \E p \in net[e], reply, dup \in BOOLEAN, ok \in Sends :
               Dispatch(e, p, reply, dup, ok)
          \/ \E p \in net[e] : DispatchUnknown(e, p)
          \/ Retransmit(e)
          \/ HelloRead(e)
          \/ \E staleNs, staleQueue \in BOOLEAN, ok \in Sends :
               HelloWrite(e, staleNs, staleQueue, ok)
    BY <1>2, Zenon DEF Next
  <2> QED
    BY <1>1, <2>1, DispatchStep, DispatchUnknownStep, RunnerTickStep, HelloReadStep,
       HelloWriteStep, Zenon DEF Retransmit
<1>3. CASE UNCHANGED vars
  BY <1>3, Zenon DEF IInv, TypeOK, vars
<1> QED
  BY <1>2, <1>3

\* Every reachable state satisfies the inductive invariant.
LEMMA Invariant == Spec => []IInv
BY InitIInv, NextIInv, PTL DEF Spec

\* The sequence numbers stay in their space, the windows within the peer's,
\* and no message is tried more than MaxRetries times, whatever the path
\* and the hello goroutine's race do.
THEOREM TypeCorrect == Spec => []TypeOK
<1>1. IInv => TypeOK
  BY DEF IInv
<1> QED
  BY <1>1, Invariant, PTL

\* driveSend, ackThrough, Tick and a Send that lost its race keep the send
\* window and leave a timer running for whatever is queued.
THEOREM WindowCorrect == Spec => []WindowHeld
<1>1. IInv => WindowHeld
  BY WindowedMeaning, Zenon DEF IInv, WindowHeld
<1> QED
  BY <1>1, Invariant, PTL
=============================================================================
