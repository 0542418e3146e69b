---------------------------- MODULE HASyncProofs ----------------------------
(***************************************************************************)
(* What replication keeps, for all ranges, sessions, capacities and        *)
(* bounds.  It never damages an address pool: whatever order allocations,  *)
(* releases and replicated requests come in, and whatever is lost, both    *)
(* pools stay conserved.  Conserved is inductive once every address in     *)
(* flight is known to be an address of the range, which is what the type   *)
(* invariant adds.  And with IPoE sessions the standby is a copy of the    *)
(* active node whenever nothing is in flight, lost or overtaken: MirrorInv *)
(* says what the announcements under way still owe to the copy.            *)
(***************************************************************************)
EXTENDS HASync, AddressPoolProofs

PoolsOK == pool \in [Node -> Pool] /\ PoolsConserved
SessionsOK ==
  /\ ip \in [Session -> Address] /\ dying \in [Session -> Address]
  /\ stored \in [Session -> Address]
EventsOK ==
  bus \subseteq Event /\ numbered \subseteq Request /\ published \in 0..MaxPublished
QueueOK == sendCh \in Seq(Request) /\ Len(sendCh) <= ChanCap
NumbersOK == seq \in Nat /\ call \in Nat /\ lastSeq \in Nat
Serving == [r : Request, pc : {"number", "store", "address"}]
ServingOK == serving \subseteq Serving
FlagsOK == sending \in BOOLEAN /\ reordered \in BOOLEAN
LossesOK == lost \in 0..MaxLost

\* The inductive invariant: the types, and both pools conserved.
IInv ==
  /\ PoolsOK /\ SessionsOK /\ EventsOK /\ QueueOK /\ NumbersOK /\ ServingOK
  /\ FlagsOK /\ LossesOK

USE DEF NoAddr, NoCall

\* IInv is the type invariant together with PoolsConserved.
LEMMA IInvMeaning == IInv <=> TypeOK /\ PoolsConserved
BY Zenon
   DEF IInv, TypeOK, PoolsOK, SessionsOK, EventsOK, QueueOK, NumbersOK, ServingOK,
       Serving, FlagsOK, LossesOK

\* Replacing one node's pool by a conserved one keeps both conserved.
LEMMA OnePool ==
  ASSUME PoolsOK, NEW x \in Node, NEW q \in Pool, Conserved(q),
         pool' = [pool EXCEPT ![x] = q]
  PROVE  PoolsOK'
BY Zenon DEF PoolsOK, PoolsConserved

\* Pools that do not change stay conserved.
LEMMA SamePools ==
  ASSUME PoolsOK, pool' = pool
  PROVE  PoolsOK'
BY Zenon DEF PoolsOK, PoolsConserved

\* An address that is not NoAddr is one of the range.
LEMMA RealAddress ==
  ASSUME NEW a \in Address, a # NoAddr
  PROVE  a \in Addr
BY Zenon DEF Address

\* The parts of a request that is being served.
LEMMA ServingParts ==
  ASSUME ServingOK, NEW h \in serving
  PROVE  /\ h.r \in Request /\ h.r.s \in Session /\ h.r.ip \in Address /\ h.r.seq \in Nat
         /\ [h EXCEPT !.pc = "store"] \in Serving
         /\ [h EXCEPT !.pc = "address"] \in Serving
<1>1. h \in Serving
  BY Zenon DEF ServingOK
<1>2. h.r \in Request
  BY <1>1, Zenon DEF Serving
<1>3. h.r.s \in Session /\ h.r.ip \in Address /\ h.r.seq \in Nat
  BY <1>2, Zenon DEF Request
<1>4. [h EXCEPT !.pc = "store"] \in Serving /\ [h EXCEPT !.pc = "address"] \in Serving
  BY <1>1, Zenon DEF Serving
<1> QED
  BY <1>2, <1>3, <1>4, Zenon

\* A published event is well typed and the counters stay in range.
LEMMA PublishKeeps ==
  ASSUME EventsOK, LossesOK, NEW s \in Session, NEW a \in Address, NEW del \in BOOLEAN,
         Publish(s, a, del), numbered' = numbered
  PROVE  EventsOK' /\ LossesOK'
<1> DEFINE e == [n |-> published + 1, s |-> s, ip |-> a, del |-> del]
<1>1. published \in Nat /\ published' \in 0..MaxPublished
  BY SyncAssumption DEF EventsOK, Publish
<1>2. e \in Event
  BY <1>1 DEF Event
<1>3. lost' \in 0..MaxLost
  BY SyncAssumption DEF LossesOK, Publish, Lose
<1>4. bus' = bus \cup {e} \/ bus' = bus
  BY Zenon DEF Publish
<1> HIDE DEF e
<1> QED
  BY <1>1, <1>2, <1>3, <1>4, Zenon DEF EventsOK, LossesOK

\* SessionUp keeps the types and both pools conserved.
LEMMA SessionUpKeeps ==
  ASSUME IInv, NEW s \in Session, NEW a \in Static \cup {NoAddr}, SessionUp(s, a)
  PROVE  IInv'
<1> DEFINE p == pool["active"]
           got == IF a = NoAddr THEN NextAddr(p) ELSE a
<1>1. p \in Pool /\ Conserved(p)
  BY Zenon DEF IInv, PoolsOK, PoolsConserved, Node
<1>2. PoolsOK' /\ got \in Address
  <2>1. CASE a = NoAddr
    <3>1. CanAllocate(p) /\ pool' = [pool EXCEPT !["active"] = Allocate(p, s)]
      BY <2>1, Zenon DEF SessionUp
    <3>2. NextAddr(p) \in Addr /\ Allocate(p, s) \in Pool /\ Conserved(Allocate(p, s))
      BY <1>1, <3>1, AllocateConserved, Zenon
    <3> QED
      BY <2>1, <3>1, <3>2, OnePool, Zenon DEF IInv, Node, Address
  <2>2. CASE a # NoAddr
    <3>1. pool' = [pool EXCEPT !["active"] = Reserve(p, a, s)]
      BY <2>2, Zenon DEF SessionUp
    <3>2. a \in Addr /\ Reserve(p, a, s) \in Pool /\ Conserved(Reserve(p, a, s))
      BY <1>1, <2>2, ReserveConserved, SyncAssumption, Zenon
    <3> QED
      BY <2>2, <3>1, <3>2, OnePool, Zenon DEF IInv, Node, Address
  <2> QED
    BY <2>1, <2>2, Zenon
<1>3. /\ ip' = [ip EXCEPT ![s] = got] /\ dying' = dying /\ stored' = stored
      /\ Publish(s, got, FALSE) /\ numbered' = numbered
  BY Zenon DEF SessionUp, receiver
<1> HIDE DEF got
<1>4. SessionsOK' /\ EventsOK' /\ LossesOK'
  BY <1>2, <1>3, PublishKeeps, Zenon DEF IInv, SessionsOK
<1>5. QueueOK' /\ NumbersOK' /\ ServingOK' /\ FlagsOK'
  BY Zenon DEF IInv, QueueOK, NumbersOK, ServingOK, FlagsOK, SessionUp, sender, receiver
<1> QED
  BY <1>2, <1>4, <1>5, Zenon DEF IInv

\* SessionMutated keeps the types and both pools conserved.
LEMMA SessionMutatedKeeps ==
  ASSUME IInv, NEW s \in Session, SessionMutated(s)
  PROVE  IInv'
<1>1. PoolsOK'
  BY SamePools, Zenon DEF IInv, SessionMutated, active
<1>2. EventsOK' /\ LossesOK'
  <2>1. Publish(s, ip[s], FALSE) /\ numbered' = numbered
    BY Zenon DEF SessionMutated
  <2>2. ip[s] \in Address
    BY Zenon DEF IInv, SessionsOK
  <2> QED
    BY <2>1, <2>2, PublishKeeps, Zenon DEF IInv
<1>3. SessionsOK' /\ QueueOK' /\ NumbersOK' /\ ServingOK' /\ FlagsOK'
  BY Zenon
     DEF IInv, SessionsOK, QueueOK, NumbersOK, ServingOK, FlagsOK, SessionMutated,
         active, sender, receiver
<1> QED
  BY <1>1, <1>2, <1>3, Zenon DEF IInv

\* SessionDown keeps the types and both pools conserved.
LEMMA SessionDownKeeps ==
  ASSUME IInv, NEW s \in Session, SessionDown(s)
  PROVE  IInv'
<1>1. PoolsOK'
  <2> DEFINE q == Release(pool["active"], ip[s])
  <2>1. pool' = [pool EXCEPT !["active"] = q]
    BY Zenon DEF SessionDown
  <2>2. pool["active"] \in Pool /\ Conserved(pool["active"])
    BY Zenon DEF IInv, PoolsOK, PoolsConserved, Node
  <2>3. ip[s] \in Addr
    BY RealAddress, Zenon DEF IInv, SessionsOK, SessionDown
  <2>4. q \in Pool /\ Conserved(q)
    BY <2>2, <2>3, ReleaseConserved, Zenon
  <2> HIDE DEF q
  <2> QED
    BY <2>1, <2>4, OnePool, Zenon DEF IInv, Node
<1>2. SessionsOK'
  <2>1. /\ ip' = [ip EXCEPT ![s] = NoAddr] /\ dying' = [dying EXCEPT ![s] = ip[s]]
        /\ stored' = stored
    BY Zenon DEF SessionDown, receiver
  <2>2. ip[s] \in Address /\ NoAddr \in Address
    BY Zenon DEF IInv, SessionsOK, Address
  <2> QED
    BY <2>1, <2>2, Zenon DEF IInv, SessionsOK
<1>3. EventsOK' /\ QueueOK' /\ NumbersOK' /\ ServingOK' /\ FlagsOK' /\ LossesOK'
  BY Zenon
     DEF IInv, EventsOK, QueueOK, NumbersOK, ServingOK, FlagsOK, LossesOK, SessionDown,
         active, sender, receiver
<1> QED
  BY <1>1, <1>2, <1>3, Zenon DEF IInv

\* SessionReleased keeps the types and both pools conserved.
LEMMA SessionReleasedKeeps ==
  ASSUME IInv, NEW s \in Session, SessionReleased(s)
  PROVE  IInv'
<1> DEFINE a == IF s \in PPPoE THEN NoAddr ELSE dying[s]
<1>1. PoolsOK'
  BY SamePools, Zenon DEF IInv, SessionReleased, active
<1>2. SessionsOK'
  <2>1. dying' = [dying EXCEPT ![s] = NoAddr] /\ ip' = ip /\ stored' = stored
    BY Zenon DEF SessionReleased, receiver
  <2> QED
    BY <2>1, Zenon DEF IInv, SessionsOK, Address
<1>3. EventsOK' /\ LossesOK'
  <2>1. Publish(s, a, TRUE) /\ numbered' = numbered
    BY Zenon DEF SessionReleased
  <2>2. a \in Address
    BY Zenon DEF IInv, SessionsOK, Address
  <2> HIDE DEF a
  <2> QED
    BY <2>1, <2>2, PublishKeeps, Zenon DEF IInv
<1>4. QueueOK' /\ NumbersOK' /\ ServingOK' /\ FlagsOK'
  BY Zenon
     DEF IInv, QueueOK, NumbersOK, ServingOK, FlagsOK, SessionReleased, active, sender,
         receiver
<1> QED
  BY <1>1, <1>2, <1>3, <1>4, Zenon DEF IInv

\* SetActive keeps the types and both pools conserved.
LEMMA SetActiveKeeps ==
  ASSUME IInv, NEW v \in BOOLEAN, SetActive(v)
  PROVE  IInv'
<1>1. PoolsOK'
  BY SamePools, Zenon DEF IInv, SetActive, active
<1>2. /\ SessionsOK' /\ EventsOK' /\ QueueOK' /\ NumbersOK'
      /\ ServingOK' /\ FlagsOK' /\ LossesOK'
  BY Zenon
     DEF IInv, SessionsOK, EventsOK, QueueOK, NumbersOK, ServingOK, FlagsOK, LossesOK,
         SetActive, active, sender, receiver
<1> QED
  BY <1>1, <1>2, Zenon DEF IInv

\* HandleEvent keeps the types and both pools conserved.
LEMMA HandleEventKeeps ==
  ASSUME IInv, NEW e \in bus, HandleEvent(e)
  PROVE  IInv'
<1>1. PoolsOK'
  BY SamePools, Zenon DEF IInv, HandleEvent, active
<1>2. EventsOK'
  <2> DEFINE r == [n |-> e.n, s |-> e.s, ip |-> e.ip, del |-> e.del, seq |-> seq + 1]
  <2>1. bus' = bus \ {e} /\ numbered' = numbered \cup {r} /\ published' = published
    BY Zenon DEF HandleEvent
  <2>2. e \in Event /\ seq + 1 \in Nat
    BY DEF IInv, EventsOK, NumbersOK
  <2>3. r \in Request
    BY <2>2, Zenon DEF Event, Request
  <2> HIDE DEF r
  <2> QED
    BY <2>1, <2>3, Zenon DEF IInv, EventsOK
<1>3. NumbersOK'
  BY DEF IInv, NumbersOK, HandleEvent, receiver
<1>4. SessionsOK' /\ QueueOK' /\ ServingOK' /\ FlagsOK' /\ LossesOK'
  BY Zenon
     DEF IInv, SessionsOK, QueueOK, ServingOK, FlagsOK, LossesOK, HandleEvent, active,
         receiver
<1> QED
  BY <1>1, <1>2, <1>3, <1>4, Zenon DEF IInv

\* IgnoreEvent keeps the types and both pools conserved.
LEMMA IgnoreEventKeeps ==
  ASSUME IInv, NEW e \in bus, IgnoreEvent(e)
  PROVE  IInv'
<1>1. PoolsOK'
  BY SamePools, Zenon DEF IInv, IgnoreEvent, active
<1>2. LossesOK'
  BY SyncAssumption DEF IInv, LossesOK, IgnoreEvent, Lose
<1>3. SessionsOK' /\ EventsOK' /\ QueueOK' /\ NumbersOK' /\ ServingOK' /\ FlagsOK'
  BY Zenon
     DEF IInv, SessionsOK, EventsOK, QueueOK, NumbersOK, ServingOK, FlagsOK,
         IgnoreEvent, active, sender, receiver
<1> QED
  BY <1>1, <1>2, <1>3, Zenon DEF IInv

\* Enqueue keeps the types and both pools conserved.
LEMMA EnqueueKeeps ==
  ASSUME IInv, NEW r \in numbered, Enqueue(r)
  PROVE  IInv'
<1>1. PoolsOK'
  BY SamePools, Zenon DEF IInv, Enqueue, active
<1>2. QueueOK'
  <2>1. sendCh \in Seq(Request) /\ Len(sendCh) <= ChanCap /\ r \in Request
    BY Zenon DEF IInv, QueueOK, EventsOK
  <2>2. CASE Len(sendCh) < ChanCap
    <3>1. sendCh' = Append(sendCh, r)
      BY <2>2, Zenon DEF Enqueue
    <3>2. sendCh' \in Seq(Request) /\ Len(sendCh') = Len(sendCh) + 1
      BY <2>1, <3>1
    <3>3. Len(sendCh') <= ChanCap
      BY <2>1, <2>2, <3>2, SyncAssumption
    <3> QED
      BY <3>2, <3>3, Zenon DEF QueueOK
  <2>3. CASE ~ (Len(sendCh) < ChanCap)
    <3>1. sendCh' = sendCh
      BY <2>3, Zenon DEF Enqueue
    <3> QED
      BY <2>1, <3>1, Zenon DEF QueueOK
  <2> QED
    BY <2>2, <2>3, Zenon
<1>3. LossesOK'
  BY SyncAssumption DEF IInv, LossesOK, Enqueue, Lose
<1>4. SessionsOK' /\ EventsOK' /\ NumbersOK' /\ ServingOK' /\ FlagsOK'
  BY Zenon
     DEF IInv, SessionsOK, EventsOK, NumbersOK, ServingOK, FlagsOK, Enqueue, active,
         sender, receiver
<1> QED
  BY <1>1, <1>2, <1>3, <1>4, Zenon DEF IInv

\* SyncSession keeps the types and both pools conserved.
LEMMA SyncSessionKeeps ==
  ASSUME IInv, SyncSession
  PROVE  IInv'
<1>0. Head(sendCh) \in Request
  <2>1. sendCh \in Seq(Request) /\ sendCh # <<>>
    BY Zenon DEF IInv, QueueOK, SyncSession
  <2> QED
    BY <2>1
<1>1. PoolsOK'
  BY SamePools, Zenon DEF IInv, SyncSession, active
<1>2. QueueOK'
  <2>1. sendCh \in Seq(Request) /\ Len(sendCh) <= ChanCap /\ sendCh # <<>>
    BY Zenon DEF IInv, QueueOK, SyncSession
  <2>2. sendCh' = Tail(sendCh)
    BY Zenon DEF SyncSession
  <2>3. sendCh' \in Seq(Request) /\ Len(sendCh') = Len(sendCh) - 1
    BY <2>1, <2>2
  <2>4. Len(sendCh') <= ChanCap
    BY <2>1, <2>3, SyncAssumption
  <2> QED
    BY <2>3, <2>4, Zenon DEF QueueOK
<1>3. NumbersOK'
  <2>1. Head(sendCh).seq \in Nat
    BY <1>0, Zenon DEF Request
  <2>2. call' = Head(sendCh).seq /\ seq' = seq /\ lastSeq' = lastSeq
    BY Zenon DEF SyncSession
  <2> QED
    BY <2>1, <2>2, Zenon DEF IInv, NumbersOK
<1>4. ServingOK'
  <2> DEFINE h == [r |-> Head(sendCh), pc |-> "number"]
  <2>1. h \in Serving
    BY <1>0, Zenon DEF Serving
  <2>2. serving' = serving \cup {h}
    BY Zenon DEF SyncSession
  <2> HIDE DEF h
  <2> QED
    BY <2>1, <2>2, Zenon DEF IInv, ServingOK
<1>5. SessionsOK' /\ EventsOK' /\ FlagsOK' /\ LossesOK'
  BY Zenon
     DEF IInv, SessionsOK, EventsOK, FlagsOK, LossesOK, SyncSession, active, sender,
         receiver
<1> QED
  BY <1>1, <1>2, <1>3, <1>4, <1>5, Zenon DEF IInv

\* SyncSessionFails keeps the types and both pools conserved.
LEMMA SyncSessionFailsKeeps ==
  ASSUME IInv, SyncSessionFails
  PROVE  IInv'
<1>1. PoolsOK'
  BY SamePools, Zenon DEF IInv, SyncSessionFails, active
<1>2. QueueOK'
  <2>1. sendCh \in Seq(Request) /\ Len(sendCh) <= ChanCap /\ sendCh # <<>>
    BY Zenon DEF IInv, QueueOK, SyncSessionFails
  <2>2. sendCh' = Tail(sendCh)
    BY Zenon DEF SyncSessionFails
  <2>3. sendCh' \in Seq(Request) /\ Len(sendCh') = Len(sendCh) - 1
    BY <2>1, <2>2
  <2>4. Len(sendCh') <= ChanCap
    BY <2>1, <2>3, SyncAssumption
  <2> QED
    BY <2>3, <2>4, Zenon DEF QueueOK
<1>3. LossesOK'
  BY SyncAssumption DEF IInv, LossesOK, SyncSessionFails, Lose
<1>4. SessionsOK' /\ EventsOK' /\ NumbersOK' /\ ServingOK' /\ FlagsOK'
  BY Zenon
     DEF IInv, SessionsOK, EventsOK, NumbersOK, ServingOK, FlagsOK, SyncSessionFails,
         active, sender, receiver
<1> QED
  BY <1>1, <1>2, <1>3, <1>4, Zenon DEF IInv

\* CallTimesOut keeps the types and both pools conserved.
LEMMA CallTimesOutKeeps ==
  ASSUME IInv, CallTimesOut
  PROVE  IInv'
<1>1. PoolsOK'
  BY SamePools, Zenon DEF IInv, CallTimesOut, active
<1>2. LossesOK'
  BY SyncAssumption DEF IInv, LossesOK, CallTimesOut, Lose
<1>3. SessionsOK' /\ EventsOK' /\ QueueOK' /\ NumbersOK' /\ ServingOK' /\ FlagsOK'
  BY Zenon
     DEF IInv, SessionsOK, EventsOK, QueueOK, NumbersOK, ServingOK, FlagsOK,
         CallTimesOut, active, sender, receiver
<1> QED
  BY <1>1, <1>2, <1>3, Zenon DEF IInv

\* NoteSequence keeps the types and both pools conserved.
LEMMA NoteSequenceKeeps ==
  ASSUME IInv, NEW h \in serving, NoteSequence(h)
  PROVE  IInv'
<1>1. PoolsOK'
  BY SamePools, Zenon DEF IInv, NoteSequence, active
<1>2. NumbersOK'
  <2>1. h.r.seq \in Nat
    BY ServingParts, Zenon DEF IInv
  <2>2. lastSeq' = h.r.seq /\ seq' = seq /\ call' = call
    BY Zenon DEF NoteSequence, sender
  <2> QED
    BY <2>1, <2>2, Zenon DEF IInv, NumbersOK
<1>3. ServingOK'
  <2> DEFINE g == [h EXCEPT !.pc = "store"]
  <2>1. g \in Serving
    BY ServingParts, Zenon DEF IInv
  <2>2. serving' = (serving \ {h}) \cup {g}
    BY Zenon DEF NoteSequence
  <2> HIDE DEF g
  <2> QED
    BY <2>1, <2>2, Zenon DEF IInv, ServingOK
<1>4. SessionsOK' /\ EventsOK' /\ QueueOK' /\ FlagsOK' /\ LossesOK'
  BY Zenon
     DEF IInv, SessionsOK, EventsOK, QueueOK, FlagsOK, LossesOK, NoteSequence, active,
         sender, receiver
<1> QED
  BY <1>1, <1>2, <1>3, <1>4, Zenon DEF IInv

\* storeCheckpoint keeps the types and both pools conserved.
LEMMA StoreCheckpointKeeps ==
  ASSUME IInv, NEW h \in serving, storeCheckpoint(h)
  PROVE  IInv'
<1>1. PoolsOK'
  BY SamePools, Zenon DEF IInv, storeCheckpoint, active
<1>2. SessionsOK'
  <2> DEFINE v == IF h.r.del THEN NoAddr ELSE h.r.ip
  <2>1. h.r.s \in Session /\ h.r.ip \in Address
    BY ServingParts, Zenon DEF IInv
  <2>2. v \in Address
    BY <2>1, Zenon DEF Address
  <2>3. stored' = [stored EXCEPT ![h.r.s] = v] /\ ip' = ip /\ dying' = dying
    BY Zenon DEF storeCheckpoint, active
  <2> HIDE DEF v
  <2> QED
    BY <2>1, <2>2, <2>3, Zenon DEF IInv, SessionsOK
<1>3. ServingOK'
  <2> DEFINE g == [h EXCEPT !.pc = "address"]
  <2>1. g \in Serving
    BY ServingParts, Zenon DEF IInv
  <2>2. serving' = (serving \ {h}) \cup {g}
    BY Zenon DEF storeCheckpoint
  <2> HIDE DEF g
  <2> QED
    BY <2>1, <2>2, Zenon DEF IInv, ServingOK
<1>4. EventsOK' /\ QueueOK' /\ NumbersOK' /\ FlagsOK' /\ LossesOK'
  BY Zenon
     DEF IInv, EventsOK, QueueOK, NumbersOK, FlagsOK, LossesOK, storeCheckpoint, active,
         sender, receiver
<1> QED
  BY <1>1, <1>2, <1>3, <1>4, Zenon DEF IInv

\* StoreFails keeps the types and both pools conserved.
LEMMA StoreFailsKeeps ==
  ASSUME IInv, NEW h \in serving, StoreFails(h)
  PROVE  IInv'
<1>1. PoolsOK'
  BY SamePools, Zenon DEF IInv, StoreFails, active
<1>2. LossesOK'
  BY SyncAssumption DEF IInv, LossesOK, StoreFails, Lose
<1>3. SessionsOK' /\ EventsOK' /\ QueueOK' /\ NumbersOK' /\ ServingOK' /\ FlagsOK'
  BY Zenon
     DEF IInv, SessionsOK, EventsOK, QueueOK, NumbersOK, ServingOK, FlagsOK, StoreFails,
         active, sender, receiver
<1> QED
  BY <1>1, <1>2, <1>3, Zenon DEF IInv

\* MirrorAndReply keeps the types and both pools conserved.
LEMMA MirrorAndReplyKeeps ==
  ASSUME IInv, NEW h \in serving, MirrorAndReply(h)
  PROVE  IInv'
<1>1. PoolsOK'
  <2> DEFINE p == pool["standby"]
             q == mirrorAddress(p, h.r)
  <2>1. pool' = [pool EXCEPT !["standby"] = q]
    BY Zenon DEF MirrorAndReply
  <2>2. p \in Pool /\ Conserved(p)
    BY Zenon DEF IInv, PoolsOK, PoolsConserved, Node
  <2>3. h.r.s \in Session /\ h.r.ip \in Address
    BY ServingParts, Zenon DEF IInv
  <2> HIDE DEF p
  <2>4. q \in Pool /\ Conserved(q)
    <3>1. CASE h.r.ip = NoAddr
      BY <2>2, <3>1, Zenon DEF mirrorAddress
    <3>2. CASE h.r.ip # NoAddr /\ h.r.del
      <4>1. q = Release(p, h.r.ip)
        BY <3>2, Zenon DEF mirrorAddress
      <4>2. h.r.ip \in Addr
        BY <2>3, <3>2, RealAddress, Zenon
      <4> QED
        BY <2>2, <4>1, <4>2, ReleaseConserved, Zenon
    <3>3. CASE h.r.ip # NoAddr /\ ~ h.r.del
      <4>1. q = Reserve(p, h.r.ip, h.r.s)
        BY <3>3, Zenon DEF mirrorAddress
      <4>2. h.r.ip \in Addr
        BY <2>3, <3>3, RealAddress, Zenon
      <4> QED
        BY <2>2, <2>3, <4>1, <4>2, ReserveConserved, Zenon
    <3> QED
      BY <3>1, <3>2, <3>3, Zenon
  <2> HIDE DEF q
  <2> QED
    BY <2>1, <2>4, OnePool, Zenon DEF IInv, Node
<1>2. /\ SessionsOK' /\ EventsOK' /\ QueueOK' /\ NumbersOK'
      /\ ServingOK' /\ FlagsOK' /\ LossesOK'
  BY Zenon
     DEF IInv, SessionsOK, EventsOK, QueueOK, NumbersOK, ServingOK, FlagsOK, LossesOK,
         MirrorAndReply, active, sender, receiver
<1> QED
  BY <1>1, <1>2, Zenon DEF IInv

\* SetAllocDirection keeps the types and both pools conserved.
LEMMA SetAllocDirectionKeeps ==
  ASSUME IInv, NEW x \in Turning, NEW asc \in BOOLEAN, SetAllocDirection(x, asc)
  PROVE  IInv'
<1>1. PoolsOK'
  <2> DEFINE q == SetDirection(pool[x], asc)
  <2>1. pool' = [pool EXCEPT ![x] = q] /\ x \in Node
    BY SyncAssumption, Zenon DEF SetAllocDirection, Node
  <2>2. pool[x] \in Pool /\ Conserved(pool[x])
    BY <2>1, Zenon DEF IInv, PoolsOK, PoolsConserved
  <2>3. q \in Pool /\ Conserved(q)
    BY <2>2, SetDirectionConserved, Zenon
  <2> HIDE DEF q
  <2> QED
    BY <2>1, <2>3, OnePool, Zenon DEF IInv
<1>2. /\ SessionsOK' /\ EventsOK' /\ QueueOK' /\ NumbersOK'
      /\ ServingOK' /\ FlagsOK' /\ LossesOK'
  BY Zenon
     DEF IInv, SessionsOK, EventsOK, QueueOK, NumbersOK, ServingOK, FlagsOK, LossesOK,
         SetAllocDirection, active, sender, receiver
<1> QED
  BY <1>1, <1>2, Zenon DEF IInv

-----------------------------------------------------------------------------
\* The invariant holds initially: both pools are new and nothing is in flight.
LEMMA InitOK == Init => IInv
<1> SUFFICES ASSUME Init PROVE IInv
  OBVIOUS
<1>1. PoolsOK
  <2>1. /\ \A x \in Node : pool[x] = NewPoolAllocator
        /\ pool = [y \in Node |-> NewPoolAllocator]
    BY Zenon DEF Init
  <2>2. pool \in [Node -> Pool]
    BY NewConserved, Zenon DEF Init
  <2> QED
    BY <2>1, <2>2, NewConserved, Zenon DEF PoolsOK, PoolsConserved
<1>2. SessionsOK
  BY Zenon DEF Init, SessionsOK, Address
<1>3. EventsOK
  BY SyncAssumption DEF Init, EventsOK
<1>4. QueueOK
  BY SyncAssumption DEF Init, QueueOK
<1>5. NumbersOK /\ ServingOK
  BY Zenon DEF Init, NumbersOK, ServingOK
<1>6. FlagsOK
  BY Zenon DEF Init, FlagsOK
<1>7. LossesOK
  BY SyncAssumption DEF Init, LossesOK
<1> QED
  BY <1>1, <1>2, <1>3, <1>4, <1>5, <1>6, <1>7, Zenon DEF IInv

\* Every step keeps the invariant.
LEMMA NextOK == IInv /\ [Next]_vars => IInv'
<1> SUFFICES ASSUME IInv, [Next]_vars PROVE IInv'
  OBVIOUS
<1>1. CASE Next
  BY <1>1, SessionUpKeeps, SessionMutatedKeeps, SessionDownKeeps,
     SessionReleasedKeeps, SetActiveKeeps, HandleEventKeeps, IgnoreEventKeeps,
     EnqueueKeeps, SyncSessionKeeps, SyncSessionFailsKeeps, CallTimesOutKeeps,
     NoteSequenceKeeps, StoreCheckpointKeeps, StoreFailsKeeps, MirrorAndReplyKeeps,
     SetAllocDirectionKeeps, Zenon DEF Next
<1>2. CASE UNCHANGED vars
  <2>1. PoolsOK'
    BY <1>2, SamePools, Zenon DEF IInv, vars
  <2>2. /\ SessionsOK' /\ EventsOK' /\ QueueOK' /\ NumbersOK' /\ ServingOK'
        /\ FlagsOK' /\ LossesOK'
    BY <1>2, Zenon
       DEF IInv, SessionsOK, EventsOK, QueueOK, NumbersOK, ServingOK, FlagsOK, LossesOK,
           vars
  <2> QED
    BY <2>1, <2>2, Zenon DEF IInv
<1> QED
  BY <1>1, <1>2, Zenon

\* Every reachable state of the replication is well typed: addresses in
\* sessions, events, requests and checkpoints are addresses of the range.
THEOREM TypesCorrect == Spec => []TypeOK
<1>1. IInv => TypeOK
  BY IInvMeaning, Zenon
<1> QED
  BY InitOK, NextOK, <1>1, PTL DEF Spec

\* PoolAllocator under sessions and replication: in every reachable state no
\* address is free twice or both free and leased, and no allocatable address
\* is lost, on either node.
THEOREM PoolsCorrect == Spec => []PoolsConserved
<1>1. IInv => PoolsConserved
  BY IInvMeaning, Zenon
<1> QED
  BY InitOK, NextOK, <1>1, PTL DEF Spec
-----------------------------------------------------------------------------
(***************************************************************************)
(* The standby as a copy.  What is announced and not yet applied is seen   *)
(* as one set of numbered announcements: a new one is the last of them,    *)
(* and the one that is applied is the first.                               *)
(***************************************************************************)
\* A request as the event it was made from.
Announcement(r) == [n |-> r.n, s |-> r.s, ip |-> r.ip, del |-> r.del]

\* The announcements the standby has not finished with.
InFlight ==
  bus \cup {Announcement(r) : r \in numbered}
      \cup {Announcement(sendCh[i]) : i \in 1..Len(sendCh)}
      \cup {Announcement(h.r) : h \in serving}

\* The address that was last announced for each session, and what an
\* announcement says of its session and of its address.
Announced == [s \in Session |-> IF dying[s] # NoAddr THEN dying[s] ELSE ip[s]]
AddressOf(e) == IF e.del THEN NoAddr ELSE e.ip
HolderOf(e) == IF e.del THEN Nobody ELSE e.s

\* v is who A says has the address a.
Holds(A, a, v) ==
  \/ v = Nobody /\ \A t \in Session : A[t] # a
  \/ v \in Session /\ A[v] = a

\* The last announcement in P for a session says what A says of it; when there
\* is none, the checkpoint does.
SessionLedger(P, st, A) ==
  /\ \A s \in Session : (\A e \in P : e.s # s) => st[s] = A[s]
  /\ \A e \in P : (\A f \in P : f.s = e.s => f.n <= e.n) => AddressOf(e) = A[e.s]

\* f is the next announcement in P for the address of e.
Follows(P, e, f) ==
  /\ e.ip = f.ip /\ e.n < f.n
  /\ \A g \in P : g.ip = e.ip => g.n <= e.n \/ f.n <= g.n

\* The same of an address and its lease.  And no announcement gives an address
\* to a session while another has it: neither the first for the address, nor one
\* after another.
AddressLedger(P, L, A) ==
  /\ \A a \in Addr : (\A e \in P : e.ip # a) => Holds(A, a, L[a])
  /\ \A e \in P : (\A f \in P : f.ip = e.ip => f.n <= e.n) => Holds(A, e.ip, HolderOf(e))
  /\ \A e \in P : ~ e.del /\ (\A f \in P : f.ip = e.ip => e.n <= f.n)
                    => L[e.ip] \in {Nobody, e.s}
  /\ \A e, f \in P : Follows(P, e, f) /\ ~ f.del => HolderOf(e) \in {Nobody, f.s}

\* A session has its address or is giving it back, and the leases of the active
\* node are those of its sessions.
ActiveInv ==
  /\ \A s \in Session : ip[s] = NoAddr \/ dying[s] = NoAddr
  /\ \A s \in Session, a \in Addr : pool["active"].leases[a] = s <=> ip[s] = a

\* Requests come one after another: those not yet in the queue are newer than
\* those in it, which are in order and newer than the one that is served.
Waiting == bus \cup numbered
WaitingInv ==
  /\ \A e \in bus, f \in bus : e.n = f.n => e = f
  /\ \A e \in numbered, f \in numbered : e.n = f.n => e = f
  /\ \A e \in bus, f \in numbered : e.n # f.n
  /\ \A e \in Waiting : e.n <= published
QueueInv ==
  /\ \A i, j \in 1..Len(sendCh) : i < j => sendCh[i].n < sendCh[j].n
  /\ \A i \in 1..Len(sendCh) : sendCh[i].n <= published
  /\ \A i \in 1..Len(sendCh), e \in Waiting : sendCh[i].n < e.n
ServedInv ==
  /\ \A h, g \in serving : h = g
  /\ \A h \in serving : /\ call = h.r.seq /\ call # NoCall /\ h.r.n <= published
                        /\ \A i \in 1..Len(sendCh) : h.r.n < sendCh[i].n
                        /\ \A e \in Waiting : h.r.n < e.n
                        /\ h.pc = "address" => stored[h.r.s] = AddressOf(h.r)
NumberedInv ==
  /\ \A r \in numbered : r.seq # 0
  /\ \A i \in 1..Len(sendCh) : sendCh[i].seq # 0

LedgerInv ==
  /\ \A e \in InFlight : e.ip # NoAddr
  /\ \A s, t \in Session : Announced[s] = Announced[t] /\ Announced[s] # NoAddr => s = t
  /\ SessionLedger(InFlight, stored, Announced)
  /\ AddressLedger(InFlight, pool["standby"].leases, Announced)

\* While nothing is lost or overtaken, the copy follows its original ...
CopyInv == WaitingInv /\ QueueInv /\ ServedInv /\ NumberedInv /\ LedgerInv

\* ... which with the active node's own side is inductive.
MirrorInv == ActiveInv /\ (lost = 0 /\ ~ reordered => CopyInv)

\* An announcement is numbered and about a session and an address.
LEMMA EventParts ==
  ASSUME NEW e \in Event
  PROVE  e.n \in Nat /\ e.s \in Session /\ e.ip \in Address /\ e.del \in BOOLEAN
BY Zenon DEF Event

\* A new announcement for a session is its last.
LEMMA SessionLedgerAdds ==
  ASSUME NEW P \in SUBSET Event, NEW e \in Event, \A f \in P : f.n < e.n,
         NEW A, NEW B, B[e.s] = AddressOf(e), \A t \in Session : t # e.s => B[t] = A[t],
         NEW st, SessionLedger(P, st, A)
  PROVE  SessionLedger(P \cup {e}, st, B)
<1>1. \A f \in P : ~ (e.n <= f.n)
  BY EventParts
<1>2. \A s \in Session : (\A f \in P \cup {e} : f.s # s) => st[s] = B[s]
  BY Zenon DEF SessionLedger
<1>3. ASSUME NEW f \in P \cup {e}, \A g \in P \cup {e} : g.s = f.s => g.n <= f.n
      PROVE  AddressOf(f) = B[f.s]
  <2>1. CASE f = e
    BY <2>1, Zenon
  <2>2. CASE f \in P
    <3>1. f.s # e.s /\ f.s \in Session
      BY <1>1, <1>3, <2>2, EventParts, Zenon
    <3> QED
      BY <1>3, <2>2, <3>1, Zenon DEF SessionLedger
  <2> QED
    BY <2>1, <2>2, Zenon
<1> QED
  BY <1>2, <1>3, Zenon DEF SessionLedger

\* Once the first announcement is in the checkpoint it can go.
LEMMA SessionLedgerDrops ==
  ASSUME NEW P \in SUBSET Event, NEW e \in P, \A f \in P : f = e \/ e.n < f.n,
         NEW A, NEW st, SessionLedger(P, st, A), st[e.s] = AddressOf(e)
  PROVE  SessionLedger(P \ {e}, st, A)
<1>1. \A f \in P : e.n <= f.n
  BY EventParts
<1>2. ASSUME NEW s \in Session, \A f \in P \ {e} : f.s # s PROVE st[s] = A[s]
  <2>1. CASE e.s = s
    <3>1. \A f \in P : f.s = e.s => f.n <= e.n
      BY <1>2, <2>1, EventParts
    <3> QED
      BY <2>1, <3>1, Zenon DEF SessionLedger
  <2>2. CASE e.s # s
    BY <1>2, <2>2, Zenon DEF SessionLedger
  <2> QED
    BY <2>1, <2>2, Zenon
<1>3. ASSUME NEW f \in P \ {e}, \A g \in P \ {e} : g.s = f.s => g.n <= f.n
      PROVE  AddressOf(f) = A[f.s]
  <2>1. \A g \in P : g.s = f.s => g.n <= f.n
    BY <1>1, <1>3, Zenon
  <2> QED
    BY <2>1, Zenon DEF SessionLedger
<1> QED
  BY <1>2, <1>3, Zenon DEF SessionLedger

\* Who has an address does not change with the other addresses.
LEMMA HoldsKept ==
  ASSUME NEW A, NEW B, NEW a, NEW v, Holds(A, a, v),
         \A t \in Session : A[t] = a <=> B[t] = a
  PROVE  Holds(B, a, v)
BY Zenon DEF Holds

\* A new announcement for an address is the last for it, and finds the address
\* with nobody or with its own session.
LEMMA AddressLedgerAdds ==
  ASSUME NEW P \in SUBSET Event, NEW e \in Event, \A f \in P : f.n < e.n,
         \A f \in P \cup {e} : f.ip # NoAddr,
         NEW A, NEW B, B[e.s] = AddressOf(e), \A t \in Session : t # e.s => B[t] = A[t],
         A[e.s] \in {NoAddr, e.ip}, \A t \in Session : A[t] = e.ip => t = e.s,
         NEW L, AddressLedger(P, L, A)
  PROVE  AddressLedger(P \cup {e}, L, B)
<1> DEFINE Q == P \cup {e}
<1>1. \A f \in P : ~ (e.n <= f.n) /\ f.n \in Nat /\ f.ip \in Addr
  BY EventParts, RealAddress
<1>2. e.n \in Nat /\ e.s \in Session /\ e.ip \in Addr
  BY EventParts, RealAddress, Zenon
<1>3. \A a \in Addr : a # e.ip => \A t \in Session : A[t] = a <=> B[t] = a
  BY <1>2, AddrAssumption DEF AddressOf, Addr
<1>4. Holds(B, e.ip, HolderOf(e))
  BY <1>2, Zenon DEF Holds, HolderOf, AddressOf
<1>5. \A v : Holds(A, e.ip, v) => v \in {Nobody, e.s}
  BY Zenon DEF Holds
<1>6. \A a \in Addr : (\A f \in Q : f.ip # a) => Holds(B, a, L[a])
  BY <1>3, HoldsKept DEF AddressLedger
<1>7. ASSUME NEW f \in Q, \A g \in Q : g.ip = f.ip => g.n <= f.n
      PROVE  Holds(B, f.ip, HolderOf(f))
  <2>1. CASE f = e
    BY <1>4, <2>1, Zenon
  <2>2. CASE f \in P
    <3>1. f.ip \in Addr /\ f.ip # e.ip
      BY <1>1, <1>7, <2>2, Zenon
    <3>2. Holds(A, f.ip, HolderOf(f))
      BY <1>7, <2>2, Zenon DEF AddressLedger
    <3>3. \A t \in Session : A[t] = f.ip <=> B[t] = f.ip
      BY <1>3, <3>1, Zenon
    <3> QED
      BY <3>2, <3>3, HoldsKept, Zenon
  <2> QED
    BY <2>1, <2>2, Zenon
<1>8. ASSUME NEW f \in Q, ~ f.del, \A g \in Q : g.ip = f.ip => f.n <= g.n
      PROVE  L[f.ip] \in {Nobody, f.s}
  <2>1. CASE f = e
    BY <1>1, <1>2, <1>5, <1>8, <2>1, Zenon DEF AddressLedger
  <2>2. CASE f \in P
    BY <1>8, <2>2, Zenon DEF AddressLedger
  <2> QED
    BY <2>1, <2>2, Zenon
<1>9. ASSUME NEW f \in Q, NEW g \in Q, Follows(Q, f, g), ~ g.del
       PROVE  HolderOf(f) \in {Nobody, g.s}
  <2>1. f \in P
    BY <1>1, <1>2, <1>9 DEF Follows
  <2>2. CASE g = e
    <3>1. \A d \in P : d.ip = f.ip => d.n <= f.n
      BY <1>1, <1>9, <2>2, Zenon DEF Follows
    <3> QED
      BY <1>5, <1>9, <2>1, <2>2, <3>1, Zenon DEF AddressLedger, Follows
  <2>3. CASE g \in P
    BY <1>9, <2>1, <2>3, Zenon DEF AddressLedger, Follows
  <2> QED
    BY <2>2, <2>3, Zenon
<1> QED
  BY <1>6, <1>7, <1>8, <1>9, Zenon DEF AddressLedger

\* Once the first announcement is in the leases it can go.
LEMMA AddressLedgerDrops ==
  ASSUME NEW P \in SUBSET Event, NEW e \in P, \A f \in P : f = e \/ e.n < f.n,
         NEW A, NEW L, AddressLedger(P, L, A),
         NEW M, M[e.ip] = HolderOf(e), \A a \in Addr : a # e.ip => M[a] = L[a],
         \A f \in P : f.ip # NoAddr
  PROVE  AddressLedger(P \ {e}, M, A)
<1> DEFINE Q == P \ {e}
<1>1. \A f \in P : e.n <= f.n /\ (f # e => ~ (f.n <= e.n)) /\ f.n \in Nat /\ f.ip \in Addr
  BY EventParts, RealAddress
<1>2. ASSUME NEW a \in Addr, \A f \in Q : f.ip # a PROVE Holds(A, a, M[a])
  <2>1. CASE a = e.ip
    <3>1. \A f \in P : f.ip = e.ip => f.n <= e.n
      BY <1>1, <1>2, <2>1, Zenon
    <3> QED
      BY <2>1, <3>1, Zenon DEF AddressLedger
  <2>2. CASE a # e.ip
    BY <1>2, <2>2, Zenon DEF AddressLedger
  <2> QED
    BY <2>1, <2>2, Zenon
<1>3. ASSUME NEW f \in Q, \A g \in Q : g.ip = f.ip => g.n <= f.n
      PROVE  Holds(A, f.ip, HolderOf(f))
  BY <1>1, <1>3, Zenon DEF AddressLedger
<1>4. ASSUME NEW f \in Q, ~ f.del, \A g \in Q : g.ip = f.ip => f.n <= g.n
      PROVE  M[f.ip] \in {Nobody, f.s}
  <2>1. CASE f.ip = e.ip
    <3>1. Follows(P, e, f)
      BY <1>1, <1>4, <2>1, Zenon DEF Follows
    <3> QED
      BY <1>4, <2>1, <3>1, Zenon DEF AddressLedger
  <2>2. CASE f.ip # e.ip
    BY <1>1, <1>4, <2>2, Zenon DEF AddressLedger
  <2> QED
    BY <2>1, <2>2, Zenon
<1>5. ASSUME NEW f \in Q, NEW g \in Q, Follows(Q, f, g), ~ g.del
      PROVE  HolderOf(f) \in {Nobody, g.s}
  <2>1. Follows(P, f, g)
    BY <1>1, <1>5, Zenon DEF Follows
  <2> QED
    BY <1>5, <2>1, Zenon DEF AddressLedger
<1> QED
  BY <1>2, <1>3, <1>4, <1>5, Zenon DEF AddressLedger

\* A request carries the announcement it was made from.
LEMMA AnnouncementParts ==
  ASSUME NEW r \in Request
  PROVE  /\ Announcement(r) \in Event
         /\ Announcement(r).n = r.n /\ Announcement(r).s = r.s /\ Announcement(r).ip = r.ip
         /\ AddressOf(Announcement(r)) = AddressOf(r)
         /\ HolderOf(Announcement(r)) = HolderOf(r)
         /\ r.n \in Nat /\ r.s \in Session /\ r.ip \in Address /\ r.seq \in Nat
BY Zenon DEF Announcement, Request, Event, AddressOf, HolderOf

\* What is in the queue or served is a request.
LEMMA QueuedRequests ==
  ASSUME IInv
  PROVE  /\ \A i \in 1..Len(sendCh) : sendCh[i] \in Request
         /\ \A h \in serving : h.r \in Request
         /\ \A r \in numbered : r \in Request
         /\ \A e \in bus : e \in Event
<1>1. \A i \in 1..Len(sendCh) : sendCh[i] \in Request
  BY DEF IInv, QueueOK
<1>2. \A h \in serving : h.r \in Request
  BY ServingParts, Zenon DEF IInv
<1> QED
  BY <1>1, <1>2, Zenon DEF IInv, EventsOK

\* Announcements are events.
LEMMA InFlightType ==
  ASSUME IInv
  PROVE  InFlight \in SUBSET Event
BY QueuedRequests, AnnouncementParts, Zenon DEF InFlight

\* None is newer than the last published.
LEMMA InFlightBound ==
  ASSUME IInv, CopyInv, NEW e \in InFlight
  PROVE  e.n <= published
<1>1. \A r \in Request : Announcement(r).n = r.n
  BY AnnouncementParts, Zenon
<1>2. \A x \in bus \cup numbered : x.n <= published
  BY Zenon DEF CopyInv, WaitingInv, Waiting
<1> QED
  BY <1>1, <1>2, QueuedRequests DEF InFlight, CopyInv, QueueInv, ServedInv

\* The one that is served is the first.
LEMMA ServedFirst ==
  ASSUME IInv, CopyInv, NEW h \in serving
  PROVE  /\ serving = {h} /\ h.r \in Request /\ Announcement(h.r) \in InFlight
         /\ \A f \in InFlight : f = Announcement(h.r) \/ Announcement(h.r).n < f.n
<1>1. serving = {h} /\ h.r \in Request
  BY QueuedRequests, Zenon DEF CopyInv, ServedInv
<1>2. \A r \in Request : Announcement(r).n = r.n
  BY AnnouncementParts, Zenon
<1>3. \A x \in bus \cup numbered : h.r.n < x.n
  BY Zenon DEF CopyInv, ServedInv, Waiting
<1>4. \A i \in 1..Len(sendCh) : h.r.n < sendCh[i].n
  BY Zenon DEF CopyInv, ServedInv
<1> QED
  BY <1>1, <1>2, <1>3, <1>4, QueuedRequests DEF InFlight

\* The active node's side, when its sessions and leases stay.
LEMMA ActiveKept ==
  ASSUME ActiveInv, UNCHANGED <<ip, dying>>, pool'["active"].leases = pool["active"].leases
  PROVE  ActiveInv'
BY DEF ActiveInv

\* The ledgers, when the same announcements are in flight.
LEMMA LedgerKept ==
  ASSUME CopyInv, InFlight' = InFlight, Announced' = Announced, stored' = stored,
         pool'["standby"].leases = pool["standby"].leases
  PROVE  LedgerInv'
<1>1. SessionLedger(InFlight, stored, Announced)'
  BY Zenon DEF CopyInv, LedgerInv, SessionLedger
<1>2. AddressLedger(InFlight, pool["standby"].leases, Announced)'
  BY Zenon DEF CopyInv, LedgerInv, AddressLedger, Follows
<1> QED
  BY <1>1, <1>2, Zenon DEF CopyInv, LedgerInv

\* A session is announced: the newest announcement, of an address that nobody
\* else is announced to have.
LEMMA AnnounceKeeps ==
  ASSUME IInv, CopyInv, NEW e \in Event, e.n = published + 1, e.ip # NoAddr,
         bus' = bus \cup {e}, published' = published + 1,
         UNCHANGED <<numbered, sendCh, serving, call, stored>>,
         pool'["standby"].leases = pool["standby"].leases,
         Announced'[e.s] = AddressOf(e),
         \A t \in Session : t # e.s => Announced'[t] = Announced[t],
         Announced[e.s] \in {NoAddr, e.ip},
         \A t \in Session : Announced[t] = e.ip => t = e.s
  PROVE  CopyInv'
<1>1. published \in Nat /\ e.s \in Session
  BY EventParts DEF IInv, EventsOK
<1>2. InFlight' = InFlight \cup {e}
  BY Zenon DEF InFlight
<1>3. InFlight \in SUBSET Event /\ \A f \in InFlight : f.n < e.n
  BY <1>1, InFlightType, InFlightBound, EventParts
<1>4. \A r \in Request \cup Event : r.n \in Nat
  BY EventParts, AnnouncementParts, Zenon
<1>5. WaitingInv'
  <2>1. \A f \in bus \cup numbered : f.n \in Nat /\ f.n <= published
    BY <1>4, QueuedRequests, Zenon DEF CopyInv, WaitingInv, Waiting
  <2>2. \A f \in bus \cup numbered : f.n # e.n /\ f.n <= published'
    BY <1>1, <2>1
  <2> QED
    BY <1>1, <2>2 DEF CopyInv, WaitingInv, Waiting
<1>6. QueueInv'
  <2>1. \A i \in 1..Len(sendCh) : sendCh[i].n <= published /\ sendCh[i].n \in Nat
    BY <1>4, QueuedRequests, Zenon DEF CopyInv, QueueInv
  <2>2. \A i \in 1..Len(sendCh) : sendCh[i].n <= published' /\ sendCh[i].n < e.n
    BY <1>1, <2>1
  <2> QED
    BY <2>2, Zenon DEF CopyInv, QueueInv, Waiting
<1>7. ServedInv'
  <2>1. \A h \in serving : h.r.n <= published /\ h.r.n \in Nat
    BY <1>4, QueuedRequests, Zenon DEF CopyInv, ServedInv
  <2>2. \A h \in serving : h.r.n <= published' /\ h.r.n < e.n
    BY <1>1, <2>1
  <2> QED
    BY <2>2, Zenon DEF CopyInv, ServedInv, Waiting
<1>8. NumberedInv'
  BY Zenon DEF CopyInv, NumberedInv
<1>9. LedgerInv'
  <2>1. \A f \in InFlight \cup {e} : f.ip # NoAddr
    BY Zenon DEF CopyInv, LedgerInv
  <2>2. \A s, t \in Session :
          Announced'[s] = Announced'[t] /\ Announced'[s] # NoAddr => s = t
    BY <1>1, Zenon DEF CopyInv, LedgerInv, AddressOf
  <2>3. SessionLedger(InFlight', stored', Announced')
    BY <1>2, <1>3, SessionLedgerAdds, Zenon DEF CopyInv, LedgerInv
  <2>4. AddressLedger(InFlight', pool'["standby"].leases, Announced')
    BY <1>2, <1>3, <2>1, AddressLedgerAdds, Zenon DEF CopyInv, LedgerInv
  <2> QED
    BY <1>2, <2>1, <2>2, <2>3, <2>4, Zenon DEF LedgerInv
<1> QED
  BY <1>5, <1>6, <1>7, <1>8, <1>9, Zenon DEF CopyInv

\* What Publish does when the bus takes the event.
LEMMA Published ==
  ASSUME IInv, NEW s \in Session, NEW a \in Address, NEW del \in BOOLEAN,
         Publish(s, a, del), lost' = 0
  PROVE  /\ lost = 0 /\ published' = published + 1
         /\ [n |-> published + 1, s |-> s, ip |-> a, del |-> del] \in Event
         /\ bus' = bus \cup {[n |-> published + 1, s |-> s, ip |-> a, del |-> del]}
<1>1. lost \in Nat /\ published + 1 \in Nat
  BY DEF IInv, LossesOK, EventsOK
<1>2. ~ Lose
  BY <1>1 DEF Lose
<1> QED
  BY <1>1, <1>2, Zenon DEF Publish, Event

\* SessionUp: the address was nobody's, and nobody was still giving it back.
LEMMA SessionUpMirrors ==
  ASSUME PPPoE = {}, IInv, MirrorInv, NEW s \in Session, NEW a \in Static \cup {NoAddr},
         SessionUp(s, a)
  PROVE  MirrorInv'
<1> DEFINE p == pool["active"]
           got == IF a = NoAddr THEN NextAddr(p) ELSE a
           e == [n |-> published + 1, s |-> s, ip |-> got, del |-> FALSE]
<1>1. p \in Pool /\ Conserved(p) /\ pool \in [Node -> Pool]
  BY Zenon DEF IInv, PoolsOK, PoolsConserved, Node
<1>2. /\ got \in Addr /\ p.leases[got] \in {Nobody, s}
      /\ pool'["active"].leases = [p.leases EXCEPT ![got] = s]
      /\ pool'["standby"] = pool["standby"]
  <2>1. CASE a = NoAddr
    <3>1. CanAllocate(p) /\ pool' = [pool EXCEPT !["active"] = Allocate(p, s)]
      BY <2>1, Zenon DEF SessionUp
    <3> QED
      BY <1>1, <2>1, <3>1, AllocateLease, Zenon DEF Node
  <2>2. CASE a # NoAddr
    <3>1. CanReserve(p, a, s) /\ pool' = [pool EXCEPT !["active"] = Reserve(p, a, s)]
      BY <2>2, Zenon DEF SessionUp
    <3>2. a \in Addr
      BY <2>2, SyncAssumption, Zenon
    <3>3. Reserve(p, a, s).leases = [p.leases EXCEPT ![a] = s]
      BY <1>1, <3>1, <3>2, ReserveLease, Zenon
    <3> QED
      BY <1>1, <2>2, <3>1, <3>2, <3>3, Zenon DEF Node, CanReserve
  <2> QED
    BY <2>1, <2>2, Zenon
<1>3. /\ ip[s] = NoAddr /\ dying[s] = NoAddr /\ ip' = [ip EXCEPT ![s] = got]
      /\ dying' = dying /\ Publish(s, got, FALSE)
      /\ reordered' = (reordered \/ \E t \in Session : dying[t] = got)
      /\ UNCHANGED <<numbered, sendCh, serving, call, stored>>
  BY Zenon DEF SessionUp, receiver
<1> HIDE DEF p, got
<1>4. got # NoAddr /\ got \in Address
  BY <1>2, AddrAssumption DEF Addr, Address
<1>5. \A t \in Session : ip[t] # got
  <2>1. \A t \in Session : p.leases[got] = t <=> ip[t] = got
    BY <1>2, Zenon DEF MirrorInv, ActiveInv, p
  <2> QED
    BY <1>2, <1>3, <1>4, <2>1, NobodyAssumption, Zenon
<1>6. ActiveInv'
  <2>1. p.leases \in [Addr -> Session \cup {Nobody}]
    BY <1>1, Zenon DEF Pool
  <2>2. \A t \in Session, b \in Addr : p.leases[b] = t <=> ip[t] = b
    BY Zenon DEF MirrorInv, ActiveInv, p
  <2>3. ip'[s] = got /\ \A t \in Session : t # s => ip'[t] = ip[t]
    BY <1>3, Zenon DEF IInv, SessionsOK
  <2>4. \A b \in Addr : pool'["active"].leases[b] = IF b = got THEN s ELSE p.leases[b]
    BY <1>2, <2>1, Zenon
  <2>5. \A t \in Session, b \in Addr : pool'["active"].leases[b] = t <=> ip'[t] = b
    <3> TAKE t \in Session, b \in Addr
    <3>1. b # NoAddr
      BY AddrAssumption DEF Addr
    <3> QED
      BY <1>3, <1>5, <2>2, <2>3, <2>4, <3>1
  <2>6. \A t \in Session : ip'[t] = NoAddr \/ dying'[t] = NoAddr
    BY <1>3, Zenon DEF MirrorInv, ActiveInv, IInv, SessionsOK
  <2> QED
    BY <2>5, <2>6, Zenon DEF ActiveInv
<1>7. ASSUME lost' = 0, ~ reordered' PROVE CopyInv'
  <2>1. /\ lost = 0 /\ published' = published + 1 /\ e \in Event /\ bus' = bus \cup {e}
    BY <1>3, <1>4, <1>7, Published, Zenon
  <2>2. CopyInv /\ \A t \in Session : dying[t] # got
    BY <1>3, <1>7, <2>1, Zenon DEF MirrorInv
  <2>3. \A t \in Session : Announced[t] # got
    BY <1>5, <2>2, Zenon DEF Announced
  <2>4. /\ Announced[s] = NoAddr /\ Announced'[s] = got
        /\ \A t \in Session : t # s => Announced'[t] = Announced[t]
    BY <1>3, Zenon DEF Announced, IInv, SessionsOK
  <2>5. e.n = published + 1 /\ e.ip = got /\ e.s = s /\ AddressOf(e) = got
    BY Zenon DEF AddressOf
  <2> HIDE DEF e
  <2> QED
    BY <1>2, <1>3, <1>4, <2>1, <2>2, <2>3, <2>4, <2>5, AnnounceKeeps
<1> QED
  BY <1>6, <1>7, Zenon DEF MirrorInv

\* SessionMutated announces the address again.
LEMMA SessionMutatedMirrors ==
  ASSUME IInv, MirrorInv, NEW s \in Session, SessionMutated(s)
  PROVE  MirrorInv'
<1> DEFINE e == [n |-> published + 1, s |-> s, ip |-> ip[s], del |-> FALSE]
<1>1. /\ ip[s] # NoAddr /\ Publish(s, ip[s], FALSE) /\ reordered' = reordered
      /\ UNCHANGED <<pool, ip, dying, numbered, sendCh, serving, call, stored>>
  BY Zenon DEF SessionMutated, active, receiver
<1>2. ActiveInv'
  BY <1>1, ActiveKept, Zenon DEF MirrorInv
<1>3. ASSUME lost' = 0, ~ reordered' PROVE CopyInv'
  <2>1. ip[s] \in Address /\ Announced[s] = ip[s] /\ Announced' = Announced
    BY <1>1, Zenon DEF IInv, SessionsOK, MirrorInv, ActiveInv, Announced
  <2>2. /\ lost = 0 /\ published' = published + 1 /\ e \in Event /\ bus' = bus \cup {e}
    BY <1>1, <1>3, <2>1, Published, Zenon
  <2>3. CopyInv
    BY <1>1, <1>3, <2>2, Zenon DEF MirrorInv
  <2>4. \A t \in Session : Announced[t] = ip[s] => t = s
    BY <1>1, <2>1, <2>3, Zenon DEF CopyInv, LedgerInv
  <2>5. e.n = published + 1 /\ e.ip = ip[s] /\ e.s = s /\ AddressOf(e) = ip[s]
    BY Zenon DEF AddressOf
  <2> HIDE DEF e
  <2> QED
    BY <1>1, <2>1, <2>2, <2>3, <2>4, <2>5, AnnounceKeeps, Zenon
<1> QED
  BY <1>2, <1>3, Zenon DEF MirrorInv

\* SessionDown announces nothing: the address stays the one that was announced.
LEMMA SessionDownMirrors ==
  ASSUME IInv, MirrorInv, NEW s \in Session, SessionDown(s)
  PROVE  MirrorInv'
<1> DEFINE p == pool["active"]
           a == ip[s]
<1>1. /\ a # NoAddr /\ pool' = [pool EXCEPT !["active"] = Release(p, a)]
      /\ dying' = [dying EXCEPT ![s] = a] /\ ip' = [ip EXCEPT ![s] = NoAddr]
      /\ UNCHANGED <<bus, numbered, sendCh, serving, call, published, stored,
                     reordered, lost>>
  BY Zenon DEF SessionDown, sender, receiver
<1>2. p \in Pool /\ pool \in [Node -> Pool] /\ a \in Addr
  BY <1>1, RealAddress, Zenon DEF IInv, PoolsOK, Node, SessionsOK
<1>3. /\ pool'["active"].leases = [p.leases EXCEPT ![a] = Nobody]
      /\ pool'["standby"] = pool["standby"]
  BY <1>1, <1>2, ReleaseLease, Zenon DEF Node
<1>4. /\ ip'[s] = NoAddr /\ dying'[s] = a
      /\ \A t \in Session : t # s => ip'[t] = ip[t] /\ dying'[t] = dying[t]
  BY <1>1, Zenon DEF IInv, SessionsOK
<1>5. ActiveInv'
  <2>1. p.leases \in [Addr -> Session \cup {Nobody}]
    BY <1>2, Zenon DEF Pool
  <2>2. \A b \in Addr : pool'["active"].leases[b] = IF b = a THEN Nobody ELSE p.leases[b]
    BY <1>3, <2>1, Zenon
  <2>3. \A t \in Session, b \in Addr : p.leases[b] = t <=> ip[t] = b
    BY Zenon DEF MirrorInv, ActiveInv
  <2>4. \A t \in Session : ip[t] = NoAddr \/ dying[t] = NoAddr
    BY Zenon DEF MirrorInv, ActiveInv
  <2> HIDE DEF p
  <2>5. \A t \in Session, b \in Addr : pool'["active"].leases[b] = t <=> ip'[t] = b
    <3> TAKE t \in Session, b \in Addr
    <3>1. b # NoAddr
      BY AddrAssumption DEF Addr
    <3> QED
      BY <1>4, <2>2, <2>3, <3>1, NobodyAssumption
  <2> QED
    BY <1>4, <2>4, <2>5, Zenon DEF ActiveInv
<1>6. Announced' = Announced
  <2>1. \A t \in Session : ip[t] = NoAddr \/ dying[t] = NoAddr
    BY Zenon DEF MirrorInv, ActiveInv
  <2> HIDE DEF p
  <2> QED
    BY <1>1, <1>4, <2>1 DEF Announced
<1>7. ASSUME lost' = 0, ~ reordered' PROVE CopyInv'
  <2>1. CopyInv
    BY <1>1, <1>7, Zenon DEF MirrorInv
  <2>2. LedgerInv'
    BY <1>1, <1>3, <1>6, <2>1, LedgerKept, Zenon DEF InFlight
  <2>3. WaitingInv' /\ QueueInv' /\ ServedInv' /\ NumberedInv'
    BY <1>1, <2>1, Zenon
       DEF CopyInv, WaitingInv, QueueInv, ServedInv, NumberedInv, Waiting
  <2> QED
    BY <2>2, <2>3, Zenon DEF CopyInv
<1> QED
  BY <1>5, <1>7, Zenon DEF MirrorInv

\* SessionReleased: the end of an IPoE session is announced with its address.
LEMMA SessionReleasedMirrors ==
  ASSUME PPPoE = {}, IInv, MirrorInv, NEW s \in Session, SessionReleased(s)
  PROVE  MirrorInv'
<1> DEFINE a == dying[s]
           e == [n |-> published + 1, s |-> s, ip |-> a, del |-> TRUE]
<1>1. /\ a # NoAddr /\ Publish(s, a, TRUE) /\ dying' = [dying EXCEPT ![s] = NoAddr]
      /\ reordered' = reordered
      /\ UNCHANGED <<pool, ip, numbered, sendCh, serving, call, stored>>
  BY Zenon DEF SessionReleased, receiver
<1>2. ip[s] = NoAddr /\ a \in Address
  BY <1>1, Zenon DEF MirrorInv, ActiveInv, IInv, SessionsOK
<1>3. dying'[s] = NoAddr /\ \A t \in Session : t # s => dying'[t] = dying[t]
  BY <1>1, Zenon DEF IInv, SessionsOK
<1>4. ActiveInv'
  BY <1>1, <1>2, <1>3 DEF MirrorInv, ActiveInv
<1>5. ASSUME lost' = 0, ~ reordered' PROVE CopyInv'
  <2>1. /\ lost = 0 /\ published' = published + 1 /\ e \in Event /\ bus' = bus \cup {e}
    BY <1>1, <1>2, <1>5, Published, Zenon
  <2>2. CopyInv
    BY <1>1, <1>5, <2>1, Zenon DEF MirrorInv
  <2>3. /\ Announced[s] = a /\ Announced'[s] = NoAddr
        /\ \A t \in Session : t # s => Announced'[t] = Announced[t]
    BY <1>1, <1>2, <1>3, Zenon DEF Announced
  <2>4. \A t \in Session : Announced[t] = a => t = s
    BY <1>1, <2>2, <2>3, Zenon DEF CopyInv, LedgerInv
  <2>5. e.n = published + 1 /\ e.ip = a /\ e.s = s /\ AddressOf(e) = NoAddr
    BY Zenon DEF AddressOf
  <2> HIDE DEF e
  <2> QED
    BY <1>1, <2>1, <2>2, <2>3, <2>4, <2>5, AnnounceKeeps, Zenon
<1> QED
  BY <1>4, <1>5, Zenon DEF MirrorInv

\* A step that loses something promises nothing any more.
LEMMA LosesMirrors ==
  ASSUME IInv, MirrorInv, Lose, UNCHANGED <<pool, ip, dying>>
  PROVE  MirrorInv'
<1>1. lost' # 0
  BY DEF IInv, LossesOK, Lose
<1> QED
  BY <1>1, ActiveKept, Zenon DEF MirrorInv

\* A step that touches neither what is in flight nor the leases.
LEMMA QuietMirrors ==
  ASSUME IInv, MirrorInv, UNCHANGED <<ip, dying, bus, numbered, sendCh, serving, call,
                                     published, stored, reordered, lost>>,
         \A x \in Node : pool'[x].leases = pool[x].leases
  PROVE  MirrorInv'
<1>1. /\ pool'["active"].leases = pool["active"].leases
      /\ pool'["standby"].leases = pool["standby"].leases
  BY Zenon DEF Node
<1>2. ActiveInv'
  BY <1>1, ActiveKept, Zenon DEF MirrorInv
<1>3. ASSUME lost' = 0, ~ reordered' PROVE CopyInv'
  <2>1. CopyInv
    BY <1>3, Zenon DEF MirrorInv
  <2>2. LedgerInv'
    BY <1>1, <2>1, LedgerKept, Zenon DEF InFlight, Announced
  <2>3. WaitingInv' /\ QueueInv' /\ ServedInv' /\ NumberedInv'
    BY <2>1, Zenon DEF CopyInv, WaitingInv, QueueInv, ServedInv, NumberedInv, Waiting
  <2> QED
    BY <2>2, <2>3, Zenon DEF CopyInv
<1> QED
  BY <1>2, <1>3, Zenon DEF MirrorInv

\* HandleEvent makes a request of an event, with a number that is not 0.
LEMMA HandleEventMirrors ==
  ASSUME IInv, MirrorInv, NEW e \in bus, HandleEvent(e)
  PROVE  MirrorInv'
<1> DEFINE r == [n |-> e.n, s |-> e.s, ip |-> e.ip, del |-> e.del, seq |-> seq + 1]
<1>1. /\ bus' = bus \ {e} /\ numbered' = numbered \cup {r}
      /\ UNCHANGED <<pool, ip, dying, sendCh, serving, call, published, stored,
                     reordered, lost>>
  BY Zenon DEF HandleEvent, active, receiver
<1>2. e \in Event /\ seq + 1 # 0
  BY DEF IInv, EventsOK, NumbersOK
<1>3. r.n = e.n /\ r.seq # 0 /\ Announcement(r) = e
  BY <1>2, Zenon DEF Announcement, Event
<1> HIDE DEF r
<1>4. ActiveInv'
  BY <1>1, ActiveKept, Zenon DEF MirrorInv
<1>5. ASSUME lost' = 0, ~ reordered' PROVE CopyInv'
  <2>1. CopyInv
    BY <1>1, <1>5, Zenon DEF MirrorInv
  <2>2. InFlight' = InFlight
    BY <1>1, <1>3, Zenon DEF InFlight
  <2>3. LedgerInv'
    BY <1>1, <2>1, <2>2, LedgerKept, Zenon DEF Announced
  <2>4. WaitingInv'
    BY <1>1, <1>3, <2>1 DEF CopyInv, WaitingInv, Waiting
  <2>5. QueueInv' /\ ServedInv'
    BY <1>1, <1>3, <2>1, Zenon DEF CopyInv, QueueInv, ServedInv, Waiting
  <2>6. NumberedInv'
    BY <1>1, <1>3, <2>1, Zenon DEF CopyInv, NumberedInv
  <2> QED
    BY <2>3, <2>4, <2>5, <2>6, Zenon DEF CopyInv
<1> QED
  BY <1>4, <1>5, Zenon DEF MirrorInv

\* Enqueue takes the oldest of the waiting requests, or it overtakes one.
LEMMA EnqueueMirrors ==
  ASSUME IInv, MirrorInv, NEW r \in numbered, Enqueue(r)
  PROVE  MirrorInv'
<1>1. /\ numbered' = numbered \ {r}
      /\ UNCHANGED <<pool, ip, dying, bus, serving, call, published, stored>>
      /\ reordered' = (reordered \/ \E o \in bus \cup numbered : o.n < r.n)
  BY Zenon DEF Enqueue, active, receiver
<1>2. CASE Lose
  BY <1>1, <1>2, LosesMirrors, Zenon
<1>3. CASE ~ Lose
  <2>1. sendCh' = Append(sendCh, r) /\ lost' = lost
    BY <1>3, Zenon DEF Enqueue
  <2>2. /\ sendCh \in Seq(Request) /\ r \in Request
        /\ Len(sendCh) \in Nat /\ Len(sendCh') = Len(sendCh) + 1
        /\ sendCh'[Len(sendCh) + 1] = r
        /\ \A i \in 1..Len(sendCh) : sendCh'[i] = sendCh[i] /\ sendCh[i].n \in Nat
    <3>1. sendCh \in Seq(Request) /\ r \in Request
      BY Zenon DEF IInv, QueueOK, EventsOK
    <3> QED
      BY <2>1, <3>1, QueuedRequests, AnnouncementParts
  <2>3. \A i \in 1..Len(sendCh') : i \in 1..Len(sendCh) \/ i = Len(sendCh) + 1
    BY <2>2
  <2>4. ActiveInv'
    BY <1>1, ActiveKept, Zenon DEF MirrorInv
  <2>5. ASSUME lost' = 0, ~ reordered' PROVE CopyInv'
    <3>1. CopyInv /\ \A o \in bus \cup numbered : ~ (o.n < r.n)
      BY <1>1, <2>1, <2>5, Zenon DEF MirrorInv
    <3>2. \A o \in bus' \cup numbered' : r.n < o.n
      <4>1. \A o \in bus' \cup numbered' : o.n # r.n /\ o.n \in Nat /\ ~ (o.n < r.n)
        BY <1>1, <3>1, QueuedRequests, AnnouncementParts, EventParts, Zenon
           DEF CopyInv, WaitingInv
      <4> QED
        BY <2>2, <4>1, AnnouncementParts
    <3>3. InFlight' = InFlight
      <4>1. {Announcement(x) : x \in numbered}
              = {Announcement(x) : x \in numbered'} \cup {Announcement(r)}
        BY <1>1, Zenon
      <4>2. {Announcement(sendCh'[i]) : i \in 1..Len(sendCh')}
              = {Announcement(sendCh[i]) : i \in 1..Len(sendCh)} \cup {Announcement(r)}
        BY <2>2, <2>3
      <4> QED
        BY <1>1, <4>1, <4>2, Zenon DEF InFlight
    <3>4. LedgerInv'
      BY <1>1, <3>1, <3>3, LedgerKept, Zenon DEF Announced
    <3>5. WaitingInv'
      BY <1>1, <3>1, Zenon DEF CopyInv, WaitingInv, Waiting
    <3>6. QueueInv'
      <4>1. /\ \A i, j \in 1..Len(sendCh) : i < j => sendCh[i].n < sendCh[j].n
            /\ \A i \in 1..Len(sendCh) : sendCh[i].n <= published
            /\ \A i \in 1..Len(sendCh), o \in bus \cup numbered : sendCh[i].n < o.n
            /\ r.n <= published
        BY <3>1, Zenon DEF CopyInv, WaitingInv, QueueInv, Waiting
      <4>2. \A i, j \in 1..Len(sendCh') : i < j => sendCh'[i].n < sendCh'[j].n
        BY <2>2, <2>3, <4>1
      <4>3. \A i \in 1..Len(sendCh') : sendCh'[i].n <= published
        BY <2>2, <2>3, <4>1, Zenon
      <4>4. \A i \in 1..Len(sendCh'), o \in bus' \cup numbered' : sendCh'[i].n < o.n
        BY <1>1, <2>2, <2>3, <3>2, <4>1, Zenon
      <4> QED
        BY <1>1, <4>2, <4>3, <4>4, Zenon DEF QueueInv, Waiting
    <3>7. ServedInv' /\ NumberedInv'
      BY <1>1, <2>2, <2>3, <3>1, Zenon DEF CopyInv, ServedInv, NumberedInv, Waiting
    <3> QED
      BY <3>4, <3>5, <3>6, <3>7, Zenon DEF CopyInv
  <2> QED
    BY <2>4, <2>5, Zenon DEF MirrorInv
<1> QED
  BY <1>2, <1>3, Zenon

\* Run makes the next call when nothing is served.
LEMMA SyncSessionMirrors ==
  ASSUME IInv, MirrorInv, SyncSession
  PROVE  MirrorInv'
<1> DEFINE r == Head(sendCh)
           h == [r |-> r, pc |-> "number"]
           n == Len(sendCh)
<1>1. /\ call = NoCall /\ sendCh # <<>> /\ sendCh' = Tail(sendCh) /\ call' = r.seq
      /\ serving' = serving \cup {h}
      /\ UNCHANGED <<pool, ip, dying, bus, numbered, published, stored, reordered, lost>>
  BY Zenon DEF SyncSession, active
<1>2. /\ n \in Nat /\ n # 0 /\ r = sendCh[1] /\ Len(sendCh') = n - 1
      /\ \A i \in 1..(n - 1) : sendCh'[i] = sendCh[i + 1]
  <2>1. sendCh \in Seq(Request)
    BY Zenon DEF IInv, QueueOK
  <2> QED
    BY <1>1, <2>1
<1>3. /\ 1 \in 1..n /\ \A i \in 1..(n - 1) : i + 1 \in 1..n /\ 1 < i + 1
      /\ \A i \in 1..n : i = 1 \/ (i - 1 \in 1..(n - 1) /\ i = (i - 1) + 1)
      /\ \A i, j \in 1..(n - 1) : i < j => i + 1 < j + 1
  BY <1>2
<1>4. h.r = r /\ h.pc = "number"
  OBVIOUS
<1>5. ActiveInv'
  BY <1>1, ActiveKept, Zenon DEF MirrorInv
<1> HIDE DEF r, h, n
<1>6. ASSUME lost' = 0, ~ reordered' PROVE CopyInv'
  <2>1. CopyInv
    BY <1>1, <1>6, Zenon DEF MirrorInv
  <2>2. serving = {} /\ serving' = {h}
    BY <1>1, <2>1, Zenon DEF CopyInv, ServedInv
  <2>3. InFlight' = InFlight
    <3>1. {Announcement(sendCh[i]) : i \in 1..n} =
            {Announcement(sendCh'[i]) : i \in 1..(n - 1)} \cup {Announcement(r)}
      BY <1>2, <1>3
    <3>2. {Announcement(g.r) : g \in serving'} = {Announcement(r)}
          /\ {Announcement(g.r) : g \in serving} = {}
      BY <1>4, <2>2, Zenon
    <3> QED
      BY <1>1, <1>2, <3>1, <3>2, Zenon DEF InFlight, n
  <2>4. LedgerInv'
    BY <1>1, <2>1, <2>3, LedgerKept, Zenon DEF Announced
  <2>5. WaitingInv'
    BY <1>1, <2>1, Zenon DEF CopyInv, WaitingInv, Waiting
  <2>6. QueueInv'
    BY <1>1, <1>2, <1>3, <2>1 DEF CopyInv, QueueInv, Waiting, n
  <2>7. ServedInv'
    BY <1>1, <1>2, <1>3, <1>4, <2>1, <2>2, Zenon
       DEF CopyInv, QueueInv, ServedInv, NumberedInv, Waiting, n
  <2>8. NumberedInv'
    BY <1>1, <1>2, <1>3, <2>1 DEF CopyInv, NumberedInv, n
  <2> QED
    BY <2>4, <2>5, <2>6, <2>7, <2>8, Zenon DEF CopyInv
<1> QED
  BY <1>5, <1>6, Zenon DEF MirrorInv

\* The receiver goes on with the request it serves.
LEMMA ServingMoves ==
  ASSUME IInv, CopyInv, NEW h \in serving, NEW g \in Serving, g.r = h.r,
         serving' = (serving \ {h}) \cup {g},
         UNCHANGED <<ip, dying, bus, numbered, sendCh, call, published>>
  PROVE  /\ serving' = {g} /\ InFlight' = InFlight /\ Announced' = Announced
         /\ WaitingInv' /\ QueueInv' /\ NumberedInv'
         /\ (g.pc = "address" => stored'[g.r.s] = AddressOf(g.r)) => ServedInv'
<1>1. serving = {h} /\ serving' = {g}
  BY ServedFirst, Zenon
<1>2. InFlight' = InFlight
  BY <1>1, Zenon DEF InFlight
<1>3. WaitingInv' /\ QueueInv' /\ NumberedInv'
  BY Zenon DEF CopyInv, WaitingInv, QueueInv, NumberedInv, Waiting
<1>4. (g.pc = "address" => stored'[g.r.s] = AddressOf(g.r)) => ServedInv'
  BY <1>1, Zenon DEF CopyInv, ServedInv, Waiting
<1> QED
  BY <1>1, <1>2, <1>3, <1>4, Zenon DEF Announced

\* NoteSequence changes the step of the request only.
LEMMA NoteSequenceMirrors ==
  ASSUME IInv, MirrorInv, NEW h \in serving, NoteSequence(h)
  PROVE  MirrorInv'
<1> DEFINE g == [h EXCEPT !.pc = "store"]
<1>1. /\ serving' = (serving \ {h}) \cup {g}
      /\ UNCHANGED <<pool, ip, dying, bus, numbered, sendCh, call, published, stored,
                     reordered, lost>>
  BY Zenon DEF NoteSequence, active, sender
<1>2. g \in Serving /\ g.r = h.r /\ g.pc # "address"
  BY ServingParts, Zenon DEF IInv, ServingOK, Serving
<1> HIDE DEF g
<1>3. ActiveInv'
  BY <1>1, ActiveKept, Zenon DEF MirrorInv
<1>4. ASSUME lost' = 0, ~ reordered' PROVE CopyInv'
  <2>1. CopyInv
    BY <1>1, <1>4, Zenon DEF MirrorInv
  <2>2. /\ InFlight' = InFlight /\ Announced' = Announced
        /\ WaitingInv' /\ QueueInv' /\ ServedInv' /\ NumberedInv'
    BY <1>1, <1>2, <2>1, ServingMoves, Zenon
  <2>3. LedgerInv'
    BY <1>1, <2>1, <2>2, LedgerKept, Zenon
  <2> QED
    BY <2>2, <2>3, Zenon DEF CopyInv
<1> QED
  BY <1>3, <1>4, Zenon DEF MirrorInv

\* storeCheckpoint stores what the request announces, which is in flight until
\* its address is mirrored as well.
LEMMA storeCheckpointMirrors ==
  ASSUME IInv, MirrorInv, NEW h \in serving, storeCheckpoint(h)
  PROVE  MirrorInv'
<1> DEFINE g == [h EXCEPT !.pc = "address"]
<1>1. /\ serving' = (serving \ {h}) \cup {g}
      /\ stored' = [stored EXCEPT ![h.r.s] = AddressOf(h.r)]
      /\ UNCHANGED <<pool, ip, dying, bus, numbered, sendCh, call, published,
                     reordered, lost>>
  BY Zenon DEF storeCheckpoint, active, sender, AddressOf
<1>2. g \in Serving /\ g.r = h.r
  BY ServingParts, Zenon DEF IInv, ServingOK, Serving
<1> HIDE DEF g
<1>3. ActiveInv'
  BY <1>1, ActiveKept, Zenon DEF MirrorInv
<1>4. /\ h.r.s \in Session /\ stored'[h.r.s] = AddressOf(h.r)
      /\ \A s \in Session : s # h.r.s => stored'[s] = stored[s]
  BY <1>1, ServingParts, Zenon DEF IInv, SessionsOK
<1>5. ASSUME lost' = 0, ~ reordered' PROVE CopyInv'
  <2>1. CopyInv
    BY <1>1, <1>5, Zenon DEF MirrorInv
  <2>2. /\ InFlight' = InFlight /\ Announced' = Announced
        /\ WaitingInv' /\ QueueInv' /\ ServedInv' /\ NumberedInv'
    BY <1>1, <1>2, <1>4, <2>1, ServingMoves, Zenon
  <2>3. \E e \in InFlight : e.s = h.r.s
    BY <2>1, ServedFirst, AnnouncementParts, Zenon
  <2>4. SessionLedger(InFlight, stored', Announced)
    BY <1>4, <2>1, <2>3, Zenon DEF CopyInv, LedgerInv, SessionLedger
  <2>5. AddressLedger(InFlight, pool["standby"].leases, Announced)
    BY <2>1, Zenon DEF CopyInv, LedgerInv
  <2>6. LedgerInv'
    BY <1>1, <2>1, <2>2, <2>4, <2>5, Zenon DEF CopyInv, LedgerInv
  <2> QED
    BY <2>2, <2>6, Zenon DEF CopyInv
<1> QED
  BY <1>3, <1>5, Zenon DEF MirrorInv

\* What mirroring the first announcement does to the leases: a reservation
\* is not refused.
LEMMA MirroredLease ==
  ASSUME IInv, CopyInv, NEW h \in serving
  PROVE  LET e == Announcement(h.r)
             M == mirrorAddress(pool["standby"], h.r).leases
         IN  /\ M[e.ip] = HolderOf(e)
             /\ \A a \in Addr : a # e.ip => M[a] = pool["standby"].leases[a]
<1> DEFINE e == Announcement(h.r)
           p == pool["standby"]
           q == mirrorAddress(p, h.r)
<1>1. /\ h.r \in Request /\ e \in InFlight
      /\ e.ip = h.r.ip /\ e.s = h.r.s /\ e.del = h.r.del
      /\ HolderOf(e) = HolderOf(h.r) /\ h.r.s \in Session /\ h.r.ip \in Address
      /\ \A f \in InFlight : f = e \/ e.n < f.n
  BY ServedFirst, AnnouncementParts, Zenon DEF Announcement
<1>2. p \in Pool /\ p.leases \in [Addr -> Session \cup {Nobody}]
  BY Zenon DEF IInv, PoolsOK, Node, Pool
<1>3. h.r.ip # NoAddr /\ h.r.ip \in Addr
  BY <1>1, RealAddress, Zenon DEF CopyInv, LedgerInv
<1>4. CASE h.r.del
  <2>1. q = Release(p, h.r.ip) /\ HolderOf(h.r) = Nobody
    BY <1>3, <1>4, Zenon DEF mirrorAddress, HolderOf
  <2> HIDE DEF e, p, q
  <2>2. q.leases = [p.leases EXCEPT ![h.r.ip] = Nobody]
    BY <1>2, <1>3, <2>1, ReleaseLease, Zenon
  <2> QED
    BY <1>1, <1>2, <1>3, <2>1, <2>2, Zenon DEF e, p, q
<1>5. CASE ~ h.r.del
  <2>1. q = Reserve(p, h.r.ip, h.r.s) /\ HolderOf(h.r) = h.r.s
    BY <1>3, <1>5, Zenon DEF mirrorAddress, HolderOf
  <2>2. e.n \in Nat /\ \A f \in InFlight : f.n \in Nat
    BY <1>1, InFlightType, EventParts, Zenon
  <2> HIDE DEF e
  <2>3. \A f \in InFlight : e.n <= f.n
    BY <1>1, <2>2
  <2>4. p.leases[e.ip] \in {Nobody, e.s}
    BY <1>1, <1>5, <2>3, Zenon DEF CopyInv, LedgerInv, AddressLedger
  <2> HIDE DEF p, q
  <2>5. q.leases = [p.leases EXCEPT ![h.r.ip] = h.r.s]
    BY <1>1, <1>2, <1>3, <2>1, <2>4, ReserveLease DEF CanReserve
  <2> QED
    BY <1>1, <1>2, <1>3, <2>1, <2>5, Zenon DEF e, p, q
<1> QED
  BY <1>4, <1>5, Zenon

\* MirrorAndReply finishes with the first announcement.
LEMMA MirrorAndReplyMirrors ==
  ASSUME IInv, MirrorInv, NEW h \in serving, MirrorAndReply(h)
  PROVE  MirrorInv'
<1> DEFINE e == Announcement(h.r)
           q == mirrorAddress(pool["standby"], h.r)
<1>1. /\ h.pc = "address" /\ pool' = [pool EXCEPT !["standby"] = q]
      /\ serving' = serving \ {h}
      /\ UNCHANGED <<ip, dying, bus, numbered, sendCh, published, stored, reordered, lost>>
  BY Zenon DEF MirrorAndReply
<1>2. pool'["standby"] = q /\ pool'["active"] = pool["active"]
  BY <1>1, Zenon DEF IInv, PoolsOK, Node
<1>3. ActiveInv'
  BY <1>1, <1>2, ActiveKept, Zenon DEF MirrorInv
<1> HIDE DEF q
<1>4. ASSUME lost' = 0, ~ reordered' PROVE CopyInv'
  <2>1. CopyInv
    BY <1>1, <1>4, Zenon DEF MirrorInv
  <2>2. /\ serving' = {} /\ h.r \in Request /\ e \in InFlight
        /\ \A f \in InFlight : f = e \/ e.n < f.n
    BY <1>1, <2>1, ServedFirst, Zenon
  <2>3. e.s = h.r.s /\ e.n = h.r.n /\ AddressOf(e) = AddressOf(h.r) /\ e.n \in Nat
    BY <2>2, AnnouncementParts, Zenon
  <2> HIDE DEF e
  <2>4. InFlight' = InFlight \ {e}
    <3>1. /\ \A x \in bus \cup numbered : e.n < x.n
          /\ \A i \in 1..Len(sendCh) : e.n < sendCh[i].n
      BY <2>1, <2>3, Zenon DEF CopyInv, ServedInv, Waiting
    <3>2. /\ \A x \in bus : x # e
          /\ \A x \in numbered : Announcement(x).n = x.n
          /\ \A i \in 1..Len(sendCh) : Announcement(sendCh[i]).n = sendCh[i].n
      BY <2>3, <3>1, QueuedRequests, AnnouncementParts
    <3>3. /\ \A x \in numbered : Announcement(x) # e
          /\ \A i \in 1..Len(sendCh) : Announcement(sendCh[i]) # e
      BY <2>3, <3>1, <3>2
    <3>4. /\ {Announcement(g.r) : g \in serving} = {e}
          /\ {Announcement(g.r) : g \in serving'} = {}
      BY <2>1, <2>2, ServedFirst, Zenon DEF e
    <3> QED
      BY <1>1, <3>2, <3>3, <3>4, Zenon DEF InFlight
  <2>5. stored[e.s] = AddressOf(e)
    BY <1>1, <2>1, <2>3, Zenon DEF CopyInv, ServedInv
  <2>6. Announced' = Announced /\ InFlight \in SUBSET Event
    BY <1>1, InFlightType, Zenon DEF Announced
  <2>7. SessionLedger(InFlight', stored', Announced')
    BY <1>1, <2>1, <2>2, <2>4, <2>5, <2>6, SessionLedgerDrops, Zenon
       DEF CopyInv, LedgerInv
  <2>8. AddressLedger(InFlight', pool'["standby"].leases, Announced')
    <3>1. /\ q.leases[e.ip] = HolderOf(e)
          /\ \A a \in Addr : a # e.ip => q.leases[a] = pool["standby"].leases[a]
      BY <2>1, MirroredLease, Zenon DEF e, q
    <3>2. /\ AddressLedger(InFlight, pool["standby"].leases, Announced)
          /\ \A f \in InFlight : f.ip # NoAddr
      BY <2>1, Zenon DEF CopyInv, LedgerInv
    <3>3. AddressLedger(InFlight \ {e}, q.leases, Announced)
      BY <2>2, <2>6, <3>1, <3>2, AddressLedgerDrops
    <3> QED
      BY <1>2, <2>4, <2>6, <3>3, Zenon
  <2>9. LedgerInv'
    BY <2>1, <2>4, <2>6, <2>7, <2>8, Zenon DEF CopyInv, LedgerInv
  <2>10. WaitingInv' /\ QueueInv' /\ ServedInv' /\ NumberedInv'
    BY <1>1, <2>1, <2>2, Zenon
       DEF CopyInv, WaitingInv, QueueInv, ServedInv, NumberedInv, Waiting
  <2> QED
    BY <2>9, <2>10, Zenon DEF CopyInv
<1> QED
  BY <1>3, <1>4, Zenon DEF MirrorInv

\* Initially nothing is announced, stored or leased.
LEMMA InitMirrors == Init => MirrorInv
<1> SUFFICES ASSUME Init PROVE MirrorInv
  OBVIOUS
<1>1. /\ \A x \in Node : pool[x].leases = [a \in Addr |-> Nobody]
      /\ \A s \in Session : ip[s] = NoAddr /\ dying[s] = NoAddr /\ stored[s] = NoAddr
      /\ bus = {} /\ numbered = {} /\ sendCh = <<>> /\ serving = {}
  BY Zenon DEF Init, NewPoolAllocator
<1>2. NoAddr \notin Addr
  BY AddrAssumption DEF Addr
<1>3. ActiveInv
  BY <1>1, <1>2, NobodyAssumption, Zenon DEF ActiveInv, Node
<1>4. InFlight = {} /\ \A s \in Session : Announced[s] = NoAddr
  BY <1>1 DEF InFlight, Announced
<1>5. SessionLedger(InFlight, stored, Announced)
  BY <1>1, <1>4, Zenon DEF SessionLedger
<1>6. AddressLedger(InFlight, pool["standby"].leases, Announced)
  <2>1. \A a \in Addr : Holds(Announced, a, pool["standby"].leases[a])
    BY <1>1, <1>2, <1>4, Zenon DEF Holds, Node
  <2> QED
    BY <1>4, <2>1, Zenon DEF AddressLedger
<1>7. LedgerInv
  BY <1>4, <1>5, <1>6, Zenon DEF LedgerInv
<1>8. WaitingInv /\ QueueInv /\ ServedInv /\ NumberedInv
  BY <1>1 DEF WaitingInv, QueueInv, ServedInv, NumberedInv, Waiting
<1> QED
  BY <1>3, <1>7, <1>8, Zenon DEF MirrorInv, CopyInv

\* A new direction of a pool leaves its leases as they are.
LEMMA SetAllocDirectionMirrors ==
  ASSUME IInv, MirrorInv, NEW x \in Turning, NEW asc \in BOOLEAN, SetAllocDirection(x, asc)
  PROVE  MirrorInv'
<1>1. /\ pool' = [pool EXCEPT ![x] = SetDirection(pool[x], asc)]
      /\ UNCHANGED <<ip, dying, bus, numbered, sendCh, serving, call, published, stored,
                     reordered, lost>>
  BY Zenon DEF SetAllocDirection, sender, receiver
<1>2. pool \in [Node -> Pool] /\ x \in Node
  BY SyncAssumption, Zenon DEF IInv, PoolsOK, Node
<1>3. \A y \in Node : pool'[y].leases = pool[y].leases
  BY <1>1, <1>2, SetDirectionLease, Zenon
<1> QED
  BY <1>1, <1>3, QuietMirrors, Zenon

\* Every step keeps the invariant, with IPoE sessions only.
LEMMA NextMirrors == PPPoE = {} /\ IInv /\ MirrorInv /\ [Next]_vars => MirrorInv'
<1> SUFFICES ASSUME PPPoE = {}, IInv, MirrorInv, [Next]_vars PROVE MirrorInv'
  OBVIOUS
<1>1. ASSUME \/ \E e \in bus : IgnoreEvent(e)
             \/ SyncSessionFails \/ CallTimesOut
             \/ \E h \in serving : StoreFails(h)
      PROVE  MirrorInv'
  BY <1>1, LosesMirrors, Zenon
     DEF IgnoreEvent, SyncSessionFails, CallTimesOut, StoreFails, active
<1>2. ASSUME (\E v \in BOOLEAN : SetActive(v)) \/ UNCHANGED vars PROVE MirrorInv'
  BY <1>2, QuietMirrors, Zenon DEF SetActive, active, receiver, vars
<1> QED
  BY <1>1, <1>2, SessionUpMirrors, SessionMutatedMirrors, SessionDownMirrors,
     SessionReleasedMirrors, HandleEventMirrors, EnqueueMirrors, SyncSessionMirrors,
     NoteSequenceMirrors, storeCheckpointMirrors, MirrorAndReplyMirrors,
     SetAllocDirectionMirrors, Zenon DEF Next

\* Nothing in flight: the ledgers compare the standby with the active node.
LEMMA MirrorMeaning == IInv /\ MirrorInv => StandbyMirrors
<1> SUFFICES ASSUME IInv, MirrorInv, Quiet, lost = 0, ~ reordered
             PROVE  stored = ip /\ pool["standby"].leases = pool["active"].leases
  BY Zenon DEF StandbyMirrors
<1> DEFINE L == pool["standby"].leases
           K == pool["active"].leases
<1>1. CopyInv /\ ActiveInv
  BY Zenon DEF MirrorInv
<1>2. InFlight = {} /\ \A s \in Session : Announced[s] = ip[s]
  BY DEF Quiet, InFlight, Announced
<1>3. stored = ip
  <2>1. \A s \in Session : stored[s] = ip[s]
    BY <1>1, <1>2, Zenon DEF CopyInv, LedgerInv, SessionLedger
  <2> QED
    BY <2>1 DEF IInv, SessionsOK
<1>4. L \in [Addr -> Session \cup {Nobody}] /\ K \in [Addr -> Session \cup {Nobody}]
  BY Zenon DEF IInv, PoolsOK, Node, Pool
<1>5. \A a \in Addr : Holds(ip, a, L[a])
  <2>1. \A a \in Addr : Holds(Announced, a, L[a])
    BY <1>1, <1>2, Zenon DEF CopyInv, LedgerInv, AddressLedger
  <2> QED
    BY <1>2, <2>1, HoldsKept, Zenon
<1>6. \A s \in Session, a \in Addr : K[a] = s <=> ip[s] = a
  BY <1>1, Zenon DEF ActiveInv
<1> HIDE DEF L, K
<1>7. \A a \in Addr : L[a] = K[a]
  BY <1>4, <1>5, <1>6, NobodyAssumption DEF Holds
<1>8. L = K
  BY <1>4, <1>7
<1> QED
  BY <1>3, <1>8, Zenon DEF L, K

\* HASync with IPoE sessions only: in every reachable state in which nothing is
\* in flight, if nothing was lost and nothing overtook an older event, the
\* standby has the same sessions with the same addresses and the same leases
\* (sync.go, sync_receiver.go).
THEOREM MirrorCorrect == PPPoE = {} => (Spec => []StandbyMirrors)
<1> SUFFICES ASSUME PPPoE = {} PROVE Spec => []StandbyMirrors
  OBVIOUS
<1>1. IInv /\ MirrorInv /\ [Next]_vars => IInv' /\ MirrorInv'
  BY NextOK, NextMirrors, Zenon
<1> QED
  BY InitOK, InitMirrors, <1>1, MirrorMeaning, PTL DEF Spec
=============================================================================
