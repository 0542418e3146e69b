------------------------------- MODULE HASync -------------------------------
(***************************************************************************)
(* Replication of subscriber sessions from the ACTIVE node of an SRG to    *)
(* its STANDBY: sessions of internal/ipoe and internal/pppoe take and give *)
(* back addresses, the event bus runs a goroutine per event, SyncSender    *)
(* numbers and queues requests (sync.go), and SyncReceiver stores the      *)
(* checkpoint and mirrors the address in its own pool (sync_receiver.go).  *)
(*                                                                         *)
(* Roles do not change here (see HANode).  The backlog is written but only *)
(* BulkSync reads it, which nothing calls for sessions.                    *)
(***************************************************************************)
EXTENDS AddressPool

CONSTANTS
  PPPoE,       \* the sessions that are PPPoE sessions
  Static,      \* addresses AAA may assign
  Turning,     \* bound: the nodes whose allocation direction changes
  ChanCap,     \* capacity of sendCh, 1024 in the code
  MaxPublished,\* bound: events published
  MaxLost      \* bound: requests lost, calls timed out, stores failed

ASSUME SyncAssumption ==
  /\ PPPoE \subseteq Session /\ Static \subseteq Addr
  /\ Turning \subseteq {"active", "standby"}
  /\ ChanCap \in Nat \ {0} /\ MaxPublished \in Nat /\ MaxLost \in Nat

Node == {"active", "standby"}
NoAddr == 0
NoCall == 0

VARIABLES
  pool,      \* each node's address pool
  ip,        \* address of each session of the active node
  dying,     \* address of a session that was released and not yet announced
  sending,   \* SyncSender.active
  bus,       \* events whose HandleEvent goroutine has not started
  numbered,  \* requests numbered and not yet put on sendCh
  sendCh,    \* SyncSender.sendCh
  seq,       \* last sequence number given out
  call,      \* sequence number of the call SyncSender.Run waits for
  serving,   \* HandleSyncSession calls in progress: request and next step
  stored,    \* address in each session's checkpoint on the standby
  lastSeq,   \* last sequence number the standby has seen
  published, \* events published so far
  reordered, \* history: some request overtook an older one
  lost       \* history: requests, calls and stores that failed

active == <<pool, ip, dying>>
sender == <<sending, bus, numbered, sendCh, seq, call, published>>
receiver == <<serving, stored, lastSeq>>
vars == <<pool, ip, dying, sending, bus, numbered, sendCh, seq, call, serving, stored,
          lastSeq, published, reordered, lost>>

Address == Addr \cup {NoAddr}
Event == [n : Nat, s : Session, ip : Address, del : BOOLEAN]
Request == [n : Nat, s : Session, ip : Address, del : BOOLEAN, seq : Nat]

\* Types of the pools, sessions, events, requests and calls.
TypeOK ==
  /\ pool \in [Node -> Pool]
  /\ ip \in [Session -> Address] /\ dying \in [Session -> Address]
  /\ sending \in BOOLEAN
  /\ bus \subseteq Event /\ numbered \subseteq Request
  /\ sendCh \in Seq(Request) /\ Len(sendCh) <= ChanCap
  /\ seq \in Nat /\ call \in Nat /\ lastSeq \in Nat /\ published \in 0..MaxPublished
  /\ serving \subseteq [r : Request, pc : {"number", "store", "address"}]
  /\ stored \in [Session -> Address]
  /\ reordered \in BOOLEAN /\ lost \in 0..MaxLost

Init ==
  /\ pool = [x \in Node |-> NewPoolAllocator]
  /\ ip = [s \in Session |-> NoAddr] /\ dying = [s \in Session |-> NoAddr]
  /\ sending = FALSE /\ bus = {} /\ numbered = {} /\ sendCh = <<>>
  /\ seq = 0 /\ call = NoCall /\ lastSeq = 0 /\ published = 0
  /\ serving = {}
  /\ stored = [s \in Session |-> NoAddr]
  /\ reordered = FALSE /\ lost = 0

-----------------------------------------------------------------------------
(* Sessions of the active node. *)

Lose == lost < MaxLost /\ lost' = lost + 1

\* The bus may be full (10000 events) and drop the event.
Publish(s, a, del) ==
  /\ published < MaxPublished
  /\ published' = published + 1
  /\ \/ bus' = bus \cup {[n |-> published + 1, s |-> s, ip |-> a, del |-> del]}
        /\ UNCHANGED lost
     \/ Lose /\ UNCHANGED bus

\* ResolveV4 or startNCP gives the session an address, from the pool or the
\* one AAA assigned, and the session is announced when it is up.
SessionUp(s, a) ==
  LET p == pool["active"]
      fromPool == a = NoAddr
      got == IF fromPool THEN NextAddr(p) ELSE a
  IN  /\ ip[s] = NoAddr /\ dying[s] = NoAddr
      /\ IF fromPool THEN CanAllocate(p) ELSE CanReserve(p, a, s)
      /\ pool' = [pool EXCEPT !["active"] =
                    IF fromPool THEN Allocate(p, s) ELSE Reserve(p, a, s)]
      /\ ip' = [ip EXCEPT ![s] = got]
      /\ Publish(s, got, FALSE)
      /\ reordered' = (reordered \/ \E t \in Session : dying[t] = got)
      /\ UNCHANGED <<dying, sending, numbered, sendCh, seq, call, receiver>>

\* A change of a live session (TopicSubscriberMutationResult).
SessionMutated(s) ==
  /\ ip[s] # NoAddr
  /\ Publish(s, ip[s], FALSE)
  /\ UNCHANGED <<active, sending, numbered, sendCh, seq, call, receiver, reordered>>

\* handleRelease and terminate give the address back first ...
SessionDown(s) ==
  /\ ip[s] # NoAddr
  /\ pool' = [pool EXCEPT !["active"] = Release(@, ip[s])]
  /\ dying' = [dying EXCEPT ![s] = ip[s]]
  /\ ip' = [ip EXCEPT ![s] = NoAddr]
  /\ UNCHANGED <<sender, receiver, reordered, lost>>

\* ... and announce the end later: an IPoE session with its IPv4 address, a
\* PPPoE session without.
SessionReleased(s) ==
  /\ dying[s] # NoAddr
  /\ Publish(s, IF s \in PPPoE THEN NoAddr ELSE dying[s], TRUE)
  /\ dying' = [dying EXCEPT ![s] = NoAddr]
  /\ UNCHANGED <<pool, ip, sending, numbered, sendCh, seq, call, receiver, reordered>>

-----------------------------------------------------------------------------
(* SyncSender. *)

\* driveSync turns the sender on and off with the SRG's role.
SetActive(v) ==
  /\ sending # v /\ (~ v => lost < MaxLost)
  /\ sending' = v
  /\ UNCHANGED <<active, bus, numbered, sendCh, seq, call, published, receiver,
                 reordered, lost>>

\* HandleEvent and HandleMutationResult run on a goroutine of their own.  An
\* inactive sender ignores the event ...
IgnoreEvent(e) ==
  /\ ~ sending /\ bus' = bus \ {e} /\ Lose
  /\ UNCHANGED <<active, sending, numbered, sendCh, seq, call, published, receiver,
                 reordered>>

\* ... an active one gives it a sequence number ...
HandleEvent(e) ==
  /\ sending
  /\ bus' = bus \ {e}
  /\ seq' = seq + 1
  /\ numbered' = numbered \cup
       {[n |-> e.n, s |-> e.s, ip |-> e.ip, del |-> e.del, seq |-> seq + 1]}
  /\ UNCHANGED <<active, sending, sendCh, call, published, receiver, reordered, lost>>

\* (mutant) the queue grows without bound
EnqueueUnbounded(r) ==
  /\ numbered' = numbered \ {r}
  /\ reordered' = (reordered \/ \E o \in bus \cup numbered : o.n < r.n)
  /\ sendCh' = Append(sendCh, r)
  /\ UNCHANGED <<active, sending, bus, seq, call, published, receiver, lost>>

\* ... and the queue, which drops the request when it is full.
Enqueue(r) ==
  /\ numbered' = numbered \ {r}
  /\ reordered' = (reordered \/ \E o \in bus \cup numbered : o.n < r.n)
  /\ IF Len(sendCh) < ChanCap
     THEN sendCh' = Append(sendCh, r) /\ UNCHANGED lost
     ELSE Lose /\ UNCHANGED sendCh
  /\ UNCHANGED <<active, sending, bus, seq, call, published, receiver>>

\* Run takes the next request and calls the peer, one call at a time.
SyncSession ==
  /\ sending /\ call = NoCall /\ sendCh # <<>>
  /\ sendCh' = Tail(sendCh)
  /\ call' = Head(sendCh).seq
  /\ serving' = serving \cup {[r |-> Head(sendCh), pc |-> "number"]}
  /\ UNCHANGED <<active, sending, bus, numbered, seq, published, stored, lastSeq, reordered, lost>>

\* The call fails before it reaches the peer, or the sender is inactive and
\* makes none: the request is gone.
SyncSessionFails ==
  /\ call = NoCall /\ sendCh # <<>>
  /\ sendCh' = Tail(sendCh)
  /\ Lose
  /\ UNCHANGED <<active, sending, bus, numbered, seq, call, published, receiver, reordered>>

\* The call times out; the peer may still be serving it.
CallTimesOut ==
  /\ call # NoCall /\ call' = NoCall
  /\ Lose
  /\ UNCHANGED <<active, sending, bus, numbered, sendCh, seq, published, receiver, reordered>>

-----------------------------------------------------------------------------
(* SyncReceiver.  HandleSyncSession holds its lock for the number only. *)

NoteSequence(h) ==
  /\ h.pc = "number"
  /\ lastSeq' = h.r.seq
  /\ serving' = (serving \ {h}) \cup {[h EXCEPT !.pc = "store"]}
  /\ UNCHANGED <<active, sender, stored, reordered, lost>>

storeCheckpoint(h) ==
  /\ h.pc = "store"
  /\ stored' = [stored EXCEPT ![h.r.s] = IF h.r.del THEN NoAddr ELSE h.r.ip]
  /\ serving' = (serving \ {h}) \cup {[h EXCEPT !.pc = "address"]}
  /\ UNCHANGED <<active, sender, lastSeq, reordered, lost>>

StoreFails(h) ==
  /\ h.pc = "store"
  /\ serving' = serving \ {h}
  /\ call' = IF call = h.r.seq THEN NoCall ELSE call
  /\ Lose
  /\ UNCHANGED <<active, sending, bus, numbered, sendCh, seq, published, stored, lastSeq, reordered>>

\* (mutant) a released session keeps its address on the standby
mirrorAddressKeeps(p, r) == IF r.ip = NoAddr \/ r.del THEN p ELSE Reserve(p, r.ip, r.s)

\* reserveAddresses or releaseAddresses; a refusal is only logged.
mirrorAddress(p, r) ==
  IF r.ip = NoAddr THEN p
  ELSE IF r.del THEN Release(p, r.ip) ELSE Reserve(p, r.ip, r.s)

MirrorAndReply(h) ==
  /\ h.pc = "address"
  /\ pool' = [pool EXCEPT !["standby"] = mirrorAddress(@, h.r)]
  /\ serving' = serving \ {h}
  /\ call' = IF call = h.r.seq THEN NoCall ELSE call
  /\ UNCHANGED <<ip, dying, sending, bus, numbered, sendCh, seq, published, stored, lastSeq,
                 reordered, lost>>

\* driveSync sets the direction of a node's pools after its election.
SetAllocDirection(x, asc) ==
  /\ pool[x].asc # asc
  /\ pool' = [pool EXCEPT ![x] = SetDirection(@, asc)]
  /\ UNCHANGED <<ip, dying, sender, receiver, reordered, lost>>

Next ==
  \/ \E s \in Session : \/ \E a \in Static \cup {NoAddr} : SessionUp(s, a)
                        \/ SessionMutated(s) \/ SessionDown(s) \/ SessionReleased(s)
  \/ \E v \in BOOLEAN : SetActive(v)
  \/ \E e \in bus : HandleEvent(e) \/ IgnoreEvent(e)
  \/ \E r \in numbered : Enqueue(r)
  \/ SyncSession \/ SyncSessionFails \/ CallTimesOut
  \/ \E h \in serving : NoteSequence(h) \/ storeCheckpoint(h) \/ StoreFails(h)
                        \/ MirrorAndReply(h)
  \/ \E x \in Turning, asc \in BOOLEAN : SetAllocDirection(x, asc)

Spec == Init /\ [][Next]_vars

-----------------------------------------------------------------------------
\* Both nodes' pools hand nothing out twice and lose nothing, whatever order
\* allocations, releases and replicated reservations come in.
PoolsConserved == \A x \in Node : Conserved(pool[x])

Quiet ==
  /\ bus = {} /\ numbered = {} /\ sendCh = <<>> /\ serving = {}
  /\ \A s \in Session : dying[s] = NoAddr

\* When no request was lost and none overtook an older one, the standby is an
\* exact copy once everything sent has been served: the same sessions with
\* the same addresses, leased to the same sessions in its own pool.
StandbyMirrors ==
  Quiet /\ lost = 0 /\ ~ reordered
    => stored = ip /\ pool["standby"].leases = pool["active"].leases
=============================================================================
