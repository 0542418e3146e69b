-------------------------------- MODULE CGNAT --------------------------------
(***************************************************************************)
(* The CGNAT component, internal/cgnat/component.go: it gives every        *)
(* session a block of outside ports when the access components announce    *)
(* it, takes it back at the release, keeps the mapping in the operational  *)
(* database, and reprograms VPP after a restart of osvbngd or of VPP.      *)
(*                                                                         *)
(* The event bus runs every handler in a goroutine of its own, and VPP     *)
(* requests go through 64 workers: neither keeps any order.  A handler is  *)
(* split where another goroutine can see the difference; Start runs in     *)
(* one goroutine, phase by phase.  All sessions are of the port-block      *)
(* kind; bypass, deterministic pools and mappings synced from an HA peer   *)
(* are left out.                                                           *)
(*                                                                         *)
(* The code promises nothing when handlers of one address overlap or a     *)
(* request fails, so the model remembers in "odd" the addresses on which   *)
(* one of these happened: an activation or a release that overlaps other   *)
(* work on the address, comes after the end of the session or before its   *)
(* start, or finds the pool empty; a release without address; an event     *)
(* that is lost and not made good by the scan; a request, a restore or a   *)
(* bulk entry that fails; a crash of VPP in the middle of a handler; a     *)
(* restart that leaves VPP with a mapping the records do not have.  A      *)
(* restart together with VPP starts afresh.                                *)
(***************************************************************************)
EXTENDS CGNATPool, FiniteSets, FiniteSetsExt

CONSTANTS
    Sessions,    \* session IDs, each used once
    NoIP,
    QueueBound,  \* eventQueueBound, 4096 in the code
    MaxFault     \* restarts of osvbngd, crashes of VPP and failed requests

ASSUME NoIPAssumption == NoIP \notin IPs

VARIABLES
    sess,         \* access components: state and inside address of a session
    bus,          \* events published and not handled
    phase,        \* where Start is
    pending,      \* c.pendingEvents
    todo,         \* events that drainQueue has taken and not dispatched
    orphans,      \* restoreFromOpDB: sessions whose records it will delete
    scan,         \* sessions scanNonPBASessions has still to visit
    activations,  \* c.activations
    poolMap,      \* sessions with an entry in c.sessionPoolMap
    pool,         \* c.pools
    reverse,      \* c.reverse
    opdb,         \* the block in the session's cgnat_mappings record
    vpp,          \* the block VPP translates an inside address to
    vppUp,
    wire,         \* requests on their way to VPP
    procs,        \* handlers under way
    recover,      \* RecoverDataplane: under way, with the mappings it loaded
    odd,          \* addresses on which something went out of the ordinary
    clash,        \* two live sessions had the same block on record at a restart
    faults

start   == <<phase, todo, orphans, scan>>
tables  == <<activations, poolMap, pool, reverse>>
south   == <<vpp, vppUp, wire>>
vars    == <<sess, bus, pending, start, tables, opdb, south, procs,
             recover, odd, clash, faults>>

-----------------------------------------------------------------------------

ip(s) == sess[s].ip
live  == {s \in Sessions : sess[s].st \in {"up", "restored", "failed"}}
Event == [kind: {"programmed", "restored", "released", "ended"}, s: Sessions]
Request == [add: BOOLEAN, s: Sessions, b: Blocks]

Idle == [on |-> FALSE, load |-> {}]

Init ==
    /\ sess = [s \in Sessions |-> [st |-> "new", ip |-> NoIP]]
    /\ bus = {} /\ pending = <<>>
    /\ phase = "off" /\ todo = <<>>
    /\ orphans = {} /\ scan = {}
    /\ activations = {} /\ poolMap = {} /\ pool = ConfigurePool /\ reverse = NoReverse
    /\ opdb = [s \in Sessions |-> NoBlock]
    /\ vpp = [i \in IPs |-> NoBlock] /\ vppUp = TRUE
    /\ wire = {} /\ procs = {}
    /\ recover = Idle /\ odd = {}
    /\ clash = FALSE /\ faults = 0

-----------------------------------------------------------------------------
(* The access components and the subscriber cache.                         *)

SessionUp(s, i) ==
    /\ sess[s].st = "new"
    /\ \A t \in live : ip(t) # i
    /\ sess' = [sess EXCEPT ![s] = [st |-> "up", ip |-> i]]
    /\ bus' = bus \cup {[kind |-> "programmed", s |-> s]}
    /\ UNCHANGED <<pending, start, tables, opdb, south, procs, recover, odd, clash, faults>>

\* The address is back in its pool before the event is published.  The event
\* of an IPoE session carries it; that of a PPPoE session ("ended") does not.
SessionDown(s, kind) ==
    /\ s \in live
    /\ sess' = [sess EXCEPT ![s].st = "down"]
    /\ bus' = bus \cup {[kind |-> kind, s |-> s]}
    /\ UNCHANGED <<pending, start, tables, opdb, south, procs, recover, odd, clash, faults>>

\* What the subscriber cache may hold: it follows the lifecycle events in its
\* own time, but a restored session is put there by the restore itself.
Caches == {c \in SUBSET Sessions :
             /\ {s \in Sessions : sess[s].st = "restored"} \subseteq c
             /\ \A s \in c : sess[s].st \in {"up", "restored", "down"}}

-----------------------------------------------------------------------------
(* Activation and release.                                                 *)

\* Some handler or request of address i is under way, or another session
\* than s still has it.
busy(s, i) ==
    \/ \E t \in activations : ip(t) = i
    \/ \E p \in procs : ip(p.s) = i
    \/ \E q \in wire : ip(q.s) = i
    \/ \E t \in poolMap \ {s} : ip(t) = i

\* Mutant: the session is not looked up, and a fresh block allocated.
handleSessionActivateAnew(s, by) ==
    IF s \in activations \/ freeBlocks(pool) = {}
    THEN UNCHANGED <<tables, wire, procs, odd>>
    ELSE LET b == allocateBlock(pool)
         IN  /\ pool' = [bits |-> pool.bits \cup {b}, subs |-> [pool.subs EXCEPT ![ip(s)] = <<b>>]]
             /\ activations' = activations \cup {s}
             /\ wire' = wire \cup {[add |-> TRUE, s |-> s, b |-> b]}
             /\ odd' = IF busy(s, ip(s)) \/ s \notin live THEN odd \cup {ip(s)} ELSE odd
             /\ UNCHANGED <<poolMap, reverse, procs>>

\* beginActivation and GetOrAllocate; then the request to VPP, or at once the
\* commit of the block the subscriber has.  by: who runs the handler.
handleSessionActivate(s, by) ==
    IF s \in poolMap \cup activations
    THEN UNCHANGED <<tables, wire, procs, odd>>
    ELSE LET got == GetOrAllocate(pool, ip(s))
         IN  /\ pool' = got.pool
             /\ activations' = IF got.block = NoBlock THEN activations ELSE activations \cup {s}
             /\ wire' = IF got.isNew THEN wire \cup {[add |-> TRUE, s |-> s, b |-> got.block]} ELSE wire
             /\ procs' = IF got.isNew \/ got.block = NoBlock THEN procs
                         ELSE procs \cup {[at |-> "map", s |-> s, b |-> got.block, persist |-> FALSE, by |-> by]}
             /\ odd' = IF busy(s, ip(s)) \/ s \notin live \/ got.block = NoBlock
                       THEN odd \cup {ip(s)} ELSE odd
             /\ UNCHANGED <<poolMap, reverse>>

\* Nothing is released for an event without address.  Otherwise the requests
\* to VPP and the reverse index come first.
handleSessionRelease(e, by) ==
    LET s == e.s
        found == GetMappings(pool, ip(s))
        skip == e.kind = "ended" \/ s \notin poolMap
    IN
    /\ odd' = IF skip \/ busy(s, ip(s)) \/ ~vppUp \/ recover.on THEN odd \cup {ip(s)} ELSE odd
    /\ IF skip
       THEN UNCHANGED <<poolMap, reverse, wire, procs>>
       ELSE IF found = {}
       THEN poolMap' = poolMap \ {s} /\ UNCHANGED <<reverse, wire, procs>>
       ELSE /\ wire' = wire \cup {[add |-> FALSE, s |-> s, b |-> b] : b \in found}
            /\ reverse' = FoldSet(LAMBDA b, r : reverseRemove(r, b), reverse, found)
            /\ procs' = procs \cup {[at |-> "free", s |-> s, b |-> NoBlock, persist |-> FALSE, by |-> by]}
            /\ UNCHANGED poolMap
    /\ UNCHANGED <<activations, pool>>

opens(e) == e.kind \in {"programmed", "restored"}

dispatch(e, by) == IF opens(e) THEN handleSessionActivate(e.s, by) ELSE handleSessionRelease(e, by)

\* An event that is dispatched before Start subscribed is lost.
EventLost(e) ==
    /\ phase = "off"
    /\ bus' = bus \ {e}
    /\ odd' = IF opens(e) THEN odd ELSE odd \cup {ip(e.s)}
    /\ UNCHANGED <<sess, pending, start, tables, opdb, south, procs, recover, clash, faults>>

\* Mutant: the bound is off by one.
maybeEnqueueOneMore(e) ==
    /\ phase \in {"restore", "scan"}
    /\ bus' = bus \ {e}
    /\ IF Len(pending) > QueueBound
       THEN odd' = odd \cup {ip(e.s)} /\ UNCHANGED pending
       ELSE pending' = Append(pending, e) /\ UNCHANGED odd
    /\ UNCHANGED <<sess, start, tables, opdb, south, procs, recover, clash, faults>>

\* Past the bound an event is dropped; restoreFromOpDB may still find the
\* session in the cache.
maybeEnqueue(e) ==
    /\ phase \in {"restore", "scan"}
    /\ bus' = bus \ {e}
    /\ IF Len(pending) >= QueueBound
       THEN /\ odd' = IF opens(e) /\ phase = "restore" THEN odd ELSE odd \cup {ip(e.s)}
            /\ UNCHANGED pending
       ELSE pending' = Append(pending, e) /\ UNCHANGED odd
    /\ UNCHANGED <<sess, start, tables, opdb, south, procs, recover, clash, faults>>

HandleEvent(e) ==
    /\ phase \in {"drain", "ready"}
    /\ bus' = bus \ {e}
    /\ dispatch(e, "bus")
    /\ UNCHANGED <<sess, pending, start, opdb, vpp, vppUp, recover, clash, faults>>

step(p, at) == procs' = (procs \ {p}) \cup {[p EXCEPT !.at = at]}

\* commitMapping up to the unlock, and the rest with done().
CommitMap(p) ==
    /\ p.at = "map"
    /\ poolMap' = poolMap \cup {p.s}
    /\ step(p, "commit")
    /\ UNCHANGED <<sess, bus, pending, start, activations, pool, reverse, opdb, south, recover, odd, clash, faults>>

Commit(p) ==
    /\ p.at = "commit"
    /\ reverse' = reverseAdd(reverse, p.b, p.s)
    /\ opdb' = IF p.persist THEN [opdb EXCEPT ![p.s] = p.b] ELSE opdb
    /\ activations' = activations \ {p.s}
    /\ procs' = procs \ {p}
    /\ UNCHANGED <<sess, bus, pending, start, poolMap, pool, south, recover, odd, clash, faults>>

\* Mutant: done() is forgotten.
UndoNotDone(p) ==
    /\ p.at = "undo"
    /\ pool' = ReleaseBlocks(pool, ip(p.s))
    /\ procs' = procs \ {p}
    /\ UNCHANGED <<sess, bus, pending, start, activations, poolMap, reverse, opdb, south, recover, odd, clash, faults>>

\* The callback of handlePBAActivate when the request failed.
Undo(p) ==
    /\ p.at = "undo"
    /\ pool' = ReleaseBlocks(pool, ip(p.s))
    /\ activations' = activations \ {p.s}
    /\ procs' = procs \ {p}
    /\ UNCHANGED <<sess, bus, pending, start, poolMap, reverse, opdb, south, recover, odd, clash, faults>>

\* The end of handleSessionRelease.
ReleaseFree(p) ==
    /\ p.at = "free"
    /\ pool' = ReleaseBlocks(pool, ip(p.s))
    /\ step(p, "forget")
    /\ UNCHANGED <<sess, bus, pending, start, activations, poolMap, reverse, opdb, south, recover, odd, clash, faults>>

\* Mutant: the record stays.
ReleaseForgetKeepsRecord(p) ==
    /\ p.at = "forget"
    /\ poolMap' = poolMap \ {p.s}
    /\ procs' = procs \ {p}
    /\ UNCHANGED <<sess, bus, pending, start, activations, pool, reverse, opdb, south, recover, odd, clash, faults>>

ReleaseForget(p) ==
    /\ p.at = "forget"
    /\ poolMap' = poolMap \ {p.s}
    /\ opdb' = [opdb EXCEPT ![p.s] = NoBlock]
    /\ procs' = procs \ {p}
    /\ UNCHANGED <<sess, bus, pending, start, activations, pool, reverse, south, recover, odd, clash, faults>>

-----------------------------------------------------------------------------
(* VPP and the callbacks.                                                  *)

\* VPP knows a mapping by its inside address: an add replaces what differs.
effect(v, q) == [v EXCEPT ![ip(q.s)] = IF q.add THEN q.b ELSE NoBlock]

\* Only the callback of an add does more than log.
callback(q, at) ==
    IF q.add THEN procs \cup {[at |-> at, s |-> q.s, b |-> q.b, persist |-> TRUE, by |-> "vpp"]}
    ELSE procs

VPPServes(q) ==
    /\ vppUp
    /\ vpp' = effect(vpp, q)
    /\ wire' = wire \ {q}
    /\ procs' = callback(q, "map")
    /\ UNCHANGED <<sess, bus, pending, start, tables, opdb, vppUp, recover, odd, clash, faults>>

\* VPP is down, refuses, does what it is asked and the reply times out, or
\* stops between the two requests that refresh a mapping which differs.
VPPFails(q) ==
    /\ \/ ~vppUp /\ UNCHANGED <<vpp, faults>>
       \/ /\ vppUp /\ faults < MaxFault
          /\ faults' = faults + 1
          /\ vpp' \in {vpp, effect(vpp, q), [vpp EXCEPT ![ip(q.s)] = NoBlock]}
    /\ wire' = wire \ {q}
    /\ procs' = callback(q, "undo")
    /\ odd' = odd \cup {ip(q.s)}
    /\ UNCHANGED <<sess, bus, pending, start, tables, opdb, vppUp, recover, clash>>

-----------------------------------------------------------------------------
(* Start: reconcile and subscribe, restoreFromOpDB, drainQueue.            *)

Subscribe ==
    /\ phase = "off"
    /\ phase' = "restore"
    /\ UNCHANGED <<sess, bus, pending, todo, orphans, scan, tables, opdb, south, procs, recover, odd, clash, faults>>

Known == {s \in Sessions : opdb[s] # NoBlock}

\* What RestoreMappingIfAbsent and the reverse index make of the records, in
\* the order of their keys, which the model does not know.
restoreAll(found) ==
    /\ pool' = FoldLeft(LAMBDA p, s : RestoreMappingIfAbsent(p, ip(s), opdb[s]), pool, found)
    /\ reverse' = FoldLeft(LAMBDA r, s : reverseAdd(r, opdb[s], s), reverse, found)

\* The sessions whose announcement is still to come or in the queue.
announced == {e.s : e \in {x \in bus \cup ToSet(pending) : opens(x)}}

\* A session that is not in the cache keeps its mapping, but in VPP, while the
\* access components have a record of it, and is an orphan otherwise.  The
\* others are sent to VPP in bulk and committed (commitRestoredPBA); one that
\* fails keeps its record, and VPP what it had.  Events only queue meanwhile,
\* so this is one step.
restoreFromOpDB ==
    /\ phase = "restore"
    /\ phase' = "scan"
    /\ \E cache \in Caches :
         LET kept == (Known \ cache) \cap live IN
         /\ \E bad \in SUBSET (Known \cap cache) :
              LET done == (Known \cap cache) \ bad IN
              /\ \E first \in SetToSeqs(kept), batch \in SetToSeqs(done) :
                   /\ vpp' = FoldLeft(LAMBDA v, s : [v EXCEPT ![ip(s)] = opdb[s]], vpp, batch)
                   /\ restoreAll(first \o batch)
              /\ poolMap' = poolMap \cup done
              /\ odd' = odd \cup {ip(s) : s \in kept \cup bad \cup (live \ (cache \cup announced))}
         /\ orphans' = (Known \ cache) \ live
         /\ scan' = cache
    /\ UNCHANGED <<sess, bus, pending, todo, activations, opdb, vppUp, wire, procs, recover, clash, faults>>

\* Start waits for the handler it called itself.
startFree == \A p \in procs : p.by # "start"

scanNonPBASessions(s) ==
    /\ phase = "scan" /\ startFree
    /\ scan' = scan \ {s}
    /\ handleSessionActivate(s, "start")
    /\ UNCHANGED <<sess, bus, pending, phase, todo, orphans, opdb, vpp, vppUp, recover, clash, faults>>

\* The orphans' records go, VPP keeps their mappings; drainQueue takes the
\* queue.  From here on handlers of new events run beside those of the queue.
drainQueue ==
    /\ phase = "scan" /\ scan = {} /\ startFree
    /\ phase' = "drain"
    /\ opdb' = [s \in Sessions |-> IF s \in orphans THEN NoBlock ELSE opdb[s]]
    /\ orphans' = {}
    /\ todo' = pending
    /\ pending' = <<>>
    /\ UNCHANGED <<sess, bus, scan, tables, south, procs, recover, odd, clash, faults>>

DrainNext ==
    /\ todo # <<>> /\ startFree
    /\ todo' = Tail(todo)
    /\ dispatch(Head(todo), "start")
    /\ UNCHANGED <<sess, bus, pending, phase, orphans, scan, opdb, vpp, vppUp, recover, clash, faults>>

StartReady ==
    /\ phase = "drain" /\ todo = <<>> /\ startFree
    /\ phase' = "ready"
    /\ UNCHANGED <<sess, bus, pending, todo, orphans, scan, tables, opdb, south, procs, recover, odd, clash, faults>>

-----------------------------------------------------------------------------
(* Restarts of osvbngd and of VPP.                                         *)

\* Addresses of which VPP has a mapping that the records of S do not have.
strays(S) == {i \in IPs : vpp[i] # NoBlock /\ \A s \in S : ip(s) = i => opdb[s] # vpp[i]}

clashing(S) == \E s, t \in S : s # t /\ opdb[s] # NoBlock /\ opdb[s] = opdb[t]

\* osvbngd crashes and the access components restore their sessions, before
\* CGNAT starts: a session comes back, fails and keeps its record, or has
\* expired.  VPP may have gone on.
Restart(keep) ==
    /\ faults < MaxFault
    /\ faults' = faults + 1
    /\ \E back, failed \in SUBSET live :
         /\ back \cap failed = {}
         /\ sess' = [s \in Sessions |->
              [sess[s] EXCEPT !.st = CASE s \in back   -> "restored"
                                       [] s \in failed -> "failed"
                                       [] @ = "new"    -> "new"
                                       [] OTHER        -> "gone"]]
         /\ bus' = {[kind |-> "restored", s |-> s] : s \in back}
         /\ clash' = (clash \/ clashing(back \cup failed))
         /\ odd' = {ip(s) : s \in failed} \cup (IF keep THEN odd \cup strays(back) ELSE {})
                   \cup (IF clash' THEN IPs ELSE {})
    /\ vpp' = IF keep THEN vpp ELSE [i \in IPs |-> NoBlock]
    /\ vppUp' = TRUE
    /\ phase' = "off" /\ pending' = <<>> /\ todo' = <<>>
    /\ orphans' = {} /\ scan' = {}
    /\ activations' = {} /\ poolMap' = {} /\ pool' = ConfigurePool /\ reverse' = NoReverse
    /\ wire' = {} /\ procs' = {} /\ recover' = Idle
    /\ UNCHANGED opdb

\* VPP crashes once CGNAT has started.
VPPCrash ==
    /\ vppUp /\ phase = "ready" /\ recover = Idle /\ faults < MaxFault
    /\ faults' = faults + 1
    /\ vppUp' = FALSE
    /\ vpp' = [i \in IPs |-> NoBlock]
    /\ odd' = odd \cup {ip(s) : s \in activations} \cup {ip(p.s) : p \in procs}
    /\ UNCHANGED <<sess, bus, pending, start, tables, opdb, wire, procs, recover, clash>>

\* The watchdog has VPP back: RecoverSessions of the access components, which
\* the model lets succeed, then RecoverDataplane loads the records.
VPPBack ==
    /\ ~vppUp
    /\ vppUp' = TRUE
    /\ sess' = [s \in Sessions |-> IF s \in live THEN [sess[s] EXCEPT !.st = "restored"] ELSE sess[s]]
    /\ bus' = bus \cup {[kind |-> "restored", s |-> s] : s \in live}
    /\ \E cache \in Caches :
         recover' = [on |-> TRUE, load |-> {[s |-> s, b |-> opdb[s]] : s \in Known \cap (cache \cup live)}]
    /\ UNCHANGED <<pending, start, tables, opdb, vpp, wire, procs, odd, clash, faults>>

\* The bulk request, and the records of what VPP took written as they were
\* loaded, whatever has happened since.
RecoverDataplane ==
    /\ recover.on
    /\ recover' = Idle
    /\ \E done \in SUBSET recover.load :
         /\ \E batch \in SetToSeqs(done) :
              vpp' = FoldLeft(LAMBDA v, m : [v EXCEPT ![ip(m.s)] = m.b], vpp, batch)
         /\ opdb' = [s \in Sessions |-> IF \E m \in done : m.s = s
                                        THEN (CHOOSE m \in done : m.s = s).b ELSE opdb[s]]
         /\ odd' = odd \cup {ip(m.s) : m \in recover.load \ done}
    /\ UNCHANGED <<sess, bus, pending, start, tables, vppUp, wire, procs, clash, faults>>

-----------------------------------------------------------------------------

AccessNext == \E s \in Sessions : \/ \E i \in IPs : SessionUp(s, i)
                                  \/ \E kind \in {"released", "ended"} : SessionDown(s, kind)
EventNext == \E e \in bus : EventLost(e) \/ maybeEnqueue(e) \/ HandleEvent(e)
Running(p) == CommitMap(p) \/ Commit(p) \/ Undo(p) \/ ReleaseFree(p) \/ ReleaseForget(p)
StartNext == \/ Subscribe \/ restoreFromOpDB \/ drainQueue \/ DrainNext \/ StartReady
             \/ \E s \in scan : scanNonPBASessions(s)
RecoverNext == VPPBack \/ RecoverDataplane

Next ==
    \/ AccessNext
    \/ EventNext
    \/ \E p \in procs : Running(p)
    \/ \E q \in wire : VPPServes(q) \/ VPPFails(q)
    \/ StartNext
    \/ \E keep \in BOOLEAN : Restart(keep)
    \/ VPPCrash
    \/ RecoverNext

Spec == Init /\ [][Next]_vars

-----------------------------------------------------------------------------

\* Every variable has its type, and the queue of events that arrive during the
\* restore stays within eventQueueBound.
TypeOK ==
    /\ sess \in [Sessions -> [st: {"new", "up", "restored", "failed", "down", "gone"}, ip: IPs \cup {NoIP}]]
    /\ bus \subseteq Event
    /\ phase \in {"off", "restore", "scan", "drain", "ready"}
    /\ Len(pending) <= QueueBound
    /\ activations \subseteq Sessions /\ poolMap \subseteq Sessions
    /\ pool \in PoolState
    /\ opdb \in [Sessions -> Blocks \cup {NoBlock}]
    /\ vpp \in [IPs -> Blocks \cup {NoBlock}]
    /\ wire \subseteq Request

\* The pool is exact, whatever handlers overlap and whatever fails: a block is
\* marked if and only if a subscriber has it (none leaks, none is given out
\* twice), and a subscriber has one block at most, although activations,
\* releases, roll-backs and restores run side by side.  The exception is a
\* restart with one block on record for two live sessions, to which a failed
\* restore may lead: restoreLocked marks a block without asking whose it is.
PoolExact ==
  ~clash =>
    /\ pool.bits = UNION {ToSet(pool.subs[i]) : i \in IPs}
    /\ \A i \in IPs : Len(pool.subs[i]) <= 1
    /\ \A i, j \in IPs : i # j => ToSet(pool.subs[i]) \cap ToSet(pool.subs[j]) = {}

Quiet ==
    /\ phase = "ready" /\ bus = {} /\ wire = {} /\ procs = {}
    /\ recover = Idle /\ vppUp

holder(i) == {s \in live : ip(s) = i}

\* When everything has been handled, pool, VPP, record and session table tell
\* the same of every address on which nothing odd happened: the live session
\* has one block and VPP translates to it, also after osvbngd or VPP or both
\* were restarted; and an address without session has left nothing behind.
SettledAgrees ==
    Quiet => \A i \in IPs \ odd :
        IF holder(i) = {}
        THEN /\ pool.subs[i] = <<>> /\ vpp[i] = NoBlock
             /\ \A s \in Sessions : ip(s) = i => s \notin poolMap /\ opdb[s] = NoBlock
        ELSE \A s \in holder(i) :
               /\ s \in poolMap
               /\ pool.subs[i] = <<vpp[i]>> /\ opdb[s] = vpp[i]

\* The reverse lookup names the subscriber whose traffic VPP sends out with
\* the block.  One odd address spoils it for others: what a crossed release
\* leaves in byIP is found before the next owner of the block.
LookupNames ==
    Quiet /\ odd = {} => \A i \in IPs : \A s \in holder(i) : Lookup(reverse, vpp[i]) = {s}

\* beginActivation: "Callers MUST invoke done() exactly once on the proceed
\* path".  An activation slot that is taken has a request or a handler that
\* will free it, or the session could never be activated again.
ActivationsEnd ==
    \A s \in activations : \/ \E q \in wire : q.add /\ q.s = s
                           \/ \E p \in procs : p.at \in {"map", "commit", "undo"} /\ p.s = s

\* No step, restarts included, moves a live session to another block or loses
\* its record, unless something odd happens to its address in that step or
\* before: a repeated announcement, a scan or a recovery changes nothing.
BlockKept ==
    [][\A s \in live : opdb[s] # NoBlock /\ s \in live' /\ ip(s) \notin odd' => opdb'[s] = opdb[s]]_vars
=============================================================================
