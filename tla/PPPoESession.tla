---------------------------- MODULE PPPoESession ----------------------------
(***************************************************************************)
(* The PPPoE access component, internal/pppoe: discovery, the phases of a  *)
(* session from LCP over login and address assignment to the dataplane,    *)
(* its teardown, its checkpoint in the operational database, and the       *)
(* restart that restores it.                                               *)
(*                                                                         *)
(* Each packet, AAA answer, timer, dataplane callback and checkpoint write *)
(* runs in a goroutine of its own.  What such a goroutine does under one   *)
(* hold of the session's mutex s.mu, or of the table mutex sessionMu, is   *)
(* one action; between two holds anything may happen.  The PPP layers are  *)
(* seen through PPPLayer, which PPPLink shows the automaton implements;    *)
(* IPv6CP, which behaves like IPCP here, is left out.                      *)
(***************************************************************************)
EXTENDS AddressPool, FiniteSetsExt

CONSTANTS
  Key,         \* subscribers: MAC address and VLAN tags
  NoKey,
  MaxSid,      \* PPPoE session IDs are 1..MaxSid; 65535 in the code
  Framed,      \* Framed[k]: the address AAA assigns to k; 0: none
  MaxReq,      \* logins in a run
  MaxAdd,      \* dataplane requests of a session under way at once
  MaxFault,    \* faults in a run, see Fault
  MaxRestart   \* restarts of the process

ASSUME SessionAssumption ==
  /\ MaxSid \in Nat \ {0}
  /\ Framed \in [Key -> 0..LastAddr]
  /\ NoKey \notin Key

VARIABLES
  ses,       \* ses[s]: the SessionState object s
  sessions,  \* c.sessions: the session of a subscriber
  sidIndex,  \* c.sidIndex: the session of a PPPoE session ID
  next,      \* c.nextSessionID
  pool,      \* the IPv4 pool of the address registry
  starting,  \* sessions in the tables whose up() has not run
  asked,     \* login requests published and not answered, <<session, number>>
  found,     \* answers that found their session and wait for its mutex
  adds,      \* adds[s]: dataplane requests of s under way, local and LAC
  lac,       \* sessions whose L2TP bring-up is under way
  ending,    \* ending[s]: calls of terminate() that are to come, s being off
             \* the tables
  puts,      \* checkpoint writes under way
  opdb,      \* the checkpoint of a session, NoCheckpoint if there is none
  pub,       \* pub[s]: the last lifecycle event published about s
  nreq,      \* nreq[s]: logins of s so far
  admitted,  \* admitted[s]: the login whose answer admitted s last
  revived,   \* sessions something changed after terminate()
  lateFail,  \* a dataplane request failed after its session had ended
  faults, restarts

tables == <<sessions, sidIndex, next>>
async  == <<starting, asked, found, adds, lac, ending, puts>>
ghosts == <<nreq, admitted, revived, lateFail>>
budget == <<faults, restarts>>
vars   == <<ses, tables, pool, async, opdb, pub, ghosts, budget>>

\* The address of a session for which no pool address is left: 100.64.0.1.
Fallback == LastAddr + 1

NoCheckpoint == [phase |-> "none", addr |-> 0]

NewSession == [key |-> NoKey, sid |-> 0, phase |-> "none", lcp |-> "shut",
               ipcp |-> "shut", req |-> 0, addr |-> 0]

Init ==
  /\ ses = [s \in Session |-> NewSession]
  /\ sessions = [k \in Key |-> Nobody]
  /\ sidIndex = [i \in 0..MaxSid |-> Nobody]
  /\ next = 1
  /\ pool = NewPoolAllocator
  /\ starting = {} /\ asked = {} /\ found = {} /\ lac = {} /\ puts = {}
  /\ ending = [s \in Session |-> 0]
  /\ adds = [s \in Session |-> [local |-> 0, lac |-> 0]]
  /\ opdb = [s \in Session |-> NoCheckpoint]
  /\ pub = [s \in Session |-> "none"]
  /\ nreq = [s \in Session |-> 0] /\ admitted = [s \in Session |-> 0]
  /\ revived = {} /\ lateFail = FALSE
  /\ faults = 0 /\ restarts = 0

(***************************************************************************)
(* What may go wrong for a session is bounded in number: a reply that      *)
(* cannot be sent, a layer renegotiated or rejected, a frame handled after *)
(* its session left the tables, a dataplane request that fails.            *)
(***************************************************************************)
Fault(happens) ==
  IF happens THEN faults < MaxFault /\ faults' = faults + 1 ELSE UNCHANGED faults

-----------------------------------------------------------------------------
(***************************************************************************)
(* The tables.  Both operations go by key, whatever session is there.      *)
(***************************************************************************)
\* Mutant: a subscriber's new session takes the place of the old one.
ReplaceInIndexes(s) ==
  /\ sessions' = [sessions EXCEPT ![ses[s].key] = s]
  /\ sidIndex' = [i \in 0..MaxSid |->
       IF i = ses[s].sid THEN s
       ELSE IF sidIndex[i] = sessions[ses[s].key] THEN Nobody ELSE sidIndex[i]]

addToIndexes(s) ==
  /\ sessions' = [sessions EXCEPT ![ses[s].key] = s]
  /\ sidIndex' = [sidIndex EXCEPT ![ses[s].sid] = s]

removeFromIndexes(s) ==
  /\ sessions' = [sessions EXCEPT ![ses[s].key] = Nobody]
  /\ sidIndex' = [sidIndex EXCEPT ![ses[s].sid] = Nobody]

\* The IDs in the order allocateSessionID tries them; 0 when all are taken.
SidAt(d) == IF next + d <= MaxSid THEN next + d ELSE next + d - MaxSid

\* Mutant: the counter does not wrap.
FollowingUnwrapped(i) == i + 1

Following(i) == IF i = MaxSid THEN 1 ELSE i + 1

allocateSessionID ==
  LET free == {d \in 0..MaxSid - 1 : sidIndex[SidAt(d)] = Nobody}
  IN  IF free = {} THEN 0
      ELSE SidAt(CHOOSE d \in free : \A e \in free : d <= e)

(***************************************************************************)
(* handlePADR: a session ID is found free under one lock, the session is   *)
(* entered in the tables under another, and up() starts LCP under a third. *)
(***************************************************************************)
handlePADR(s, k) ==
  /\ ses[s].phase = "none"
  /\ LET sid == allocateSessionID IN
       /\ ses' = [ses EXCEPT ![s].key = k, ![s].sid = sid, ![s].phase = "New"]
       /\ next' = IF sid = 0 THEN next ELSE Following(sid)
  /\ UNCHANGED <<sessions, sidIndex, pool, async, opdb, pub, ghosts, budget>>

EnterSession(s) ==
  /\ ses[s].phase = "New"
  /\ ses' = [ses EXCEPT ![s].phase = "Dead"]
  /\ addToIndexes(s)
  /\ starting' = starting \cup {s}
  /\ UNCHANGED <<next, pool, asked, found, adds, lac, ending, puts, opdb, pub,
                 ghosts, budget>>

\* A change of phase brings a session back that terminate() had ended.
Touched(s) == revived' = IF ses[s].phase = "Terminate" THEN revived \cup {s}
                                                       ELSE revived

\* up(), unless sendPADS failed.
up(s) ==
  /\ s \in starting
  /\ starting' = starting \ {s}
  /\ \/ /\ ses' = [ses EXCEPT ![s].phase = "Establish", ![s].lcp = "down"]
        /\ Touched(s)
        /\ UNCHANGED faults
     \/ Fault(TRUE) /\ UNCHANGED <<ses, revived>>
  /\ UNCHANGED <<tables, pool, asked, found, adds, lac, ending, puts, opdb, pub,
                 nreq, admitted, lateFail, restarts>>

-----------------------------------------------------------------------------
(***************************************************************************)
(* A frame of the subscriber.  handleSession looks its session up before   *)
(* it takes s.mu, so a frame may be handled after the session is gone from *)
(* the tables.  The frames of a tunneled session bypass the control plane. *)
(***************************************************************************)
Handled(s) == ses[s].phase \notin {"none", "New", "LACTunneled", "Gone"}

Frame(s) == Handled(s) /\ Fault(sidIndex[ses[s].sid] # s)

onLCPUp(s) ==
  /\ Frame(s)
  /\ ses[s].lcp = "down"
  /\ ses' = [ses EXCEPT ![s].lcp = "up", ![s].phase = "Authenticate"]
  /\ UNCHANGED <<tables, pool, async, opdb, pub, ghosts, restarts>>

onLCPDown(s) ==
  /\ Handled(s) /\ Fault(TRUE)
  /\ ses[s].lcp = "up"
  /\ ses' = [ses EXCEPT ![s].lcp = "down", ![s].phase = "Establish"]
  /\ UNCHANGED <<tables, pool, async, opdb, pub, ghosts, restarts>>

\* Closing LCP calls onLCPDown only when the layer was up.
CloseLCP(r) == [r EXCEPT !.lcp = "shut",
                         !.phase = IF r.lcp = "up" THEN "Establish" ELSE @]

\* The last CHAP retry times out.
handleCHAPTimeout(s) ==
  /\ ses[s].phase = "Authenticate"
  /\ ses' = [ses EXCEPT ![s] = CloseLCP(@)]
  /\ UNCHANGED <<tables, pool, async, opdb, pub, ghosts, budget>>

\* A PAP request or CHAP response: its request replaces the pending one.
publishAAARequest(s) ==
  /\ Frame(s)
  /\ ses[s].phase = "Authenticate"
  /\ MapThenSumSet(LAMBDA t : nreq[t], Session) < MaxReq
  /\ nreq' = [nreq EXCEPT ![s] = @ + 1]
  /\ ses' = [ses EXCEPT ![s].req = nreq'[s]]
  /\ asked' = asked \cup {<<s, nreq'[s]>>}
  /\ UNCHANGED <<tables, pool, starting, found, adds, lac, ending, puts, opdb,
                 pub, admitted, revived, lateFail, restarts>>

-----------------------------------------------------------------------------
(***************************************************************************)
(* handleAAAResponse: the answer's session is searched in the table, then  *)
(* the request is compared again under the session's mutex.  An answer     *)
(* that finds no session is dropped.                                       *)
(***************************************************************************)
AAAAnswers(q) ==
  /\ q \in asked
  /\ asked' = asked \ {q}
  /\ found' = IF sessions[ses[q[1]].key] = q[1] /\ ses[q[1]].req = q[2]
              THEN found \cup {q} ELSE found
  /\ UNCHANGED <<ses, tables, pool, starting, adds, lac, ending, puts, opdb,
                 pub, ghosts, budget>>

(***************************************************************************)
(* startNCP: the address of the session and the pool once it has it.  An   *)
(* address of AAA replaces the one the session had; a session that has     *)
(* one reserves it again, and one that cannot have it gets the fallback.   *)
(***************************************************************************)
Proposed(s) == IF Framed[ses[s].key] # 0 THEN Framed[ses[s].key]
                                         ELSE ses[s].addr

\* Mutant: a reservation conflict is logged and the address kept.
AssignedAnyway(s) ==
  LET a == Proposed(s) IN
  IF a # 0 THEN a ELSE IF CanAllocate(pool) THEN NextAddr(pool) ELSE Fallback

AssignedAddr(s) ==
  LET a == Proposed(s) IN
  CASE a = 0         -> IF CanAllocate(pool) THEN NextAddr(pool) ELSE Fallback
    [] a \in Addr    -> IF CanReserve(pool, a, s) THEN a ELSE Fallback
    [] a = Fallback  -> a

AssignedPool(s) ==
  LET a == Proposed(s) IN
  CASE a = 0        -> IF CanAllocate(pool) THEN Allocate(pool, s) ELSE pool
    [] a \in Addr   -> Reserve(pool, a, s)
    [] a = Fallback -> pool

\* onAuthResult, allowed; Up and Open leave an IPCP alone that is up.
onAuthSuccess(s) ==
  /\ ses' = [ses EXCEPT ![s].phase = "Network", ![s].req = 0,
                        ![s].addr = AssignedAddr(s),
                        ![s].ipcp = IF @ = "shut" THEN "down" ELSE @]
  /\ pool' = AssignedPool(s)
  /\ UNCHANGED adds

\* onAuthResult, allowed, when the subscriber is to be tunneled.
startLACVPPSessionAdd(s) ==
  /\ adds[s].lac < MaxAdd
  /\ ses' = [ses EXCEPT ![s].phase = "LACPending", ![s].req = 0]
  /\ adds' = [adds EXCEPT ![s].lac = @ + 1]
  /\ UNCHANGED pool

\* Mutant: the request is not compared again under the session's mutex.
ApplyFoundAnswer(q, verdict) ==
  LET s == q[1] IN
  /\ verdict = "accept" /\ q \in found
  /\ found' = found \ {q}
  /\ onAuthSuccess(s)
  /\ admitted' = [admitted EXCEPT ![s] = q[2]]
  /\ Touched(s)
  /\ UNCHANGED <<tables, starting, asked, lac, ending, puts, opdb, pub, nreq,
                 lateFail, budget>>

\* The phase is not looked at.  AAA assigns no address to a subscriber that it
\* has tunneled.
onAuthResult(q, verdict) ==
  LET s == q[1] IN
  /\ q \in found
  /\ found' = found \ {q}
  /\ IF ses[s].req # q[2] THEN UNCHANGED <<ses, pool, adds, admitted, revived>>
     ELSE /\ verdict = "tunnel" => Framed[ses[s].key] = 0
          /\ CASE verdict = "accept" -> onAuthSuccess(s)
               [] verdict = "tunnel" -> startLACVPPSessionAdd(s)
               [] verdict = "refuse" ->
                    /\ ses' = [ses EXCEPT ![s] = [CloseLCP(@) EXCEPT !.req = 0]]
                    /\ UNCHANGED <<pool, adds>>
          /\ admitted' = [admitted EXCEPT
               ![s] = IF verdict = "refuse" THEN @ ELSE q[2]]
          /\ Touched(s)
  /\ UNCHANGED <<tables, starting, asked, lac, ending, puts, opdb, pub, nreq,
                 lateFail, budget>>

-----------------------------------------------------------------------------
(***************************************************************************)
(* IPCP frames are dropped outside the network phases.  The first layer to *)
(* come up opens the session: it is checkpointed by a goroutine, announced *)
(* and handed to the dataplane.                                            *)
(***************************************************************************)
Checkpoint(s, r) == [ses |-> s, phase |-> r.phase, addr |-> r.addr]

\* A session that cannot be handed to the dataplane stays open.
checkOpen(s) ==
  IF ses[s].phase = "Open" THEN UNCHANGED <<adds, puts, pub>>
  ELSE /\ puts' = puts \cup {Checkpoint(s, ses'[s])}
       /\ pub' = [pub EXCEPT ![s] = "Active"]
       /\ \/ /\ adds[s].local < MaxAdd
             /\ adds' = [adds EXCEPT ![s].local = @ + 1]
          \/ UNCHANGED adds

onIPCPUp(s) ==
  /\ Frame(s)
  /\ ses[s].phase \in {"Network", "Open"}
  /\ ses[s].ipcp = "down"
  /\ ses' = [ses EXCEPT ![s].ipcp = "up", ![s].phase = "Open"]
  /\ checkOpen(s)
  /\ UNCHANGED <<tables, pool, starting, asked, found, lac, ending, opdb,
                 ghosts, restarts>>

onIPCPDown(s) ==
  /\ Handled(s) /\ Fault(TRUE)
  /\ ses[s].phase \in {"Network", "Open"}
  /\ ses[s].ipcp = "up"
  /\ ses' = [ses EXCEPT ![s].ipcp = "down"]
  /\ UNCHANGED <<tables, pool, async, opdb, pub, ghosts, restarts>>

\* A Protocol-Reject for IPCP closes it.
handleProtocolReject(s) ==
  /\ Handled(s) /\ Fault(TRUE)
  /\ ses[s].ipcp # "shut"
  /\ ses' = [ses EXCEPT ![s].ipcp = "shut"]
  /\ UNCHANGED <<tables, pool, async, opdb, pub, ghosts, restarts>>

-----------------------------------------------------------------------------
(***************************************************************************)
(* The dataplane's answers.  Neither callback looks at the phase.          *)
(***************************************************************************)
onVPPSessionCreated(s) ==
  /\ adds[s].local > 0
  /\ adds' = [adds EXCEPT ![s].local = @ - 1]
  /\ puts' = puts \cup {Checkpoint(s, ses[s])}
  /\ UNCHANGED <<ses, tables, pool, starting, asked, found, lac, ending, opdb,
                 pub, ghosts, budget>>

tearDownSessionAfterVPPFailure(s) ==
  /\ adds[s].local > 0 /\ Fault(TRUE)
  /\ adds' = [adds EXCEPT ![s].local = @ - 1]
  /\ removeFromIndexes(s)
  /\ pub' = [pub EXCEPT ![s] = "Released"]
  /\ opdb' = [opdb EXCEPT ![s] = NoCheckpoint]
  /\ ending' = [ending EXCEPT ![s] = @ + 1]
  /\ lateFail' = (lateFail \/ ending[s] > 0 \/ ses[s].phase = "Terminate"
                    \/ s \in revived)
  /\ UNCHANGED <<ses, next, pool, starting, asked, found, lac, puts,
                 nreq, admitted, revived, restarts>>

\* On success the L2TP bring-up is triggered; otherwise, or when the trigger
\* refuses, the login is rejected.
onLACVPPSessionCreated(s) ==
  /\ adds[s].lac > 0
  /\ adds' = [adds EXCEPT ![s].lac = @ - 1]
  /\ \/ lac' = lac \cup {s} /\ UNCHANGED ses
     \/ /\ ses' = [ses EXCEPT ![s] = [CloseLCP(@) EXCEPT !.req = 0]]
        /\ UNCHANGED lac
  /\ UNCHANGED <<tables, pool, starting, asked, found, ending, puts, opdb, pub,
                 ghosts, budget>>

\* The decision looks its session up before it takes s.mu: a session whose
\* teardown has begun may still be found.
handleLACDecision(s) ==
  /\ s \in lac
  /\ lac' = lac \ {s}
  /\ \/ /\ sidIndex[ses[s].sid] # s \/ ses[s].phase # "LACPending"
        /\ UNCHANGED <<ses, puts, pub>>
     \/ /\ sidIndex[ses[s].sid] = s \/ ending[s] > 0
        /\ ses[s].phase = "LACPending"
        /\ \/ /\ ses' = [ses EXCEPT ![s].phase = "LACTunneled", ![s].req = 0]
              /\ puts' = puts \cup {Checkpoint(s, ses'[s])}
              /\ pub' = [pub EXCEPT ![s] = "Tunneled"]
           \/ /\ ses' = [ses EXCEPT ![s] = [CloseLCP(@) EXCEPT !.req = 0]]
              /\ UNCHANGED <<puts, pub>>
  /\ UNCHANGED <<tables, pool, starting, asked, found, adds, ending, opdb,
                 ghosts, budget>>

-----------------------------------------------------------------------------
(***************************************************************************)
(* handlePADT, handleDeadPeer and handleSubscriberTerminate take a session *)
(* off the tables, then terminate it under its own mutex.                  *)
(***************************************************************************)
EndSession(s) ==
  /\ ses[s].phase # "none" /\ sidIndex[ses[s].sid] = s
  /\ removeFromIndexes(s)
  /\ ending' = [ending EXCEPT ![s] = @ + 1]
  /\ UNCHANGED <<ses, next, pool, starting, asked, found, adds, lac, puts, opdb,
                 pub, ghosts, budget>>

\* Mutant: only the address of an open session is released.
TerminateOpenOnly(s) ==
  /\ ending[s] > 0
  /\ ending' = [ending EXCEPT ![s] = @ - 1]
  /\ pool' = IF ses[s].addr \in Addr /\ ses[s].phase = "Open"
             THEN Release(pool, ses[s].addr) ELSE pool
  /\ ses' = [ses EXCEPT ![s].ipcp = "shut", ![s].lcp = "shut",
                        ![s].phase = "Terminate"]
  /\ opdb' = [opdb EXCEPT ![s] = NoCheckpoint]
  /\ pub' = [pub EXCEPT ![s] = "Released"]
  /\ UNCHANGED <<tables, starting, asked, found, adds, lac, puts, ghosts,
                 budget>>

terminate(s) ==
  /\ ending[s] > 0
  /\ ending' = [ending EXCEPT ![s] = @ - 1]
  /\ pool' = IF ses[s].addr \in Addr THEN Release(pool, ses[s].addr) ELSE pool
  /\ ses' = [ses EXCEPT
       ![s].ipcp = IF ses[s].phase \in {"Open", "Network"} THEN "shut" ELSE @,
       ![s].lcp = "shut", ![s].phase = "Terminate"]
  /\ opdb' = [opdb EXCEPT ![s] = NoCheckpoint]
  /\ pub' = [pub EXCEPT ![s] = "Released"]
  /\ UNCHANGED <<tables, starting, asked, found, adds, lac, puts, ghosts,
                 budget>>

\* The goroutine of checkpointSession writes what it marshalled.
PutLands(p) ==
  /\ p \in puts
  /\ puts' = puts \ {p}
  /\ opdb' = [opdb EXCEPT ![p.ses] = [phase |-> p.phase, addr |-> p.addr]]
  /\ UNCHANGED <<ses, tables, pool, starting, asked, found, adds, lac, ending,
                 pub, ghosts, budget>>

-----------------------------------------------------------------------------
(***************************************************************************)
(* The process restarts: restoreSessions.  The checkpoints are installed   *)
(* in the order the database yields them, those of sessions in Open with   *)
(* their layers restored and, if the dataplane takes them, written again;  *)
(* an Open one may be found expired and is deleted.  The session ID to try *)
(* next follows the installed one, a uint16.  The pools start empty.  A    *)
(* session without a checkpoint is gone.                                   *)
(***************************************************************************)
installInMemoryState(s, back) ==
  IF s \in back
  THEN LET at == IF opdb[s].phase = "Open" THEN "up" ELSE "shut" IN
       [ses[s] EXCEPT !.phase = opdb[s].phase, !.addr = opdb[s].addr,
                      !.req = 0, !.lcp = at, !.ipcp = at]
  ELSE [ses[s] EXCEPT !.phase = IF @ = "none" THEN @ ELSE "Gone",
                      !.lcp = "shut", !.ipcp = "shut", !.req = 0]

\* The last session of the sequence that is among the given ones.
LastOf(order, among) ==
  LET at == {i \in DOMAIN order : order[i] \in among}
  IN  IF at = {} THEN Nobody ELSE order[Max(at)]

NextSid(n, s) == IF ses[s].sid > 0 /\ ses[s].sid >= n
                 THEN (ses[s].sid + 1) % (MaxSid + 1) ELSE n

isSessionExpired(s) == opdb[s].phase = "Open"

restoreSessions ==
  /\ restarts < MaxRestart
  /\ restarts' = restarts + 1
  /\ \E expired \in SUBSET {s \in Session : isSessionExpired(s)} :
       LET back == {s \in Session : opdb[s].phase # "none"} \ expired IN
       /\ opdb' = [s \in Session |-> IF s \in expired THEN NoCheckpoint
                                                      ELSE opdb[s]]
       /\ ses' = [s \in Session |-> installInMemoryState(s, back)]
       /\ \E order \in Bijection(1..Cardinality(back), back) :
            /\ sessions' = [k \in Key |->
                 LastOf(order, {s \in back : ses[s].key = k})]
            /\ sidIndex' = [i \in 0..MaxSid |->
                 LastOf(order, {s \in back : ses[s].sid = i})]
            /\ LET after[i \in 0..Cardinality(back)] ==
                     IF i = 0 THEN 1 ELSE NextSid(after[i - 1], order[i])
               IN  next' = after[Cardinality(back)]
       /\ \E set \in SUBSET {s \in back : opdb[s].phase = "Open"} :
            puts' = {Checkpoint(s, ses'[s]) : s \in set}
       /\ admitted' = [s \in Session |-> IF s \in back THEN nreq[s]
                                                       ELSE admitted[s]]
  /\ pool' = NewPoolAllocator
  /\ starting' = {} /\ asked' = {} /\ found' = {} /\ lac' = {}
  /\ adds' = [s \in Session |-> [local |-> 0, lac |-> 0]]
  /\ ending' = [s \in Session |-> 0]
  /\ UNCHANGED <<pub, nreq, revived, lateFail, faults>>

Next ==
  \/ \E s \in Session :
       \/ \E k \in Key : handlePADR(s, k)
       \/ EnterSession(s) \/ up(s)
       \/ onLCPUp(s) \/ onLCPDown(s) \/ handleCHAPTimeout(s)
       \/ publishAAARequest(s)
       \/ onIPCPUp(s) \/ onIPCPDown(s) \/ handleProtocolReject(s)
       \/ onVPPSessionCreated(s) \/ tearDownSessionAfterVPPFailure(s)
       \/ onLACVPPSessionCreated(s) \/ handleLACDecision(s)
       \/ EndSession(s) \/ terminate(s)
  \/ \E q \in asked : AAAAnswers(q)
  \/ \E q \in found, v \in {"accept", "tunnel", "refuse"} : onAuthResult(q, v)
  \/ \E p \in puts : PutLands(p)
  \/ restoreSessions

Spec == Init /\ [][Next]_vars
-----------------------------------------------------------------------------
Phase == {"none", "New", "Dead", "Establish", "Authenticate", "Network", "Open",
          "Terminate", "LACPending", "LACTunneled", "Gone"}

Layer == {"shut", "down", "up"}

TypeOK ==
  /\ ses \in [Session -> [key : Key \cup {NoKey}, sid : 0..MaxSid,
                          phase : Phase, lcp : Layer, ipcp : Layer,
                          req : 0..MaxReq, addr : 0..Fallback]]
  /\ sessions \in [Key -> Session \cup {Nobody}]
  /\ sidIndex \in [0..MaxSid -> Session \cup {Nobody}]
  /\ next \in 0..MaxSid
  /\ pool.leases \in [Addr -> Session \cup {Nobody}]
  /\ pool.free \in Seq(Addr)
  /\ starting \cup lac \cup revived \subseteq Session
  /\ asked \cup found \subseteq Session \X (1..MaxReq)
  /\ adds \in [Session -> [local : 0..MaxAdd, lac : 0..MaxAdd]]
  /\ ending \in [Session -> Nat]
  /\ puts \subseteq [ses : Session, phase : Phase, addr : 0..Fallback]
  /\ opdb \in [Session -> [phase : Phase, addr : 0..Fallback]]
  /\ pub \in [Session -> {"none", "Active", "Tunneled", "Released"}]
  /\ nreq \in [Session -> 0..MaxReq] /\ admitted \in [Session -> 0..MaxReq]

(***************************************************************************)
(* A session is in a network phase or tunneled only by the answer to its   *)
(* newest login: an accept that answers an older login, overtaken by a new *)
(* attempt while it waited for the session's mutex, admits nobody          *)
(* (component.go:1008-1032).                                               *)
(***************************************************************************)
AdmittedByLatest ==
  \A s \in Session :
    ses[s].phase \in {"Network", "Open", "LACPending", "LACTunneled"} =>
      nreq[s] > 0 /\ admitted[s] = nreq[s]

(***************************************************************************)
(* A session in a network phase holds the lease of its pool address, so no *)
(* two use the same one (session.go:490-537, 1099-1104).  Two cases are    *)
(* excluded: a dataplane request that fails after its session had ended    *)
(* ends it again and releases an address that may be someone else's by     *)
(* then; and restored sessions hold no lease (RestoredKeepsAddress).       *)
(***************************************************************************)
AddressHeld ==
  ~lateFail /\ restarts = 0 =>
    \A s \in Session :
      ses[s].phase \in {"Network", "Open"} /\ ses[s].addr \in Addr =>
        pool.leases[ses[s].addr] = s

(***************************************************************************)
(* The teardown of a session is complete: once terminate() has run, the    *)
(* last that was announced of the session is its release, and it holds no  *)
(* address (session.go:1093-1153).  The sessions left out are those that a *)
(* handler already past its lookup changed afterwards.                     *)
(***************************************************************************)
ReleasedIsFinal ==
  \A s \in Session :
    ses[s].phase = "Terminate" /\ s \notin revived =>
      /\ pub[s] = "Released"
      /\ \A a \in Addr : pool.leases[a] # s

(***************************************************************************)
(* A session in a network phase can be ended: a PADT, the echo timer and   *)
(* the operator all find it by its session ID, whatever happened to the    *)
(* subscriber's other sessions, unless its teardown has begun              *)
(* (component.go:326-376).  The index by subscriber has no such property:  *)
(* the end of an old session removes the entry of its successor.           *)
(***************************************************************************)
CanBeEnded ==
  \A s \in Session :
    ses[s].phase \in {"Network", "Open", "LACTunneled"} /\ s \notin revived =>
      sidIndex[ses[s].sid] = s \/ ending[s] > 0

(***************************************************************************)
(* No address of a pool is used by two open sessions, restarts included:   *)
(* the comment of IPoE's restore says that PPPoE stakes the addresses of   *)
(* its restored sessions in startNCP.                                      *)
(***************************************************************************)
RestoredKeepsAddress ==
  \A s, t \in Session :
    ses[s].key # ses[t].key /\ ses[s].phase = "Open" /\ ses[t].phase = "Open"
      /\ ses[s].addr \in Addr => ses[s].addr # ses[t].addr
=============================================================================
