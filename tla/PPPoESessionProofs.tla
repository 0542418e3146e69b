------------------------- MODULE PPPoESessionProofs -------------------------
(***************************************************************************)
(* The PPPoE sessions, for any number of subscribers, sessions, addresses, *)
(* session IDs, logins, faults and restarts: AdmittedByLatest, AddressHeld *)
(* and ReleasedIsFinal.                                                    *)
(***************************************************************************)
EXTENDS PPPoESession, AddressPoolProofs

Admitted == {"Network", "Open", "LACPending", "LACTunneled"}

\* A session object and its pieces.
IsState(r) ==
  /\ r = [key |-> r.key, sid |-> r.sid, phase |-> r.phase, lcp |-> r.lcp,
          ipcp |-> r.ipcp, req |-> r.req, addr |-> r.addr]
  /\ r.key \in Key \cup {NoKey} /\ r.phase \in Phase
  /\ r.lcp \in Layer /\ r.ipcp \in Layer
  /\ r.req \in Nat /\ r.addr \in 0..Fallback

Types ==
  /\ ses = [s \in Session |-> ses[s]] /\ \A s \in Session : IsState(ses[s])
  /\ pool \in Pool /\ Conserved(pool)
  /\ asked \cup found \subseteq Session \X (Nat \ {0})
  /\ adds \in [Session -> [local : Nat, lac : Nat]]
  /\ ending \in [Session -> Nat]
  /\ puts \subseteq [ses : Session, phase : Phase, addr : 0..Fallback]
  /\ opdb \in [Session -> [phase : Phase, addr : 0..Fallback]]
  /\ pub \in [Session -> {"none", "Active", "Tunneled", "Released"}]
  /\ nreq \in [Session -> Nat] /\ admitted \in [Session -> Nat]
  /\ restarts \in Nat /\ lateFail \in BOOLEAN

\* handlePADR has made the session and entered it in the tables.
Begun(s) == ses[s].phase \notin {"none", "New"}

\* Nothing is under way for a session that handlePADR has not entered, and a
\* session has its subscriber for good.
BeginInv(s) ==
  /\ ~Begun(s) =>
       /\ ses[s].addr = 0 /\ adds[s] = [local |-> 0, lac |-> 0]
       /\ s \notin starting \cup lac \cup revived /\ opdb[s] = NoCheckpoint
  /\ ses[s].phase = "none" \/ (~Begun(s) /\ restarts = 0) => ending[s] = 0
  /\ \A q \in asked \cup found : q[1] = s => Begun(s)
  /\ \A p \in puts : p.ses = s => Begun(s) /\ p.phase \notin {"none", "New"}
  /\ opdb[s].phase # "New"
  /\ ses[s].phase # "none" => ses[s].key \in Key

\* Only the newest login can still be answered, it is the one that admitted the
\* session, and a checkpoint in an admitted phase is of a session that logged in.
LoginInv(s) ==
  /\ ses[s].req \in {0, nreq[s]}
  /\ ses[s].phase \in Admitted => nreq[s] > 0 /\ admitted[s] = nreq[s]
  /\ opdb[s].phase \in Admitted => nreq[s] > 0
  /\ \A p \in puts : p.ses = s /\ p.phase \in Admitted => nreq[s] > 0

\* The address AAA assigns to the session stays the same.
FramedInv(s) ==
  ses[s].key \in Key /\ Framed[ses[s].key] # 0 =>
    /\ ses[s].addr \in {0, Framed[ses[s].key], Fallback}
    /\ opdb[s].addr \in {0, Framed[ses[s].key], Fallback}
    /\ \A p \in puts : p.ses = s => p.addr \in {0, Framed[ses[s].key], Fallback}

\* The session was ended and nothing has changed it since.
Ended(s) == ses[s].phase = "Terminate" /\ s \notin revived

\* Such a session is announced as released; a checkpoint of a terminated
\* session is of one that is still terminated.
EndedInv(s) ==
  /\ Ended(s) => ses[s].lcp = "shut" /\ pub[s] = "Released"
  /\ opdb[s].phase = "Terminate" /\ s \notin revived => Ended(s)
  /\ \A p \in puts : p.ses = s /\ p.phase = "Terminate" /\ s \notin revived => Ended(s)

SessionInv(s) == BeginInv(s) /\ LoginInv(s) /\ FramedInv(s) /\ EndedInv(s)

\* A session holds at most the lease of its own address, and none once ended.
LeaseInv ==
  \A s \in Session, a \in Addr : pool.leases[a] = s => ses[s].addr = a /\ ~Ended(s)

\* No terminate() has run for the session.
Alive(s) == ses[s].phase # "Terminate" /\ s \notin revived

\* Until the first restart the index by session ID names sessions whose end
\* has not begun.
IndexInv ==
  restarts = 0 =>
    /\ next \in 1..MaxSid /\ sidIndex \in [0..MaxSid -> Session \cup {Nobody}]
    /\ \A s \in Session : ses[s].sid \in 0..MaxSid
    /\ \A i \in 0..MaxSid, s \in Session : sidIndex[i] = s =>
         i = ses[s].sid /\ Begun(s) /\ ending[s] = 0 /\ Alive(s)

\* And a session is ended once, until when it holds the lease of its address.
Uses(s) == Alive(s) \/ ses[s].phase \in {"Network", "Open"}

HeldInv ==
  restarts = 0 /\ ~lateFail =>
    \A s \in Session :
      /\ ending[s] > 0 => ending[s] = 1 /\ Alive(s)
      /\ ses[s].addr \in Addr /\ Uses(s) => pool.leases[ses[s].addr] = s

IInv ==
  /\ Types /\ \A s \in Session : SessionInv(s)
  /\ LeaseInv /\ IndexInv /\ HeldInv

-----------------------------------------------------------------------------
(***************************************************************************)
(* Every action but a restart is about one session s.  The others keep     *)
(* what the invariant says of them.                                        *)
(***************************************************************************)
Sets(f, g, s) == \A t \in Session \ {s} : g[t] = f[t]

Change(s) ==
  /\ Sets(ses, ses', s) /\ Sets(adds, adds', s) /\ Sets(ending, ending', s)
  /\ Sets(opdb, opdb', s) /\ Sets(pub, pub', s)
  /\ Sets(nreq, nreq', s) /\ Sets(admitted, admitted', s)
  /\ starting' \subseteq starting \cup {s} /\ lac' \subseteq lac \cup {s}
  /\ revived \subseteq revived' /\ revived' \subseteq revived \cup {s}
  /\ asked' \cup found' \subseteq asked \cup found \cup ({s} \X (Nat \ {0}))
  /\ \A p \in puts' : p \in puts \/ p.ses = s
  /\ restarts' = restarts

\* The other sessions.
LEMMA OthersKept ==
  ASSUME IInv, NEW s \in Session, Change(s), NEW t \in Session, t # s
  PROVE  /\ SessionInv(t)' /\ ses'[t] = ses[t] /\ ending'[t] = ending[t]
         /\ Begun(t)' = Begun(t) /\ Alive(t)' = Alive(t)
         /\ Ended(t)' = Ended(t) /\ Uses(t)' = Uses(t)
<1>1. /\ ses'[t] = ses[t] /\ adds'[t] = adds[t] /\ ending'[t] = ending[t]
      /\ opdb'[t] = opdb[t] /\ pub'[t] = pub[t] /\ nreq'[t] = nreq[t]
      /\ admitted'[t] = admitted[t] /\ restarts' = restarts
  BY Zenon DEF Change, Sets
<1>2. /\ t \in starting' => t \in starting
      /\ t \in lac' => t \in lac
      /\ t \in revived' <=> t \in revived
      /\ \A p \in puts' : p.ses = t => p \in puts
  BY Zenon DEF Change
<1>3. \A q \in asked' \cup found' : q[1] = t => q \in asked \cup found
  BY Zenon DEF Change
<1>4. SessionInv(t)
  BY Zenon DEF IInv
<1>5. Begun(t)' = Begun(t) /\ Alive(t)' = Alive(t) /\ Ended(t)' = Ended(t)
      /\ Uses(t)' = Uses(t)
  BY <1>1, <1>2, Zenon DEF Begun, Alive, Ended, Uses
<1>6. BeginInv(t)'
  BY <1>1, <1>2, <1>3, <1>4, <1>5, Zenon DEF SessionInv, BeginInv
<1>7. LoginInv(t)' /\ FramedInv(t)'
  BY <1>1, <1>2, <1>4, Zenon DEF SessionInv, LoginInv, FramedInv
<1>8. EndedInv(t)'
  BY <1>1, <1>2, <1>4, <1>5, Zenon DEF SessionInv, EndedInv
<1> QED
  BY <1>1, <1>5, <1>6, <1>7, <1>8, Zenon DEF SessionInv

\* The index by session ID when it does not change.
LEMMA IndexKept ==
  ASSUME IInv, NEW s \in Session, Change(s), sidIndex' = sidIndex, next' = next,
         ses'[s].sid = ses[s].sid, Begun(s) => Begun(s)', Alive(s) => Alive(s)',
         ending'[s] = ending[s]
  PROVE  IndexInv'
<1>1. \A t \in Session : /\ ses'[t].sid = ses[t].sid /\ ending'[t] = ending[t]
                         /\ Begun(t) => Begun(t)'
                         /\ Alive(t) => Alive(t)'
  BY OthersKept, Zenon
<1>2. restarts' = restarts
  BY Zenon DEF Change
<1> QED
  BY <1>1, <1>2, Zenon DEF IInv, IndexInv

\* The leases when neither the pool nor the address of the session changes.
LEMMA LeasesKept ==
  ASSUME IInv, NEW s \in Session, Change(s), pool' = pool, ses'[s].addr = ses[s].addr,
         Ended(s)' => Ended(s), Uses(s)' => Uses(s), lateFail => lateFail',
         restarts = 0 /\ ~lateFail' /\ ending'[s] > 0 => ending'[s] = 1 /\ Alive(s)'
  PROVE  LeaseInv' /\ HeldInv'
<1>1. \A t \in Session : /\ ses'[t].addr = ses[t].addr
                         /\ Ended(t)' => Ended(t)
                         /\ Uses(t)' => Uses(t)
  BY OthersKept, Zenon
<1>2. \A t \in Session : t # s => ending'[t] = ending[t] /\ Alive(t)' = Alive(t)
  BY OthersKept, Zenon
<1>3. restarts' = restarts
  BY Zenon DEF Change
<1>4. LeaseInv'
  BY <1>1, Zenon DEF IInv, LeaseInv
<1>5. HeldInv'
  BY <1>1, <1>2, <1>3, Zenon DEF IInv, HeldInv
<1> QED
  BY <1>4, <1>5, Zenon

-----------------------------------------------------------------------------
(***************************************************************************)
(* Most handlers move a session that is in the tables or was: they change  *)
(* it, ask for things and get answers, but leave the index by session ID,  *)
(* the end of the session and the database alone.  All of them but         *)
(* startNCP take a step that leaves its address alone too.                 *)
(***************************************************************************)
MoveState(s) ==
  /\ ses' = [t \in Session |-> ses'[t]] /\ IsState(ses'[s]) /\ Sets(ses, ses', s)
  /\ ses'[s].key = ses[s].key /\ ses'[s].sid = ses[s].sid
  /\ Begun(s) /\ Begun(s)'
  /\ UNCHANGED <<sidIndex, next, ending, opdb, lateFail, restarts>>

StepState(s) == MoveState(s) /\ pool' = pool /\ ses'[s].addr = ses[s].addr

\* What an ended session is left with.
MoveEnded(s) ==
  /\ revived \subseteq revived' /\ revived' \subseteq revived \cup {s}
  /\ s \in revived' \ revived => ses[s].phase = "Terminate"
  /\ ses[s].phase = "Terminate" /\ ses'[s].phase # "Terminate" => s \in revived'
  /\ ses'[s].phase = "Terminate" =>
       ses[s].phase = "Terminate" /\ ses'[s].lcp \in {"shut", ses[s].lcp} /\ pub'[s] = pub[s]
  /\ pub' \in [Session -> {"none", "Active", "Tunneled", "Released"}] /\ Sets(pub, pub', s)

StepEnded(s) ==
  /\ MoveEnded(s)
  /\ ses'[s].phase \in {"Network", "Open"} => ses[s].phase \in {"Network", "Open"}

StepLogin(s) ==
  /\ ses'[s].phase \in Admitted => nreq'[s] > 0 /\ admitted'[s] = nreq'[s]
  /\ ses'[s].req \in {0, nreq'[s]} /\ nreq'[s] >= nreq[s]
  /\ nreq' \in [Session -> Nat] /\ Sets(nreq, nreq', s)
  /\ admitted' \in [Session -> Nat] /\ Sets(admitted, admitted', s)

StepAsync(s) ==
  /\ starting' \subseteq starting \cup {s} /\ lac' \subseteq lac \cup {s}
  /\ asked' \cup found' \subseteq asked \cup found \cup ({s} \X (Nat \ {0}))
  /\ adds' \in [Session -> [local : Nat, lac : Nat]] /\ Sets(adds, adds', s)
  /\ puts' \subseteq puts \cup {Checkpoint(s, ses'[s])}

Move(s) ==
  /\ MoveState(s) /\ MoveEnded(s) /\ StepLogin(s) /\ StepAsync(s)
  /\ pool' \in Pool /\ Conserved(pool')
  /\ ses[s].key \in Key /\ Framed[ses[s].key] # 0 =>
       ses'[s].addr \in {0, Framed[ses[s].key], Fallback}

Step(s) == StepState(s) /\ StepEnded(s) /\ StepLogin(s) /\ StepAsync(s)

\* A move concerns one session.
LEMMA MoveIsChange ==
  ASSUME IInv, NEW s \in Session, Move(s)
  PROVE  Types' /\ Change(s)
<1> DEFINE c == Checkpoint(s, ses'[s])
<1>1. c \in [ses : Session, phase : Phase, addr : 0..Fallback] /\ c.ses = s
  BY Zenon DEF Move, MoveState, IsState, Checkpoint
<1>2. puts' \subseteq puts \cup {c}
  BY Zenon DEF Move, StepAsync
<1> HIDE DEF c
<1>3. \A t \in Session : IsState(ses'[t])
  BY Zenon DEF Move, MoveState, Sets, IInv, Types
<1>4. puts' \subseteq [ses : Session, phase : Phase, addr : 0..Fallback]
  BY <1>1, <1>2, Zenon DEF IInv, Types
<1>5. asked' \cup found' \subseteq Session \X (Nat \ {0})
  BY Zenon DEF Move, StepAsync, IInv, Types
<1>6. Types'
  BY <1>3, <1>4, <1>5, Zenon DEF Move, MoveState, MoveEnded, StepLogin, StepAsync, IInv, Types
<1>7. Change(s)
  BY <1>1, <1>2, Zenon DEF Move, MoveState, MoveEnded, StepLogin, StepAsync, Change, Sets
<1> QED
  BY <1>6, <1>7, Zenon

\* What the invariant says of the session it moves.
LEMMA MovedKept ==
  ASSUME IInv, NEW s \in Session, Move(s)
  PROVE  SessionInv(s)'
<1> DEFINE c == Checkpoint(s, ses'[s])
<1>1. /\ puts' \subseteq puts \cup {c}
      /\ c.phase = ses'[s].phase /\ c.addr = ses'[s].addr
  BY Zenon DEF Move, StepAsync, Checkpoint
<1> HIDE DEF c
<1>2. SessionInv(s)
  BY Zenon DEF IInv
<1>3. /\ Begun(s) /\ Begun(s)' /\ ses'[s].phase \notin {"none", "New"} /\ ses[s].phase # "none"
      /\ ses'[s].key = ses[s].key /\ opdb' = opdb
  BY Zenon DEF Move, MoveState, Begun
<1>4. BeginInv(s)'
  BY <1>1, <1>2, <1>3, Zenon DEF SessionInv, BeginInv
<1>5. nreq[s] \in Nat /\ nreq'[s] \in Nat /\ nreq'[s] >= nreq[s]
  BY Zenon DEF Move, StepLogin, IInv, Types
<1>6. nreq[s] > 0 => nreq'[s] > 0
  BY <1>5
<1>7. LoginInv(s)'
  BY <1>1, <1>2, <1>3, <1>6, Zenon DEF Move, StepLogin, SessionInv, LoginInv
<1>8. FramedInv(s)'
  BY <1>1, <1>2, <1>3, Zenon DEF Move, SessionInv, FramedInv
<1>9. EndedInv(s)'
  BY <1>1, <1>2, <1>3, Zenon DEF Move, MoveEnded, SessionInv, EndedInv, Ended
<1> QED
  BY <1>4, <1>7, <1>8, <1>9, Zenon DEF SessionInv

\* Whatever address the session gets, only the leases remain to be shown.
LEMMA MoveKeeps ==
  ASSUME IInv, NEW s \in Session, Move(s), LeaseInv', HeldInv'
  PROVE  IInv'
<1>1. Types' /\ Change(s) /\ SessionInv(s)'
  BY MoveIsChange, MovedKept, Zenon
<1>2. \A t \in Session : SessionInv(t)'
  BY <1>1, OthersKept, Zenon
<1>3. IndexInv'
  <2>1. Alive(s) => Alive(s)'
    BY Zenon DEF Move, MoveEnded, Alive
  <2> QED
    BY <1>1, <2>1, IndexKept, Zenon DEF Move, MoveState
<1> QED
  BY <1>1, <1>2, <1>3, Zenon DEF IInv

\* A step keeps the invariant.
LEMMA StepKeeps ==
  ASSUME IInv, NEW s \in Session, Step(s)
  PROVE  IInv'
<1>1. Move(s)
  <2>1. FramedInv(s) /\ pool \in Pool /\ Conserved(pool)
    BY Zenon DEF IInv, SessionInv, Types
  <2> QED
    BY <2>1, Zenon DEF Step, StepState, StepEnded, Move, FramedInv
<1>2. Change(s)
  BY <1>1, MoveIsChange, Zenon
<1>3. /\ Ended(s)' => Ended(s)
      /\ Alive(s)' = Alive(s)
      /\ Uses(s)' => Uses(s)
  BY Zenon DEF Step, StepEnded, MoveEnded, Ended, Alive, Uses
<1>4. ending' = ending /\ lateFail' = lateFail /\ pool' = pool /\ ses'[s].addr = ses[s].addr
  BY Zenon DEF Step, StepState, MoveState
<1>5. restarts = 0 /\ ~lateFail' /\ ending'[s] > 0 => ending'[s] = 1 /\ Alive(s)'
  BY <1>3, <1>4, Zenon DEF IInv, HeldInv
<1>6. LeaseInv' /\ HeldInv'
  BY <1>2, <1>3, <1>4, <1>5, LeasesKept, Zenon
<1> QED
  BY <1>1, <1>6, MoveKeeps, Zenon

-----------------------------------------------------------------------------
(***************************************************************************)
(* The handlers that are such steps.                                       *)
(***************************************************************************)
\* A step that neither asks for a login nor admits the session.
LEMMA LoginKept ==
  ASSUME IInv, NEW s \in Session, ses'[s].req \in {0, ses[s].req},
         ses'[s].phase \in Admitted => ses[s].phase \in Admitted,
         nreq' = nreq, admitted' = admitted
  PROVE  StepLogin(s)
<1>1. nreq \in [Session -> Nat] /\ admitted \in [Session -> Nat]
  BY Zenon DEF IInv, Types
<1>2. ses'[s].phase \in Admitted => nreq'[s] > 0 /\ admitted'[s] = nreq'[s]
  BY Zenon DEF IInv, SessionInv, LoginInv, Admitted
<1>3. nreq[s] \in Nat /\ nreq'[s] >= nreq[s]
  BY <1>1
<1>4. ses'[s].req \in {0, nreq'[s]}
  BY Zenon DEF IInv, SessionInv, LoginInv
<1> QED
  BY <1>1, <1>2, <1>3, <1>4, Zenon DEF StepLogin, Sets

\* Closing LCP takes a session back to Establish, if anywhere; the reject of a
\* login also drops the pending request.
LEMMA CloseLCPState ==
  ASSUME NEW r, IsState(r), NEW c, c \in {CloseLCP(r), [CloseLCP(r) EXCEPT !.req = 0]}
  PROVE  /\ IsState(c) /\ c.key = r.key /\ c.sid = r.sid /\ c.addr = r.addr
         /\ c.req \in {0, r.req} /\ c.lcp = "shut" /\ c.phase \in {r.phase, "Establish"}
         /\ r.lcp = "shut" => c.phase = r.phase
<1> DEFINE phase == IF r.lcp = "up" THEN "Establish" ELSE r.phase
<1>1. CloseLCP(r) = [r EXCEPT !.lcp = "shut", !.phase = phase]
  BY Zenon DEF CloseLCP
<1> HIDE DEF phase
<1>2. r = [key |-> r.key, sid |-> r.sid, phase |-> r.phase, lcp |-> r.lcp,
           ipcp |-> r.ipcp, req |-> r.req, addr |-> r.addr]
  BY Zenon DEF IsState
<1>3. CloseLCP(r) = [key |-> r.key, sid |-> r.sid, phase |-> phase, lcp |-> "shut",
                     ipcp |-> r.ipcp, req |-> r.req, addr |-> r.addr]
  BY <1>1, <1>2, Zenon
<1>4. CASE c = CloseLCP(r)
  BY <1>3, <1>4 DEF phase, IsState, Phase, Layer
<1>5. CASE c = [CloseLCP(r) EXCEPT !.req = 0]
  BY <1>3, <1>5 DEF phase, IsState, Phase, Layer
<1> QED
  BY <1>4, <1>5, Zenon

\* Closing LCP in a session that is in the tables or was, and asking for nothing.
LEMMA ClosingStep ==
  ASSUME IInv, NEW s \in Session, Begun(s),
         NEW c, c \in {CloseLCP(ses[s]), [CloseLCP(ses[s]) EXCEPT !.req = 0]},
         ses' = [ses EXCEPT ![s] = c],
         UNCHANGED <<pool, sidIndex, next, ending, opdb, pub, nreq, lateFail, restarts>>,
         admitted' = admitted,
         revived' = revived \/ (ses[s].phase = "Terminate" /\ revived' = revived \cup {s})
  PROVE  StepState(s) /\ StepEnded(s) /\ StepLogin(s)
<1>1. IsState(ses[s]) /\ ses = [t \in Session |-> ses[t]]
  BY Zenon DEF IInv, Types
<1>2. /\ IsState(c) /\ c.key = ses[s].key /\ c.sid = ses[s].sid /\ c.addr = ses[s].addr
      /\ c.req \in {0, ses[s].req} /\ c.lcp = "shut"
      /\ c.phase \in {ses[s].phase, "Establish"}
      /\ ses[s].lcp = "shut" => c.phase = ses[s].phase
  BY <1>1, CloseLCPState
<1>3. ses'[s] = c /\ ses' = [t \in Session |-> ses'[t]] /\ Sets(ses, ses', s)
  BY <1>1, Zenon DEF Sets
<1>4. StepState(s)
  BY <1>2, <1>3, Zenon DEF StepState, MoveState, Begun
<1>5. StepEnded(s)
  <2>1. ses[s].phase = "Terminate" /\ c.phase # "Terminate" => s \in revived
    BY <1>2, Zenon DEF IInv, SessionInv, EndedInv, Ended
  <2>2. pub' \in [Session -> {"none", "Active", "Tunneled", "Released"}] /\ Sets(pub, pub', s)
    BY Zenon DEF IInv, Types, Sets
  <2> QED
    BY <1>2, <1>3, <2>1, <2>2, Zenon DEF StepEnded, MoveEnded
<1>6. StepLogin(s)
  <2>1. c.phase \in Admitted => ses[s].phase \in Admitted
    BY <1>2, Zenon DEF Admitted
  <2> QED
    BY <1>2, <1>3, <2>1, LoginKept, Zenon
<1> QED
  BY <1>4, <1>5, <1>6, Zenon

\* A request of the dataplane is made for a session that has begun.
LEMMA AddsBegun ==
  ASSUME IInv, NEW s \in Session, adds[s].local # 0 \/ adds[s].lac # 0
  PROVE  Begun(s)
<1>1. ~Begun(s) => adds[s] = [local |-> 0, lac |-> 0]
  BY Zenon DEF IInv, SessionInv, BeginInv
<1> QED
  BY <1>1

\* A handler that leaves the session object as it is.
LEMMA SameObjectStep ==
  ASSUME IInv, NEW s \in Session, Begun(s), StepAsync(s),
         UNCHANGED <<ses, sidIndex, next, pool, ending, opdb, pub, nreq, admitted, revived,
                     lateFail, restarts>>
  PROVE  Step(s)
<1>1. StepLogin(s)
  BY LoginKept, Zenon
<1> QED
  BY <1>1, Zenon DEF Step, StepState, MoveState, StepEnded, MoveEnded, Sets, IInv, Types, Begun

\* One that changes the phase and the layers, and perhaps drops the pending
\* request.  It admits nobody, and takes a session from Terminate to another
\* phase only as one that a late handler revives.
LayersChange(s) ==
  /\ ses' = [t \in Session |-> ses'[t]] /\ Sets(ses, ses', s) /\ IsState(ses'[s])
  /\ ses'[s].key = ses[s].key /\ ses'[s].sid = ses[s].sid /\ ses'[s].addr = ses[s].addr
  /\ ses'[s].req \in {0, ses[s].req} /\ Begun(s) /\ Begun(s)'
  /\ ses'[s].phase \in Admitted => ses[s].phase \in Admitted
  /\ ses'[s].phase \in {"Network", "Open"} => ses[s].phase \in {"Network", "Open"}
  /\ ses[s].phase = "Terminate" /\ ses'[s].phase # "Terminate" => s \in revived'
  /\ ses'[s].phase = "Terminate" =>
       ses[s].phase = "Terminate" /\ ses'[s].lcp \in {"shut", ses[s].lcp} /\ pub' = pub
  /\ revived' = revived \/ (ses[s].phase = "Terminate" /\ revived' = revived \cup {s})
  /\ pub' = pub \/ \E x \in {"Active", "Tunneled"} : pub' = [pub EXCEPT ![s] = x]
  /\ UNCHANGED <<sidIndex, next, pool, ending, opdb, nreq, admitted, lateFail, restarts>>

LEMMA LayersStep ==
  ASSUME IInv, NEW s \in Session, LayersChange(s), StepAsync(s)
  PROVE  Step(s)
<1>1. StepState(s)
  BY Zenon DEF LayersChange, StepState, MoveState
<1>2. StepLogin(s)
  BY LoginKept, Zenon DEF LayersChange
<1>3. StepEnded(s)
  <2>1. /\ pub' \in [Session -> {"none", "Active", "Tunneled", "Released"}]
        /\ Sets(pub, pub', s)
    BY DEF LayersChange, IInv, Types, Sets
  <2> QED
    BY <2>1, Zenon DEF LayersChange, StepEnded, MoveEnded
<1> QED
  BY <1>1, <1>2, <1>3, Zenon DEF Step

\* LCP comes up: only a layer that was started does, which that of an ended
\* session is not.
LEMMA onLCPUpStep ==
  ASSUME IInv, NEW s \in Session, onLCPUp(s)
  PROVE  Step(s)
<1>1. IsState(ses[s]) /\ ses = [t \in Session |-> ses[t]]
  BY Zenon DEF IInv, Types
<1>2. /\ ses' = [t \in Session |-> ses'[t]] /\ Sets(ses, ses', s)
      /\ ses'[s] =
            [key |-> ses[s].key, sid |-> ses[s].sid, phase |-> "Authenticate",
             lcp |-> "up", ipcp |-> ses[s].ipcp,
             req |-> ses[s].req, addr |-> ses[s].addr]
  BY <1>1, Zenon DEF onLCPUp, Sets, IsState
<1>3. StepAsync(s)
  BY Zenon DEF onLCPUp, async, StepAsync, Sets, IInv, Types
<1>4. IsState(ses'[s])
  BY <1>1, <1>2 DEF IsState, Phase, Layer
<1>5. LayersChange(s)
  BY <1>2, <1>4
     DEF onLCPUp, Frame, Handled, tables, async, ghosts, Begun, Admitted, LayersChange,
         IInv, SessionInv, EndedInv, Ended
<1> QED
  BY <1>3, <1>5, LayersStep, Zenon

\* LCP goes down, again not in an ended session.
LEMMA onLCPDownStep ==
  ASSUME IInv, NEW s \in Session, onLCPDown(s)
  PROVE  Step(s)
<1>1. IsState(ses[s]) /\ ses = [t \in Session |-> ses[t]]
  BY Zenon DEF IInv, Types
<1>2. /\ ses' = [t \in Session |-> ses'[t]] /\ Sets(ses, ses', s)
      /\ ses'[s] =
            [key |-> ses[s].key, sid |-> ses[s].sid, phase |-> "Establish",
             lcp |-> "down", ipcp |-> ses[s].ipcp,
             req |-> ses[s].req, addr |-> ses[s].addr]
  BY <1>1, Zenon DEF onLCPDown, Sets, IsState
<1>3. StepAsync(s)
  BY Zenon DEF onLCPDown, async, StepAsync, Sets, IInv, Types
<1>4. IsState(ses'[s])
  BY <1>1, <1>2 DEF IsState, Phase, Layer
<1>5. LayersChange(s)
  BY <1>2, <1>4
     DEF onLCPDown, Handled, tables, async, ghosts, Begun, Admitted, LayersChange,
         IInv, SessionInv, EndedInv, Ended
<1> QED
  BY <1>3, <1>5, LayersStep, Zenon

\* A CHAP exchange that times out closes LCP.
LEMMA handleCHAPTimeoutStep ==
  ASSUME IInv, NEW s \in Session, handleCHAPTimeout(s)
  PROVE  Step(s)
<1>1. Begun(s)
  BY Zenon DEF handleCHAPTimeout, Begun
<1>2. StepState(s) /\ StepEnded(s) /\ StepLogin(s)
  BY <1>1, ClosingStep, Zenon DEF handleCHAPTimeout, tables, async, ghosts, budget
<1>3. StepAsync(s)
  BY Zenon DEF handleCHAPTimeout, async, StepAsync, Sets, IInv, Types
<1> QED
  BY <1>2, <1>3, Zenon DEF Step

\* A login: its number becomes that of the pending request and admits nobody yet.
LEMMA publishAAARequestStep ==
  ASSUME IInv, NEW s \in Session, publishAAARequest(s)
  PROVE  Step(s)
<1>1. IsState(ses[s]) /\ ses = [t \in Session |-> ses[t]] /\ nreq \in [Session -> Nat]
      /\ admitted \in [Session -> Nat]
  BY Zenon DEF IInv, Types
<1> DEFINE n == nreq[s] + 1
<1>2. nreq[s] \in Nat /\ n \in Nat \ {0} /\ n >= nreq[s]
  BY <1>1
<1>3. nreq' = [nreq EXCEPT ![s] = n]
  BY Zenon DEF publishAAARequest
<1> HIDE DEF n
<1>4. nreq'[s] = n /\ nreq' \in [Session -> Nat] /\ Sets(nreq, nreq', s)
  BY <1>1, <1>2, <1>3, Zenon DEF Sets
<1>5. /\ ses' = [t \in Session |-> ses'[t]] /\ Sets(ses, ses', s)
      /\ ses'[s] =
            [key |-> ses[s].key, sid |-> ses[s].sid, phase |-> ses[s].phase,
             lcp |-> ses[s].lcp, ipcp |-> ses[s].ipcp,
             req |-> n, addr |-> ses[s].addr]
  BY <1>1, <1>4, Zenon DEF publishAAARequest, Sets, IsState
<1>6. ses[s].phase = "Authenticate" /\ Begun(s)
  BY Zenon DEF publishAAARequest, Begun
<1>7. StepState(s)
  BY <1>1, <1>2, <1>5, <1>6, Zenon
     DEF publishAAARequest, tables, StepState, MoveState, IsState, Begun
<1>8. StepEnded(s)
  BY <1>5, <1>6 DEF publishAAARequest, StepEnded, MoveEnded, Sets, IInv, Types
<1>9. StepLogin(s)
  BY <1>1, <1>2, <1>4, <1>5, <1>6 DEF publishAAARequest, StepLogin, Sets, Admitted
<1>10. StepAsync(s)
  BY <1>2, <1>4 DEF publishAAARequest, StepAsync, Sets, IInv, Types
<1> QED
  BY <1>7, <1>8, <1>9, <1>10, Zenon DEF Step

\* IPCP opens a session that has its address, announces and checkpoints it.
LEMMA onIPCPUpStep ==
  ASSUME IInv, NEW s \in Session, onIPCPUp(s)
  PROVE  Step(s)
<1>1. IsState(ses[s]) /\ ses = [t \in Session |-> ses[t]]
  BY Zenon DEF IInv, Types
<1>2. /\ ses' = [t \in Session |-> ses'[t]] /\ Sets(ses, ses', s)
      /\ ses'[s] =
            [key |-> ses[s].key, sid |-> ses[s].sid, phase |-> "Open",
             lcp |-> ses[s].lcp, ipcp |-> "up",
             req |-> ses[s].req, addr |-> ses[s].addr]
  BY <1>1, Zenon DEF onIPCPUp, Sets, IsState
<1>3. StepAsync(s)
  <2>1. adds \in [Session -> [local : Nat, lac : Nat]]
    BY Zenon DEF IInv, Types
  <2>2. adds[s].local + 1 \in Nat
    BY <2>1
  <2> QED
    BY <2>1, <2>2, Zenon DEF onIPCPUp, checkOpen, StepAsync, Sets
<1>4. IsState(ses'[s])
  BY <1>1, <1>2 DEF IsState, Phase, Layer
<1>5. LayersChange(s)
  BY <1>2, <1>4
     DEF onIPCPUp, Frame, Handled, tables, async, ghosts, Begun, Admitted,
         LayersChange, checkOpen
<1> QED
  BY <1>3, <1>5, LayersStep, Zenon

\* IPCP goes down; the session stays open.
LEMMA onIPCPDownStep ==
  ASSUME IInv, NEW s \in Session, onIPCPDown(s)
  PROVE  Step(s)
<1>1. IsState(ses[s]) /\ ses = [t \in Session |-> ses[t]]
  BY Zenon DEF IInv, Types
<1>2. /\ ses' = [t \in Session |-> ses'[t]] /\ Sets(ses, ses', s)
      /\ ses'[s] =
            [key |-> ses[s].key, sid |-> ses[s].sid, phase |-> ses[s].phase,
             lcp |-> ses[s].lcp, ipcp |-> "down",
             req |-> ses[s].req, addr |-> ses[s].addr]
  BY <1>1, Zenon DEF onIPCPDown, Sets, IsState
<1>3. StepAsync(s)
  BY Zenon DEF onIPCPDown, async, StepAsync, Sets, IInv, Types
<1>4. IsState(ses'[s])
  BY <1>1, <1>2 DEF IsState, Phase, Layer
<1>5. LayersChange(s)
  BY <1>2, <1>4
     DEF onIPCPDown, Handled, tables, async, ghosts, Begun, Admitted, LayersChange
<1> QED
  BY <1>3, <1>5, LayersStep, Zenon

\* A Protocol-Reject closes IPCP only.
LEMMA handleProtocolRejectStep ==
  ASSUME IInv, NEW s \in Session, handleProtocolReject(s)
  PROVE  Step(s)
<1>1. IsState(ses[s]) /\ ses = [t \in Session |-> ses[t]]
  BY Zenon DEF IInv, Types
<1>2. /\ ses' = [t \in Session |-> ses'[t]] /\ Sets(ses, ses', s)
      /\ ses'[s] =
            [key |-> ses[s].key, sid |-> ses[s].sid, phase |-> ses[s].phase,
             lcp |-> ses[s].lcp, ipcp |-> "shut",
             req |-> ses[s].req, addr |-> ses[s].addr]
  BY <1>1, Zenon DEF handleProtocolReject, Sets, IsState
<1>3. StepAsync(s)
  BY Zenon DEF handleProtocolReject, async, StepAsync, Sets, IInv, Types
<1>4. IsState(ses'[s])
  BY <1>1, <1>2 DEF IsState, Phase, Layer
<1>5. LayersChange(s)
  BY <1>2, <1>4, Zenon
     DEF handleProtocolReject, Handled, tables, async, ghosts, Begun, Admitted,
         LayersChange
<1> QED
  BY <1>3, <1>5, LayersStep, Zenon

\* The dataplane made the interface: the session is checkpointed as it is now.
LEMMA onVPPSessionCreatedStep ==
  ASSUME IInv, NEW s \in Session, onVPPSessionCreated(s)
  PROVE  Step(s)
<1>1. adds \in [Session -> [local : Nat, lac : Nat]] /\ adds[s].local > 0
  BY Zenon DEF onVPPSessionCreated, IInv, Types
<1>2. adds[s].local - 1 \in Nat /\ adds[s].local # 0
  BY <1>1
<1>3. Begun(s)
  BY <1>2, AddsBegun, Zenon
<1>4. StepAsync(s)
  BY <1>1, <1>2, Zenon DEF onVPPSessionCreated, StepAsync, Sets
<1> QED
  BY <1>3, <1>4, SameObjectStep, Zenon DEF onVPPSessionCreated, tables, ghosts, budget

\* The dataplane answered for a session that is to be tunneled: the bring-up of
\* the L2TP session starts, or the login is rejected.
LEMMA onLACVPPSessionCreatedStep ==
  ASSUME IInv, NEW s \in Session, onLACVPPSessionCreated(s)
  PROVE  Step(s)
<1>1. adds \in [Session -> [local : Nat, lac : Nat]] /\ adds[s].lac > 0
  BY Zenon DEF onLACVPPSessionCreated, IInv, Types
<1>2. adds[s].lac - 1 \in Nat /\ adds[s].lac # 0
  BY <1>1
<1>3. Begun(s)
  BY <1>2, AddsBegun, Zenon
<1>4. StepAsync(s)
  BY <1>1, <1>2, Zenon DEF onLACVPPSessionCreated, StepAsync, Sets
<1>5. CASE ses' = ses
  BY <1>3, <1>4, <1>5, SameObjectStep, Zenon DEF onLACVPPSessionCreated, tables, ghosts, budget
<1>6. CASE ses' = [ses EXCEPT ![s] = [CloseLCP(@) EXCEPT !.req = 0]]
  <2>1. StepState(s) /\ StepEnded(s) /\ StepLogin(s)
    BY <1>3, <1>6, ClosingStep, Zenon DEF onLACVPPSessionCreated, tables, ghosts, budget
  <2> QED
    BY <1>4, <2>1, Zenon DEF Step
<1> QED
  BY <1>5, <1>6, Zenon DEF onLACVPPSessionCreated

\* The L2TP side decided: only a session that still waits for it is tunneled or
\* rejected.
LEMMA handleLACDecisionStep ==
  ASSUME IInv, NEW s \in Session, handleLACDecision(s)
  PROVE  Step(s)
<1>1. IsState(ses[s]) /\ ses = [t \in Session |-> ses[t]] /\ Begun(s)
  BY Zenon DEF handleLACDecision, IInv, Types, SessionInv, BeginInv
<1>2. StepAsync(s)
  BY Zenon DEF handleLACDecision, StepAsync, Sets, IInv, Types
<1>3. CASE UNCHANGED <<ses, puts, pub>>
  BY <1>1, <1>2, <1>3, SameObjectStep, Zenon DEF handleLACDecision, tables, ghosts, budget
<1>4. CASE /\ ses[s].phase = "LACPending"
           /\ ses' = [ses EXCEPT ![s].phase = "LACTunneled", ![s].req = 0]
           /\ pub' = [pub EXCEPT ![s] = "Tunneled"]
  <2>1. /\ ses' = [t \in Session |-> ses'[t]] /\ Sets(ses, ses', s)
        /\ ses'[s] =
            [key |-> ses[s].key, sid |-> ses[s].sid, phase |-> "LACTunneled",
             lcp |-> ses[s].lcp, ipcp |-> ses[s].ipcp,
             req |-> 0, addr |-> ses[s].addr]
    BY <1>1, <1>4, Zenon DEF Sets, IsState
  <2>2. IsState(ses'[s])
    BY <1>1, <2>1 DEF IsState, Phase
  <2>3. LayersChange(s)
    BY <1>1, <1>4, <2>1, <2>2
       DEF handleLACDecision, tables, ghosts, budget, Begun, Admitted, LayersChange
  <2> QED
    BY <1>2, <2>3, LayersStep, Zenon
<1>5. CASE /\ ses' = [ses EXCEPT ![s] = [CloseLCP(@) EXCEPT !.req = 0]]
           /\ UNCHANGED <<puts, pub>>
  <2>1. StepState(s) /\ StepEnded(s) /\ StepLogin(s)
    BY <1>1, <1>5, ClosingStep, Zenon DEF handleLACDecision, tables, ghosts, budget
  <2> QED
    BY <1>2, <2>1, Zenon DEF Step
<1> QED
  BY <1>3, <1>4, <1>5, Zenon DEF handleLACDecision

\* up() starts LCP, also in a session that has been ended meanwhile.
LEMMA upStep ==
  ASSUME IInv, NEW s \in Session, up(s)
  PROVE  Step(s)
<1>1. IsState(ses[s]) /\ ses = [t \in Session |-> ses[t]] /\ Begun(s)
  BY Zenon DEF up, IInv, Types, SessionInv, BeginInv
<1>2. StepAsync(s)
  BY Zenon DEF up, StepAsync, Sets, IInv, Types
<1>3. CASE ses' = [ses EXCEPT ![s].phase = "Establish", ![s].lcp = "down"] /\ Touched(s)
  <2>1. /\ ses' = [t \in Session |-> ses'[t]] /\ Sets(ses, ses', s)
        /\ ses'[s] =
            [key |-> ses[s].key, sid |-> ses[s].sid, phase |-> "Establish",
             lcp |-> "down", ipcp |-> ses[s].ipcp,
             req |-> ses[s].req, addr |-> ses[s].addr]
    BY <1>1, <1>3, Zenon DEF Sets, IsState
  <2>2. IsState(ses'[s])
    BY <1>1, <2>1 DEF IsState, Phase, Layer
  <2>3. LayersChange(s)
    BY <1>1, <1>3, <2>1, <2>2 DEF up, tables, Touched, Begun, Admitted, LayersChange
  <2> QED
    BY <1>2, <2>3, LayersStep, Zenon
<1>4. CASE UNCHANGED <<ses, revived>>
  BY <1>1, <1>2, <1>4, SameObjectStep, Zenon DEF up, tables
<1> QED
  BY <1>3, <1>4, Zenon DEF up

\* AAA answers; the answer goes to the session that asked, or nowhere.
LEMMA AAAAnswersStep ==
  ASSUME IInv, NEW q \in asked, AAAAnswers(q)
  PROVE  q[1] \in Session /\ Step(q[1])
<1>1. PICK s \in Session, n \in Nat \ {0} : q = <<s, n>>
  BY DEF IInv, Types
<1>2. q[1] = s /\ Begun(s)
  BY <1>1, Zenon DEF IInv, SessionInv, BeginInv
<1>3. StepAsync(s)
  BY Zenon DEF AAAAnswers, StepAsync, Sets, IInv, Types
<1> QED
  BY <1>2, <1>3, SameObjectStep, Zenon DEF AAAAnswers, tables, budget, ghosts

\* What the answer of AAA leaves alone, whatever it is.
LEMMA AuthFrame ==
  ASSUME IInv, NEW s \in Session, NEW n \in Nat \ {0}, NEW v, <<s, n>> \in found,
         onAuthResult(<<s, n>>, v)
  PROVE  /\ Begun(s) /\ IsState(ses[s]) /\ ses = [t \in Session |-> ses[t]]
         /\ UNCHANGED <<sidIndex, next, ending, opdb, lateFail, restarts, starting, lac,
                        puts, pub, nreq>>
         /\ found' \subseteq found /\ asked' = asked
         /\ pub' \in [Session -> {"none", "Active", "Tunneled", "Released"}]
         /\ Sets(pub, pub', s) /\ nreq \in [Session -> Nat] /\ admitted \in [Session -> Nat]
<1>1. Begun(s)
  BY Zenon DEF IInv, SessionInv, BeginInv
<1> QED
  BY <1>1, Zenon DEF onAuthResult, tables, budget, IInv, Types, Sets

\* The answer to the pending request is the answer to the newest login.
LEMMA AuthLogin ==
  ASSUME IInv, NEW s \in Session, NEW n \in Nat \ {0}, NEW v, <<s, n>> \in found,
         onAuthResult(<<s, n>>, v), ses[s].req = n, v # "refuse", ses'[s].req = 0
  PROVE  StepLogin(s)
<1>1. n = nreq[s] /\ n > 0
  BY DEF IInv, SessionInv, LoginInv
<1>2. nreq' = nreq /\ nreq \in [Session -> Nat] /\ admitted \in [Session -> Nat]
  BY AuthFrame, Zenon
<1>3. admitted' = [admitted EXCEPT ![s] = n]
  BY Zenon DEF onAuthResult
<1>4. nreq'[s] >= nreq[s]
  BY <1>2
<1> QED
  BY <1>1, <1>2, <1>3, <1>4, Zenon DEF StepLogin, Sets

\* An answer that is not the pending request's changes nothing.
LEMMA StaleResultStep ==
  ASSUME IInv, NEW s \in Session, NEW n \in Nat \ {0}, NEW v, <<s, n>> \in found,
         onAuthResult(<<s, n>>, v), ses[s].req # n
  PROVE  Step(s)
<1>1. UNCHANGED <<ses, pool, adds, admitted, revived>>
  BY Zenon DEF onAuthResult
<1>2. StepAsync(s)
  BY <1>1, AuthFrame, Zenon DEF StepAsync, Sets, IInv, Types
<1> QED
  BY <1>1, <1>2, AuthFrame, SameObjectStep, Zenon

\* A refusal closes LCP.
LEMMA RefusedStep ==
  ASSUME IInv, NEW s \in Session, NEW n \in Nat \ {0}, <<s, n>> \in found,
         onAuthResult(<<s, n>>, "refuse"), ses[s].req = n
  PROVE  Step(s)
<1>1. /\ ses' = [ses EXCEPT ![s] = [CloseLCP(@) EXCEPT !.req = 0]]
      /\ UNCHANGED <<pool, adds>>
  BY Zenon DEF onAuthResult
<1>2. admitted' = admitted
  <2>1. admitted' = [admitted EXCEPT ![s] = admitted[s]]
    BY Zenon DEF onAuthResult
  <2> QED
    BY <2>1, AuthFrame, Zenon
<1>3. revived' = revived \/ (ses[s].phase = "Terminate" /\ revived' = revived \cup {s})
  BY Zenon DEF onAuthResult, Touched
<1>4. StepState(s) /\ StepEnded(s) /\ StepLogin(s)
  BY <1>1, <1>2, <1>3, AuthFrame, ClosingStep, Zenon
<1>5. StepAsync(s)
  BY <1>1, AuthFrame, Zenon DEF StepAsync, Sets, IInv, Types
<1> QED
  BY <1>4, <1>5, Zenon DEF Step

\* A tunneled login asks for the interface and waits.
LEMMA TunneledStep ==
  ASSUME IInv, NEW s \in Session, NEW n \in Nat \ {0}, <<s, n>> \in found,
         onAuthResult(<<s, n>>, "tunnel"), ses[s].req = n
  PROVE  Step(s)
<1>1. startLACVPPSessionAdd(s)
      /\ revived' = IF ses[s].phase = "Terminate" THEN revived \cup {s} ELSE revived
  BY Zenon DEF onAuthResult, Touched
<1>2. /\ Begun(s) /\ IsState(ses[s]) /\ ses = [t \in Session |-> ses[t]]
      /\ UNCHANGED <<sidIndex, next, ending, opdb, lateFail, restarts>>
  BY AuthFrame, Zenon
<1>3. /\ ses' = [t \in Session |-> ses'[t]] /\ Sets(ses, ses', s)
      /\ ses'[s] =
           [key |-> ses[s].key, sid |-> ses[s].sid, phase |-> "LACPending",
            lcp |-> ses[s].lcp, ipcp |-> ses[s].ipcp, req |-> 0, addr |-> ses[s].addr]
  BY <1>1, <1>2, Zenon DEF startLACVPPSessionAdd, Sets, IsState
<1>4. StepState(s)
  BY <1>1, <1>3, <1>2, Zenon
     DEF startLACVPPSessionAdd, StepState, MoveState, IsState, Begun, Phase
<1>5. StepEnded(s)
  BY <1>1, <1>3, AuthFrame DEF StepEnded, MoveEnded
<1>6. StepLogin(s)
  BY <1>3, AuthLogin
<1>7. StepAsync(s)
  <2>1. adds \in [Session -> [local : Nat, lac : Nat]]
    BY Zenon DEF IInv, Types
  <2>2. adds[s].lac + 1 \in Nat
    BY <2>1
  <2>3. adds' \in [Session -> [local : Nat, lac : Nat]] /\ Sets(adds, adds', s)
    BY <1>1, <2>1, <2>2, Zenon DEF startLACVPPSessionAdd, Sets
  <2> QED
    BY <2>3, AuthFrame, Zenon DEF StepAsync
<1> QED
  BY <1>4, <1>5, <1>6, <1>7, Zenon DEF Step

\* What startNCP is relied on for: a pool address comes with its lease, which
\* nobody else had; the address of AAA, and the one the session had, are
\* replaced only when somebody else has them.
Assigned(s) ==
  LET x == AssignedAddr(s)
      q == AssignedPool(s)
      a == Proposed(s)
  IN  /\ q \in Pool /\ Conserved(q) /\ x \in 1..Fallback
      /\ a \in 0..Fallback
      /\ x \in Addr => /\ q.leases = [pool.leases EXCEPT ![x] = s]
                       /\ pool.leases[x] \in {Nobody, s}
                       /\ a \in {0, x}
      /\ x = Fallback => q.leases = pool.leases /\ (a \in Addr => pool.leases[a] # s)
      /\ a # 0 => x \in {a, Fallback}

\* The address of a session is the one startNCP assigns.
LEMMA AcceptedMove ==
  ASSUME IInv, NEW s \in Session, NEW n \in Nat \ {0}, <<s, n>> \in found,
         onAuthResult(<<s, n>>, "accept"), ses[s].req = n, Assigned(s)
  PROVE  /\ Move(s) /\ pool' = AssignedPool(s)
         /\ ses'[s].addr = AssignedAddr(s) /\ ses'[s].phase = "Network"
<1> DEFINE x == AssignedAddr(s)
           i == IF ses[s].ipcp = "shut" THEN "down" ELSE ses[s].ipcp
<1>1. /\ pool' = AssignedPool(s) /\ adds' = adds
      /\ ses' = [ses EXCEPT ![s].phase = "Network", ![s].req = 0, ![s].addr = x,
                            ![s].ipcp = i]
      /\ revived' = IF ses[s].phase = "Terminate" THEN revived \cup {s} ELSE revived
  BY Zenon DEF onAuthResult, onAuthSuccess, Touched
<1>2. /\ x \in 0..Fallback /\ pool' \in Pool /\ Conserved(pool')
      /\ ses[s].key \in Key /\ Framed[ses[s].key] # 0 =>
           x \in {0, Framed[ses[s].key], Fallback}
  <2>1. Fallback \in Nat
    BY AddrAssumption DEF Fallback
  <2> QED
    BY <1>1, <2>1 DEF Assigned, Proposed
<1>3. /\ Begun(s) /\ IsState(ses[s]) /\ ses = [t \in Session |-> ses[t]]
      /\ UNCHANGED <<sidIndex, next, ending, opdb, lateFail, restarts>>
  BY AuthFrame, Zenon
<1>4. i \in Layer
  BY <1>3, Zenon DEF IsState, Layer
<1> HIDE DEF x, i
<1>5. /\ ses' = [t \in Session |-> ses'[t]] /\ Sets(ses, ses', s)
      /\ ses'[s] =
           [key |-> ses[s].key, sid |-> ses[s].sid, phase |-> "Network",
            lcp |-> ses[s].lcp, ipcp |-> i, req |-> 0, addr |-> x]
  BY <1>1, <1>3, Zenon DEF Sets, IsState
<1>6. MoveState(s)
  BY <1>2, <1>4, <1>5, <1>3 DEF MoveState, IsState, Begun, Phase
<1>7. MoveEnded(s)
  BY <1>1, <1>5, AuthFrame DEF MoveEnded
<1>8. StepLogin(s)
  BY <1>5, AuthLogin
<1>9. StepAsync(s)
  BY <1>1, AuthFrame, Zenon DEF StepAsync, Sets, IInv, Types
<1> QED
  BY <1>1, <1>2, <1>5, <1>6, <1>7, <1>8, <1>9 DEF Move, x

\* Afterwards that address is the one lease of the session, if it is of the
\* pool, and nobody else's leases change.
LEMMA AssignedLeases ==
  ASSUME IInv, NEW s \in Session, Begun(s), Assigned(s), NEW b \in Addr
  PROVE  /\ AssignedPool(s).leases[b] = s <=> b = AssignedAddr(s)
         /\ \A t \in Session : t # s =>
              (AssignedPool(s).leases[b] = t <=> pool.leases[b] = t)
<1> DEFINE x == AssignedAddr(s)
           r == AssignedPool(s)
           a == Proposed(s)
<1>1. pool.leases \in [Addr -> Session \cup {Nobody}]
  BY Zenon DEF IInv, Types, Pool
<1>2. LastAddr \in Nat /\ Addr = 1..LastAddr /\ Fallback = LastAddr + 1
  BY AddrAssumption, Zenon DEF Addr, Fallback
<1>3. /\ x \in Addr => /\ r.leases = [pool.leases EXCEPT ![x] = s]
                       /\ pool.leases[x] \in {Nobody, s} /\ a \in {0, x}
      /\ x = Fallback => r.leases = pool.leases /\ (a \in Addr => pool.leases[a] # s)
      /\ x \in 1..Fallback
  BY Zenon DEF Assigned
<1>4. pool.leases[b] = s => b = a
  <2>1. ses[s].key \in Key
    BY Zenon DEF Begun, IInv, SessionInv, BeginInv
  <2>2. pool.leases[b] = s => ses[s].addr = b
    BY Zenon DEF IInv, LeaseInv
  <2>3. b # 0 /\ b # Fallback
    BY <1>2
  <2> QED
    BY <2>1, <2>2, <2>3, Zenon DEF Proposed, IInv, SessionInv, FramedInv
<1>5. b # 0 /\ Fallback \notin Addr /\ (x \in Addr \/ x = Fallback)
  BY <1>2, <1>3
<1> HIDE DEF x, r, a
<1>6. CASE x \in Addr
  BY <1>1, <1>3, <1>4, <1>5, <1>6, NobodyAssumption, Zenon DEF x, r
<1>7. CASE x = Fallback
  BY <1>3, <1>4, <1>5, <1>7, Zenon DEF x, r
<1> QED
  BY <1>5, <1>6, <1>7, Zenon

\* An accept gives the session its address.
LEMMA AcceptedKeeps ==
  ASSUME IInv, NEW s \in Session, NEW n \in Nat \ {0}, <<s, n>> \in found,
         onAuthResult(<<s, n>>, "accept"), ses[s].req = n, Assigned(s)
  PROVE  IInv'
<1>1. /\ Move(s) /\ Change(s) /\ ses'[s].addr = AssignedAddr(s)
      /\ ses'[s].phase = "Network" /\ Begun(s)
  BY AcceptedMove, AuthFrame, MoveIsChange, Zenon
<1>2. \A b \in Addr : /\ pool'.leases[b] = s <=> b = ses'[s].addr
                      /\ \A t \in Session : t # s =>
                           (pool'.leases[b] = t <=> pool.leases[b] = t)
  BY <1>1, AcceptedMove, AssignedLeases
<1>3. \A t \in Session : t # s => /\ ses'[t] = ses[t] /\ Uses(t)' = Uses(t)
                                  /\ Ended(t)' = Ended(t) /\ Alive(t)' = Alive(t)
  BY <1>1, OthersKept, Zenon
<1>4. LeaseInv'
  <2>1. ~Ended(s)'
    BY <1>1, Zenon DEF Ended
  <2> QED
    BY <1>2, <1>3, <2>1 DEF IInv, LeaseInv
<1>5. HeldInv'
  <2>1. UNCHANGED <<ending, lateFail, restarts>>
    BY <1>1, Zenon DEF Move, MoveState
  <2>2. Alive(s) => Alive(s)'
    BY <1>1, Zenon DEF Move, MoveEnded, Alive
  <2> QED
    BY <1>2, <1>3, <2>1, <2>2 DEF IInv, HeldInv
<1> QED
  BY <1>1, <1>4, <1>5, MoveKeeps, Zenon

\* The answer of AAA.
LEMMA onAuthResultKeeps ==
  ASSUME IInv, NEW q \in found, NEW v \in {"accept", "tunnel", "refuse"},
         onAuthResult(q, v), Assigned(q[1])
  PROVE  IInv'
<1>1. PICK s \in Session, n \in Nat \ {0} : q = <<s, n>>
  BY DEF IInv, Types
<1>2. CASE ses[s].req # n
  BY <1>1, <1>2, StaleResultStep, StepKeeps, Zenon
<1>3. CASE ses[s].req = n /\ v = "refuse"
  BY <1>1, <1>3, RefusedStep, StepKeeps, Zenon
<1>4. CASE ses[s].req = n /\ v = "tunnel"
  BY <1>1, <1>4, TunneledStep, StepKeeps, Zenon
<1>5. CASE ses[s].req = n /\ v = "accept"
  BY <1>1, <1>5, AcceptedKeeps, Zenon
<1> QED
  BY <1>2, <1>3, <1>4, <1>5, Zenon

-----------------------------------------------------------------------------
(***************************************************************************)
(* Discovery, the teardown and the checkpoints.                            *)
(***************************************************************************)
\* What is to be shown of a change.
LEMMA ChangeKeeps ==
  ASSUME IInv, NEW s \in Session, Change(s), Types', SessionInv(s)',
         LeaseInv', IndexInv', HeldInv'
  PROVE  IInv'
BY OthersKept, Zenon DEF IInv

\* The two halves of handlePADR: the session that is made, then entered.
Entering(s) ==
  /\ ses' = [t \in Session |-> ses'[t]] /\ Sets(ses, ses', s) /\ IsState(ses'[s])
  /\ ses[s].phase \in {"none", "New"} /\ ses'[s].phase \in {"New", "Dead"}
  /\ ses'[s].phase = "New" => ses[s].phase = "none"
  /\ ses'[s].key \in Key /\ ses'[s].req = ses[s].req /\ ses'[s].addr = ses[s].addr
  /\ starting' = starting \/ (starting' = starting \cup {s} /\ ses'[s].phase = "Dead")
  /\ UNCHANGED <<pool, asked, found, adds, lac, ending, puts, opdb, pub, nreq, admitted,
                 revived, lateFail, restarts>>

\* Nothing refers to the session yet but the index, once it is entered.
LEMMA EnteringKeeps ==
  ASSUME IInv, NEW s \in Session, Entering(s), IndexInv'
  PROVE  IInv'
<1>1. Change(s)
  BY Zenon DEF Entering, Change, Sets
<1>2. Types'
  <2>1. \A t \in Session : IsState(ses'[t])
    BY Zenon DEF Entering, IInv, Types, Sets
  <2> QED
    BY <2>1, Zenon DEF Entering, IInv, Types
<1>3. SessionInv(s) /\ ~Begun(s)
  BY Zenon DEF IInv, Entering, Begun
<1>4. ses[s].addr = 0 /\ opdb[s] = NoCheckpoint /\ (\A p \in puts : p.ses # s)
      /\ (restarts = 0 => ending[s] = 0)
  BY <1>3, Zenon DEF SessionInv, BeginInv
<1>5. SessionInv(s)'
  <2>1. BeginInv(s)'
    BY <1>3, Zenon DEF Entering, SessionInv, BeginInv, Begun
  <2>2. LoginInv(s)' /\ EndedInv(s)'
    BY <1>3, <1>4, Zenon
       DEF Entering, SessionInv, LoginInv, EndedInv, Ended, Admitted, NoCheckpoint
  <2>3. FramedInv(s)'
    BY <1>4 DEF Entering, FramedInv, NoCheckpoint
  <2> QED
    BY <2>1, <2>2, <2>3, Zenon DEF SessionInv
<1>6. LeaseInv' /\ HeldInv'
  <2>1. ~Ended(s)' /\ (Uses(s)' => Uses(s)) /\ pool' = pool /\ lateFail' = lateFail
        /\ ses'[s].addr = ses[s].addr
    BY Zenon DEF Entering, Ended, Uses, Alive
  <2>2. restarts = 0 => ending'[s] = 0
    BY <1>4, Zenon DEF Entering
  <2>3. restarts = 0 => ~(ending'[s] > 0)
    BY <2>2
  <2> QED
    BY <1>1, <2>1, <2>3, LeasesKept, Zenon
<1> QED
  BY <1>1, <1>2, <1>5, <1>6, ChangeKeeps, Zenon

\* What allocateSessionID is relied on for: it finds an ID of the range, or 0,
\* and the counter stays in the range.
SidInRange ==
  /\ allocateSessionID \in 0..MaxSid
  /\ allocateSessionID # 0 => Following(allocateSessionID) \in 1..MaxSid

\* A PADR makes the session object.
LEMMA handlePADRKeeps ==
  ASSUME IInv, NEW s \in Session, NEW k \in Key, handlePADR(s, k),
         next \in 1..MaxSid => SidInRange
  PROVE  IInv'
<1> DEFINE sid == allocateSessionID
<1>1. IsState(ses[s]) /\ ses = [t \in Session |-> ses[t]] /\ ses[s].phase = "none"
  BY Zenon DEF handlePADR, IInv, Types
<1>2. /\ ses' = [ses EXCEPT ![s].key = k, ![s].sid = sid, ![s].phase = "New"]
      /\ sidIndex' = sidIndex /\ restarts' = restarts
      /\ restarts = 0 => sid \in 0..MaxSid /\ next' \in 1..MaxSid
  BY Zenon DEF handlePADR, SidInRange, IInv, IndexInv, budget
<1> HIDE DEF sid
<1>3. /\ ses' = [t \in Session |-> ses'[t]] /\ Sets(ses, ses', s)
      /\ ses'[s] = [key |-> k, sid |-> sid, phase |-> "New", lcp |-> ses[s].lcp,
                    ipcp |-> ses[s].ipcp, req |-> ses[s].req, addr |-> ses[s].addr]
  BY <1>1, <1>2, Zenon DEF Sets, IsState
<1>4. Entering(s)
  <2>1. IsState(ses'[s])
    BY <1>1, <1>3 DEF IsState, Phase
  <2>2. UNCHANGED <<starting, pool, asked, found, adds, lac, ending, puts, opdb, pub, nreq,
                    admitted, revived, lateFail, restarts>>
    BY Zenon DEF handlePADR, async, ghosts, budget
  <2> QED
    BY <1>1, <1>3, <2>1, <2>2 DEF Entering
<1>5. ASSUME restarts = 0 PROVE IndexInv'
  <2>1. /\ sidIndex \in [0..MaxSid -> Session \cup {Nobody}]
        /\ \A t \in Session : ses[t].sid \in 0..MaxSid
        /\ \A i \in 0..MaxSid, t \in Session : sidIndex[i] = t =>
             i = ses[t].sid /\ Begun(t) /\ ending[t] = 0 /\ Alive(t)
    BY <1>5, Zenon DEF IInv, IndexInv
  <2>2. \A t \in Session : t # s => /\ ses'[t] = ses[t] /\ Begun(t)' = Begun(t)
                                    /\ Alive(t)' = Alive(t)
    BY <1>4, Zenon DEF Entering, Sets, Begun, Alive
  <2>3. /\ ses'[s].sid \in 0..MaxSid /\ next' \in 1..MaxSid /\ ~Begun(s)
        /\ ending' = ending /\ sidIndex' = sidIndex
    BY <1>1, <1>2, <1>3, <1>4, <1>5 DEF Begun, Entering
  <2>4. \A t \in Session : ses'[t].sid \in 0..MaxSid
    BY <2>1, <2>2, <2>3, Zenon
  <2> QED
    BY <2>1, <2>2, <2>3, <2>4 DEF IndexInv
<1>6. IndexInv'
  BY <1>2, <1>5, Zenon DEF IndexInv
<1> QED
  BY <1>4, <1>6, EnteringKeeps, Zenon

\* The session enters the tables; whatever session the entries named is not
\* named there any more.
LEMMA EnterSessionKeeps ==
  ASSUME IInv, NEW s \in Session, EnterSession(s)
  PROVE  IInv'
<1>1. IsState(ses[s]) /\ ses = [t \in Session |-> ses[t]] /\ ses[s].phase = "New"
      /\ BeginInv(s)
  BY Zenon DEF EnterSession, IInv, Types, SessionInv
<1>2. /\ ses' = [t \in Session |-> ses'[t]] /\ Sets(ses, ses', s)
      /\ ses'[s] =
            [key |-> ses[s].key, sid |-> ses[s].sid, phase |-> "Dead",
             lcp |-> ses[s].lcp, ipcp |-> ses[s].ipcp,
             req |-> ses[s].req, addr |-> ses[s].addr]
  BY <1>1, Zenon DEF EnterSession, Sets, IsState
<1>3. Entering(s)
  <2>1. IsState(ses'[s])
    BY <1>1, <1>2 DEF IsState, Phase
  <2> QED
    BY <1>1, <1>2, <2>1 DEF EnterSession, ghosts, budget, Entering, BeginInv
<1>4. sidIndex' = [sidIndex EXCEPT ![ses[s].sid] = s] /\ next' = next /\ ending' = ending
      /\ restarts' = restarts
  BY Zenon DEF EnterSession, addToIndexes, ghosts, budget
<1>5. ASSUME restarts = 0 PROVE IndexInv'
  <2>1. /\ sidIndex \in [0..MaxSid -> Session \cup {Nobody}] /\ next \in 1..MaxSid
        /\ \A t \in Session : ses[t].sid \in 0..MaxSid
        /\ \A i \in 0..MaxSid, t \in Session : sidIndex[i] = t =>
             i = ses[t].sid /\ Begun(t) /\ ending[t] = 0 /\ Alive(t)
    BY <1>5, Zenon DEF IInv, IndexInv
  <2>2. /\ sidIndex' \in [0..MaxSid -> Session \cup {Nobody}] /\ sidIndex'[ses[s].sid] = s
        /\ \A i \in 0..MaxSid : i # ses[s].sid => sidIndex'[i] = sidIndex[i]
    BY <1>4, <2>1, Zenon
  <2>3. \A t \in Session : /\ ses'[t].sid = ses[t].sid
                           /\ t # s => Begun(t)' = Begun(t) /\ Alive(t)' = Alive(t)
    BY <1>2, <1>3 DEF Entering, Sets, Begun, Alive
  <2>4. ~Begun(s) /\ Begun(s)' /\ ending[s] = 0 /\ Alive(s)'
    BY <1>1, <1>2, <1>3, <1>5, Zenon DEF BeginInv, Begun, Alive, Entering
  <2> QED
    BY <1>4, <2>1, <2>2, <2>3, <2>4 DEF IndexInv
<1>6. IndexInv'
  BY <1>4, <1>5, Zenon DEF IndexInv
<1> QED
  BY <1>3, <1>6, EnteringKeeps, Zenon

\* A session that leaves the tables has no entry in the index by session ID.
LEMMA RemovedFromIndex ==
  ASSUME IInv, NEW s \in Session, removeFromIndexes(s), Sets(ending, ending', s),
         UNCHANGED <<ses, next, revived, restarts>>
  PROVE  IndexInv'
<1>1. SUFFICES ASSUME restarts = 0
               PROVE  /\ sidIndex' \in [0..MaxSid -> Session \cup {Nobody}]
                      /\ \A i \in 0..MaxSid, t \in Session : sidIndex'[i] = t =>
                           sidIndex[i] = t /\ t # s
  <2>1. \A t \in Session : Alive(t)' = Alive(t) /\ Begun(t)' = Begun(t)
    BY Zenon DEF Alive, Begun
  <2> QED
    BY <1>1, <2>1, Zenon DEF IInv, IndexInv, Sets
<1>2. /\ sidIndex \in [0..MaxSid -> Session \cup {Nobody}] /\ ses[s].sid \in 0..MaxSid
      /\ \A i \in 0..MaxSid : sidIndex[i] = s => i = ses[s].sid
  BY <1>1, Zenon DEF IInv, IndexInv
<1>3. sidIndex' = [sidIndex EXCEPT ![ses[s].sid] = Nobody]
  BY Zenon DEF removeFromIndexes
<1> QED
  BY <1>2, <1>3, NobodyAssumption, Zenon

\* The record that stands for no checkpoint.
LEMMA NoCheckpointType ==
  /\ NoCheckpoint \in [phase : Phase, addr : 0..Fallback]
  /\ NoCheckpoint.phase = "none" /\ NoCheckpoint.addr = 0
<1>1. 0 \in 0..Fallback
  BY AddrAssumption DEF Fallback
<1> QED
  BY <1>1, Zenon DEF NoCheckpoint, Phase

\* A change around a session object that stays as it is: a request of the
\* dataplane is answered, a checkpoint is written or deleted, an end begins.
Around(s) ==
  /\ UNCHANGED <<ses, next, pool, starting, asked, found, lac, nreq, admitted, revived,
                 restarts>>
  /\ adds' \in [Session -> [local : Nat, lac : Nat]] /\ Sets(adds, adds', s)
  /\ adds'[s] = adds[s] \/ Begun(s)
  /\ ending' \in [Session -> Nat] /\ Sets(ending, ending', s)
  /\ ending'[s] = ending[s] \/ (ses[s].phase # "none" /\ (restarts = 0 => Begun(s)))
  /\ opdb' \in [Session -> [phase : Phase, addr : 0..Fallback]] /\ Sets(opdb, opdb', s)
  /\ \/ opdb'[s] \in {opdb[s], NoCheckpoint}
     \/ \E p \in puts : p.ses = s /\ opdb'[s].phase = p.phase /\ opdb'[s].addr = p.addr
  /\ puts' \subseteq puts
  /\ pub' \in [Session -> {"none", "Active", "Tunneled", "Released"}]
  /\ Sets(pub, pub', s) /\ pub'[s] \in {pub[s], "Released"}
  /\ lateFail' \in BOOLEAN /\ (lateFail => lateFail')
  /\ restarts = 0 /\ ~lateFail' /\ ending'[s] > 0 => ending'[s] = 1 /\ Alive(s)

LEMMA AroundKeeps ==
  ASSUME IInv, NEW s \in Session, Around(s), IndexInv'
  PROVE  IInv'
<1>1. Types' /\ Change(s)
  BY Zenon DEF Around, IInv, Types, Change, Sets
<1>2. Begun(s)' = Begun(s) /\ Ended(s)' = Ended(s) /\ Alive(s)' = Alive(s)
      /\ Uses(s)' = Uses(s)
  BY Zenon DEF Around, Begun, Ended, Alive, Uses
<1>3. SessionInv(s)
  BY Zenon DEF IInv
<1>4. BeginInv(s)'
  BY <1>2, <1>3, NoCheckpointType, Zenon DEF Around, SessionInv, BeginInv
<1>5. LoginInv(s)'
  BY <1>3, NoCheckpointType, Zenon DEF Around, SessionInv, LoginInv, Admitted
<1>6. FramedInv(s)'
  BY <1>3, NoCheckpointType, Zenon DEF Around, SessionInv, FramedInv
<1>7. EndedInv(s)'
  BY <1>2, <1>3, NoCheckpointType, Zenon DEF Around, SessionInv, EndedInv
<1>8. LeaseInv' /\ HeldInv'
  BY <1>1, <1>2, LeasesKept, Zenon DEF Around
<1> QED
  BY <1>1, <1>4, <1>5, <1>6, <1>7, <1>8, ChangeKeeps, Zenon DEF SessionInv

\* A failed dataplane request takes the session off the tables and the
\* database and begins its end.  Unless the session had ended before, it is
\* its only end.
LEMMA tearDownSessionAfterVPPFailureKeeps ==
  ASSUME IInv, NEW s \in Session, tearDownSessionAfterVPPFailure(s)
  PROVE  IInv'
<1>1. /\ adds \in [Session -> [local : Nat, lac : Nat]] /\ adds[s].local > 0
      /\ ending \in [Session -> Nat] /\ ending[s] \in Nat
      /\ opdb \in [Session -> [phase : Phase, addr : 0..Fallback]]
      /\ pub \in [Session -> {"none", "Active", "Tunneled", "Released"}]
  BY Zenon DEF tearDownSessionAfterVPPFailure, IInv, Types
<1>2. adds[s].local - 1 \in Nat /\ adds[s].local # 0 /\ ending[s] + 1 \in Nat
  BY <1>1
<1>3. Begun(s)
  BY <1>2, AddsBegun, Zenon
<1>4. /\ adds' \in [Session -> [local : Nat, lac : Nat]] /\ Sets(adds, adds', s)
      /\ pub' \in [Session -> {"none", "Active", "Tunneled", "Released"}]
      /\ Sets(pub, pub', s) /\ pub'[s] = "Released"
      /\ opdb' \in [Session -> [phase : Phase, addr : 0..Fallback]]
      /\ Sets(opdb, opdb', s) /\ opdb'[s] = NoCheckpoint
      /\ ending' \in [Session -> Nat] /\ Sets(ending, ending', s)
      /\ ending'[s] = ending[s] + 1
  BY <1>1, <1>2, NoCheckpointType, Zenon DEF tearDownSessionAfterVPPFailure, Sets
<1>5. /\ lateFail' \in BOOLEAN /\ (lateFail => lateFail')
      /\ restarts = 0 /\ ~lateFail' /\ ending'[s] > 0 => ending'[s] = 1 /\ Alive(s)
  <2>1. lateFail' = (lateFail \/ ending[s] > 0 \/ ~Alive(s))
    BY Zenon DEF tearDownSessionAfterVPPFailure, Alive
  <2>2. ~lateFail' => ~(ending[s] > 0) /\ Alive(s)
    BY <2>1, Zenon
  <2>3. ~(ending[s] > 0) => ending'[s] = 1
    BY <1>1, <1>4
  <2> QED
    BY <2>1, <2>2, <2>3, Zenon
<1>6. Around(s)
  BY <1>3, <1>4, <1>5, Zenon DEF tearDownSessionAfterVPPFailure, Around, Begun
<1>7. IndexInv'
  BY <1>4, RemovedFromIndex, Zenon DEF tearDownSessionAfterVPPFailure
<1> QED
  BY <1>6, <1>7, AroundKeeps, Zenon

\* A PADT, a dead peer or the operator finds the session by its session ID:
\* its end had not begun.
LEMMA EndSessionKeeps ==
  ASSUME IInv, NEW s \in Session, EndSession(s)
  PROVE  IInv'
<1>1. ending \in [Session -> Nat] /\ ending[s] \in Nat /\ ending[s] + 1 \in Nat
  BY DEF IInv, Types
<1>2. ending' \in [Session -> Nat] /\ Sets(ending, ending', s) /\ ending'[s] = ending[s] + 1
  BY <1>1, Zenon DEF EndSession, Sets
<1>3. restarts = 0 => Begun(s) /\ ending'[s] = 1 /\ Alive(s)
  BY <1>2 DEF EndSession, IInv, IndexInv
<1>4. Around(s)
  BY <1>2, <1>3, Zenon DEF EndSession, ghosts, budget, Around, Sets, IInv, Types
<1>5. IndexInv'
  BY <1>2, RemovedFromIndex, Zenon DEF EndSession, ghosts, budget
<1> QED
  BY <1>4, <1>5, AroundKeeps, Zenon

\* A checkpoint write lands, however late.
LEMMA PutLandsKeeps ==
  ASSUME IInv, NEW p \in puts, PutLands(p)
  PROVE  IInv'
<1> DEFINE s == p.ses
           c == [phase |-> p.phase, addr |-> p.addr]
<1>1. p \in [ses : Session, phase : Phase, addr : 0..Fallback]
      /\ opdb \in [Session -> [phase : Phase, addr : 0..Fallback]]
  BY Zenon DEF IInv, Types
<1>2. s \in Session /\ c \in [phase : Phase, addr : 0..Fallback]
      /\ c.phase = p.phase /\ c.addr = p.addr
  BY <1>1, Zenon
<1>3. opdb' = [opdb EXCEPT ![s] = c]
  BY Zenon DEF PutLands
<1> HIDE DEF c
<1>4. /\ opdb' \in [Session -> [phase : Phase, addr : 0..Fallback]]
      /\ Sets(opdb, opdb', s) /\ opdb'[s].phase = p.phase /\ opdb'[s].addr = p.addr
  BY <1>1, <1>2, <1>3, Zenon DEF Sets
<1>5. restarts = 0 /\ ~lateFail /\ ending[s] > 0 => ending[s] = 1 /\ Alive(s)
  BY <1>2, Zenon DEF IInv, HeldInv
<1>6. Around(s)
  BY <1>4, <1>5, Zenon DEF PutLands, tables, ghosts, budget, Around, Sets, IInv, Types
<1>7. IndexInv'
  BY Zenon DEF PutLands, tables, ghosts, budget, IInv, IndexInv, Begun, Alive
<1> QED
  BY <1>2, <1>6, <1>7, AroundKeeps, Zenon

\* Every other handler of a session keeps the invariant too.
LEMMA HandlersKeep ==
  ASSUME IInv, NEW s \in Session,
         \/ up(s) \/ onLCPUp(s) \/ onLCPDown(s) \/ handleCHAPTimeout(s)
         \/ publishAAARequest(s) \/ onIPCPUp(s) \/ onIPCPDown(s) \/ handleProtocolReject(s)
         \/ onVPPSessionCreated(s) \/ onLACVPPSessionCreated(s) \/ handleLACDecision(s)
  PROVE  IInv'
<1>1. Step(s)
  BY upStep, onLCPUpStep, onLCPDownStep, handleCHAPTimeoutStep, publishAAARequestStep,
  onIPCPUpStep, onIPCPDownStep, handleProtocolRejectStep, onVPPSessionCreatedStep,
  onLACVPPSessionCreatedStep, handleLACDecisionStep, Zenon
<1> QED
  BY <1>1, StepKeeps, Zenon

\* A stuttering step.
LEMMA StutterKeeps ==
  ASSUME IInv, UNCHANGED vars
  PROVE  IInv'
<1>1. UNCHANGED <<ses, sidIndex, next, pool, starting, asked, found, adds, lac, ending, puts,
                  opdb, pub, nreq, admitted, revived, lateFail, restarts>>
  BY Zenon DEF vars, tables, async, ghosts, budget
<1>2. Types'
  BY <1>1, Zenon DEF IInv, Types
<1>3. ASSUME NEW s \in Session
      PROVE  /\ SessionInv(s)' /\ Begun(s)' = Begun(s) /\ Alive(s)' = Alive(s)
             /\ Ended(s)' = Ended(s) /\ Uses(s)' = Uses(s)
  <2>1. Begun(s)' = Begun(s) /\ Alive(s)' = Alive(s) /\ Ended(s)' = Ended(s)
        /\ Uses(s)' = Uses(s)
    BY <1>1, Zenon DEF Begun, Alive, Ended, Uses
  <2>2. BeginInv(s)'
    BY <1>1, <2>1, Zenon DEF IInv, SessionInv, BeginInv
  <2>3. LoginInv(s)'
    BY <1>1, Zenon DEF IInv, SessionInv, LoginInv
  <2>4. FramedInv(s)'
    BY <1>1, Zenon DEF IInv, SessionInv, FramedInv
  <2>5. EndedInv(s)'
    BY <1>1, <2>1, Zenon DEF IInv, SessionInv, EndedInv
  <2> QED
    BY <2>1, <2>2, <2>3, <2>4, <2>5, Zenon DEF SessionInv
<1>4. LeaseInv' /\ HeldInv' /\ IndexInv'
  BY <1>1, <1>3, Zenon DEF IInv, LeaseInv, HeldInv, IndexInv
<1> QED
  BY <1>2, <1>3, <1>4, Zenon DEF IInv
-----------------------------------------------------------------------------

\* terminate() closes the session's layers; its address stays in the object.
LEMMA TerminatedState ==
  ASSUME IInv, NEW s \in Session, terminate(s)
  PROVE  /\ ses' = [t \in Session |-> ses'[t]] /\ Sets(ses, ses', s) /\ IsState(ses'[s])
         /\ ses'[s].key = ses[s].key /\ ses'[s].sid = ses[s].sid /\ ses'[s].req = ses[s].req
         /\ ses'[s].addr = ses[s].addr /\ ses'[s].phase = "Terminate" /\ ses'[s].lcp = "shut"
<1> DEFINE i == IF ses[s].phase \in {"Open", "Network"} THEN "shut" ELSE ses[s].ipcp
<1>1. IsState(ses[s]) /\ ses = [t \in Session |-> ses[t]]
  BY Zenon DEF IInv, Types
<1>2. ses' = [ses EXCEPT ![s].ipcp = i, ![s].lcp = "shut", ![s].phase = "Terminate"]
  BY Zenon DEF terminate
<1>3. i \in Layer
  BY <1>1, Zenon DEF IsState, Layer
<1> HIDE DEF i
<1>4. /\ ses' = [t \in Session |-> ses'[t]] /\ Sets(ses, ses', s)
      /\ ses'[s] =
           [key |-> ses[s].key, sid |-> ses[s].sid, phase |-> "Terminate", lcp |-> "shut",
            ipcp |-> i, req |-> ses[s].req, addr |-> ses[s].addr]
  BY <1>1, <1>2, Zenon DEF Sets, IsState
<1> QED
  BY <1>1, <1>3, <1>4 DEF IsState, Phase, Layer

\* It gives the address back, whoever holds it.
LEMMA TerminatedLeases ==
  ASSUME IInv, NEW s \in Session, terminate(s),
         \A a \in Addr : Release(pool, a) \in Pool /\ Conserved(Release(pool, a))
  PROVE  /\ pool' \in Pool /\ Conserved(pool')
         /\ \A b \in Addr : pool'.leases[b] = IF b = ses[s].addr THEN Nobody
                                                                ELSE pool.leases[b]
<1>1. pool \in Pool /\ Conserved(pool) /\ pool.leases \in [Addr -> Session \cup {Nobody}]
  BY Zenon DEF IInv, Types, Pool
<1>2. pool' = IF ses[s].addr \in Addr THEN Release(pool, ses[s].addr) ELSE pool
  BY Zenon DEF terminate
<1>3. CASE ses[s].addr \in Addr
  <2>1. pool'.leases = [pool.leases EXCEPT ![ses[s].addr] = Nobody]
    BY <1>1, <1>2, <1>3, Zenon DEF Release, Leased, Pool
  <2> QED
    BY <1>1, <1>2, <1>3, <2>1, Zenon
<1>4. CASE ses[s].addr \notin Addr
  BY <1>1, <1>2, <1>4, Zenon
<1> QED
  BY <1>3, <1>4, Zenon

\* What terminate() does to the state the invariant is about.
Terminated(s) ==
  /\ ses' = [t \in Session |-> ses'[t]] /\ Sets(ses, ses', s) /\ IsState(ses'[s])
  /\ ses'[s].key = ses[s].key /\ ses'[s].sid = ses[s].sid /\ ses'[s].req = ses[s].req
  /\ ses'[s].addr = ses[s].addr /\ ses'[s].phase = "Terminate" /\ ses'[s].lcp = "shut"
  /\ UNCHANGED <<sidIndex, next, starting, asked, found, adds, lac, puts, nreq, admitted,
                 revived, lateFail, restarts>>
  /\ pub' \in [Session -> {"none", "Active", "Tunneled", "Released"}]
  /\ Sets(pub, pub', s) /\ pub'[s] = "Released"
  /\ opdb' \in [Session -> [phase : Phase, addr : 0..Fallback]]
  /\ Sets(opdb, opdb', s) /\ opdb'[s] = NoCheckpoint
  /\ ending' \in [Session -> Nat] /\ Sets(ending, ending', s)
  /\ ending[s] # 0 /\ (ending[s] = 1 => ending'[s] = 0)
  /\ pool' \in Pool /\ Conserved(pool')
  /\ \A b \in Addr : pool'.leases[b] = IF b = ses[s].addr THEN Nobody ELSE pool.leases[b]

LEMMA terminateChange ==
  ASSUME IInv, NEW s \in Session, terminate(s),
         \A a \in Addr : Release(pool, a) \in Pool /\ Conserved(Release(pool, a))
  PROVE  Terminated(s)
<1>1. /\ ending \in [Session -> Nat] /\ ending[s] \in Nat /\ ending[s] > 0
      /\ opdb \in [Session -> [phase : Phase, addr : 0..Fallback]]
      /\ pub \in [Session -> {"none", "Active", "Tunneled", "Released"}]
  BY Zenon DEF IInv, Types, terminate
<1>2. /\ ending[s] - 1 \in Nat /\ ending[s] # 0 /\ (ending[s] = 1 => ending[s] - 1 = 0)
  BY <1>1
<1>3. /\ pub' \in [Session -> {"none", "Active", "Tunneled", "Released"}]
      /\ Sets(pub, pub', s) /\ pub'[s] = "Released"
      /\ opdb' \in [Session -> [phase : Phase, addr : 0..Fallback]]
      /\ Sets(opdb, opdb', s) /\ opdb'[s] = NoCheckpoint
      /\ ending' \in [Session -> Nat] /\ Sets(ending, ending', s)
      /\ ending'[s] = ending[s] - 1
  BY <1>1, <1>2, NoCheckpointType, Zenon DEF terminate, Sets
<1>4. UNCHANGED <<sidIndex, next, starting, asked, found, adds, lac, puts, nreq, admitted,
                  revived, lateFail, restarts>>
  BY Zenon DEF terminate, tables, ghosts, budget
<1> QED
  BY <1>2, <1>3, <1>4, TerminatedState, TerminatedLeases, Zenon DEF Terminated

\* While every session ends only once, the one that holds the address is the
\* session that ends.
LEMMA TerminatedKeeps ==
  ASSUME IInv, NEW s \in Session, Terminated(s)
  PROVE  IInv'
<1>1. Change(s)
  BY Zenon DEF Terminated, Change, Sets
<1>2. Types'
  <2>1. \A t \in Session : IsState(ses'[t])
    BY Zenon DEF Terminated, IInv, Types, Sets
  <2> QED
    BY <2>1, Zenon DEF Terminated, IInv, Types
<1>3. SessionInv(s)'
  <2>1. SessionInv(s)
    BY Zenon DEF IInv
  <2>2. Begun(s)' /\ ses[s].phase # "none"
    BY <2>1, Zenon DEF Terminated, Begun, SessionInv, BeginInv
  <2>3. BeginInv(s)'
    BY <2>1, <2>2, NoCheckpointType, Zenon DEF Terminated, SessionInv, BeginInv
  <2>4. LoginInv(s)' /\ FramedInv(s)'
    BY <2>1, NoCheckpointType, Zenon DEF Terminated, SessionInv, LoginInv, FramedInv, Admitted
  <2>5. EndedInv(s)'
    BY <2>1, NoCheckpointType, Zenon DEF Terminated, SessionInv, EndedInv, Ended
  <2> QED
    BY <2>3, <2>4, <2>5, Zenon DEF SessionInv
<1>4. \A t \in Session : t # s => /\ ses'[t] = ses[t] /\ ending'[t] = ending[t]
                                  /\ Begun(t)' = Begun(t) /\ Alive(t)' = Alive(t)
                                  /\ Ended(t)' = Ended(t) /\ Uses(t)' = Uses(t)
  BY <1>1, OthersKept, Zenon
<1>5. LeaseInv'
  <2>1. \A b \in Addr : pool'.leases[b] # s
    BY NobodyAssumption DEF Terminated, IInv, LeaseInv
  <2> QED
    BY <1>4, <2>1, NobodyAssumption DEF Terminated, IInv, LeaseInv
<1>6. IndexInv'
  <2>1. restarts = 0 => \A i \in 0..MaxSid : sidIndex[i] # s
    BY Zenon DEF Terminated, IInv, IndexInv
  <2>2. \A t \in Session : ses'[t].sid = ses[t].sid
    BY <1>4, Zenon DEF Terminated
  <2>3. UNCHANGED <<sidIndex, next, restarts>>
    BY Zenon DEF Terminated
  <2> QED
    BY <1>4, <2>1, <2>2, <2>3, Zenon DEF IInv, IndexInv
<1>7. ASSUME restarts = 0, ~lateFail PROVE HeldInv'
  <2>1. \A t \in Session : /\ ending[t] > 0 => ending[t] = 1 /\ Alive(t)
                           /\ ses[t].addr \in Addr /\ Uses(t) => pool.leases[ses[t].addr] = t
    BY <1>7, Zenon DEF IInv, HeldInv
  <2>2. ending[s] = 1 /\ (ses[s].addr \in Addr => pool.leases[ses[s].addr] = s)
    <3>1. ending[s] > 0
      BY DEF Terminated, IInv, Types
    <3> QED
      BY <2>1, <3>1, Zenon DEF Uses
  <2>3. ending'[s] = 0 /\ ~Uses(s)'
    BY <2>2, Zenon DEF Terminated, Uses, Alive
  <2>4. ~(ending'[s] > 0)
    BY <2>3
  <2>5. ASSUME NEW t \in Session, t # s, ses'[t].addr \in Addr, Uses(t)'
        PROVE  pool'.leases[ses'[t].addr] = t
    <3>1. ses'[t].addr = ses[t].addr /\ pool.leases[ses[t].addr] = t
      BY <1>4, <2>1, <2>5, Zenon
    <3> QED
      BY <2>2, <2>5, <3>1 DEF Terminated
  <2> QED
    BY <1>4, <2>1, <2>3, <2>4, <2>5, Zenon DEF HeldInv
<1>8. HeldInv'
  BY <1>7, Zenon DEF Terminated, HeldInv
<1> QED
  BY <1>1, <1>2, <1>3, <1>5, <1>6, <1>8, ChangeKeeps, Zenon

-----------------------------------------------------------------------------
(***************************************************************************)
(* A restart.  Each session is either back as its checkpoint says, with    *)
(* perhaps a new write of it on the way, or forgotten.                     *)
(***************************************************************************)
Back(s) ==
  /\ opdb[s].phase # "none" /\ opdb'[s] = opdb[s] /\ admitted'[s] = nreq[s]
  /\ ses'[s].phase = opdb[s].phase /\ ses'[s].addr = opdb[s].addr
  /\ opdb[s].phase # "Open" => ses'[s].lcp = "shut"
  /\ \A p \in puts' : p.ses = s =>
       p.phase = "Open" /\ opdb[s].phase = "Open" /\ p.addr = opdb[s].addr

Forgotten(s) ==
  /\ opdb'[s] \in {NoCheckpoint, opdb[s]} /\ opdb'[s].phase = "none"
  /\ admitted'[s] = admitted[s]
  /\ ses'[s].phase = IF ses[s].phase = "none" THEN "none" ELSE "Gone"
  /\ ses'[s].addr = ses[s].addr
  /\ \A p \in puts' : p.ses # s

\* The session object after installInMemoryState.
LEMMA InstalledState ==
  ASSUME IInv, NEW s \in Session, NEW back, ses'[s] = installInMemoryState(s, back)
  PROVE  /\ IsState(ses'[s]) /\ ses'[s].key = ses[s].key /\ ses'[s].req = 0
         /\ s \in back =>
              /\ ses'[s].phase = opdb[s].phase /\ ses'[s].addr = opdb[s].addr
              /\ opdb[s].phase # "Open" => ses'[s].lcp = "shut"
         /\ s \notin back =>
              /\ ses'[s].phase = IF ses[s].phase = "none" THEN "none" ELSE "Gone"
              /\ ses'[s].addr = ses[s].addr
<1>1. IsState(ses[s]) /\ opdb[s].phase \in Phase /\ opdb[s].addr \in 0..Fallback
  BY Zenon DEF IInv, Types
<1>2. CASE s \in back
  <2> DEFINE at == IF opdb[s].phase = "Open" THEN "up" ELSE "shut"
  <2>1. ses'[s] = [ses[s] EXCEPT !.phase = opdb[s].phase, !.addr = opdb[s].addr,
                                 !.req = 0, !.lcp = at, !.ipcp = at]
    BY <1>2, Zenon DEF installInMemoryState
  <2>2. at \in Layer /\ (opdb[s].phase # "Open" => at = "shut")
    BY Zenon DEF Layer
  <2> HIDE DEF at
  <2>3. ses'[s] = [key |-> ses[s].key, sid |-> ses[s].sid, phase |-> opdb[s].phase,
                   lcp |-> at, ipcp |-> at, req |-> 0, addr |-> opdb[s].addr]
    BY <1>1, <2>1, Zenon DEF IsState
  <2> QED
    BY <1>1, <1>2, <2>2, <2>3 DEF IsState
<1>3. CASE s \notin back
  <2> DEFINE ph == IF ses[s].phase = "none" THEN "none" ELSE "Gone"
  <2>1. ses'[s] = [ses[s] EXCEPT !.phase = ph, !.lcp = "shut", !.ipcp = "shut", !.req = 0]
    BY <1>3, Zenon DEF installInMemoryState
  <2>2. ph \in Phase
    BY Zenon DEF Phase
  <2> HIDE DEF ph
  <2>3. ses'[s] = [key |-> ses[s].key, sid |-> ses[s].sid, phase |-> ph, lcp |-> "shut",
                   ipcp |-> "shut", req |-> 0, addr |-> ses[s].addr]
    BY <1>1, <2>1, Zenon DEF IsState
  <2>4. IsState(ses'[s])
    BY <1>1, <2>2, <2>3 DEF IsState, Layer
  <2> QED
    BY <1>3, <2>3, <2>4 DEF ph
<1> QED
  BY <1>2, <1>3, Zenon

\* restoreSessions brings each back or forgets it.
LEMMA RestoredState ==
  ASSUME IInv, restoreSessions
  PROVE  /\ ses' = [s \in Session |-> ses'[s]]
         /\ opdb' \in [Session -> [phase : Phase, addr : 0..Fallback]]
         /\ admitted' \in [Session -> Nat]
         /\ puts' \subseteq [ses : Session, phase : Phase, addr : 0..Fallback]
         /\ \A s \in Session : /\ IsState(ses'[s]) /\ ses'[s].key = ses[s].key
                               /\ ses'[s].req = 0 /\ (Back(s) \/ Forgotten(s))
<1>1. PICK expired \in SUBSET {s \in Session : isSessionExpired(s)} :
        LET back == {s \in Session : opdb[s].phase # "none"} \ expired IN
        /\ opdb' = [s \in Session |-> IF s \in expired THEN NoCheckpoint ELSE opdb[s]]
        /\ ses' = [s \in Session |-> installInMemoryState(s, back)]
        /\ \E set \in SUBSET {s \in back : opdb[s].phase = "Open"} :
             puts' = {Checkpoint(s, ses'[s]) : s \in set}
        /\ admitted' = [s \in Session |-> IF s \in back THEN nreq[s] ELSE admitted[s]]
  BY Zenon DEF restoreSessions
<1> DEFINE back == {s \in Session : opdb[s].phase # "none"} \ expired
<1>2. PICK set \in SUBSET {s \in back : opdb[s].phase = "Open"} :
        puts' = {Checkpoint(s, ses'[s]) : s \in set}
  BY <1>1, Zenon
<1>3. /\ opdb' = [s \in Session |-> IF s \in expired THEN NoCheckpoint ELSE opdb[s]]
      /\ ses' = [s \in Session |-> installInMemoryState(s, back)]
      /\ admitted' = [s \in Session |-> IF s \in back THEN nreq[s] ELSE admitted[s]]
  BY <1>1, Zenon
<1>4. /\ \A s \in Session : s \in back <=> opdb[s].phase # "none" /\ s \notin expired
      /\ \A s \in set : s \in back /\ s \in Session /\ opdb[s].phase = "Open"
  OBVIOUS
<1> HIDE DEF back
<1>5. opdb \in [Session -> [phase : Phase, addr : 0..Fallback]]
      /\ nreq \in [Session -> Nat] /\ admitted \in [Session -> Nat]
  BY Zenon DEF IInv, Types
<1>6. /\ opdb' \in [Session -> [phase : Phase, addr : 0..Fallback]]
      /\ admitted' \in [Session -> Nat] /\ ses' = [s \in Session |-> ses'[s]]
  BY <1>3, <1>5, NoCheckpointType, Zenon
<1>7. ASSUME NEW s \in Session
      PROVE  /\ IsState(ses'[s]) /\ ses'[s].key = ses[s].key /\ ses'[s].req = 0
             /\ s \in back =>
                  /\ ses'[s].phase = opdb[s].phase /\ ses'[s].addr = opdb[s].addr
                  /\ opdb[s].phase # "Open" => ses'[s].lcp = "shut"
             /\ s \notin back =>
                  /\ ses'[s].phase = IF ses[s].phase = "none" THEN "none" ELSE "Gone"
                  /\ ses'[s].addr = ses[s].addr
  <2>1. ses'[s] = installInMemoryState(s, back)
    BY <1>3, Zenon
  <2> QED
    BY <2>1, InstalledState, Zenon
<1>8. ASSUME NEW p \in puts'
      PROVE  /\ p.ses \in back /\ p.phase = "Open" /\ opdb[p.ses].phase = "Open"
             /\ p.addr = opdb[p.ses].addr
             /\ p \in [ses : Session, phase : Phase, addr : 0..Fallback]
  <2>1. PICK s \in set : p = Checkpoint(s, ses'[s])
    BY <1>2, Zenon
  <2>2. s \in back /\ s \in Session /\ opdb[s].phase = "Open"
    BY <1>4, Zenon
  <2>3. p = [ses |-> s, phase |-> "Open", addr |-> opdb[s].addr]
    BY <1>7, <2>1, <2>2, Zenon DEF Checkpoint
  <2>4. opdb[s].addr \in 0..Fallback /\ "Open" \in Phase
    BY <1>5, <2>2, Zenon DEF Phase
  <2> QED
    BY <2>2, <2>3, <2>4, Zenon
<1>9. ASSUME NEW s \in Session, s \in back PROVE Back(s)
  <2>1. opdb[s].phase # "none" /\ opdb'[s] = opdb[s] /\ admitted'[s] = nreq[s]
    BY <1>3, <1>4, <1>9, Zenon
  <2> QED
    BY <1>7, <1>8, <1>9, <2>1 DEF Back
<1>10. ASSUME NEW s \in Session, s \notin back PROVE Forgotten(s)
  <2>1. /\ opdb'[s] \in {NoCheckpoint, opdb[s]} /\ opdb'[s].phase = "none"
        /\ admitted'[s] = admitted[s]
    BY <1>3, <1>4, <1>10, NoCheckpointType, Zenon
  <2> QED
    BY <1>7, <1>8, <1>10, <2>1 DEF Forgotten
<1> QED
  BY <1>6, <1>7, <1>8, <1>9, <1>10, Zenon

\* What the invariant says of a session that is back, or forgotten.
LEMMA RestoredKept ==
  ASSUME IInv, NEW s \in Session, Back(s) \/ Forgotten(s),
         ses'[s].key = ses[s].key, ses'[s].req = 0,
         starting' = {}, asked' = {}, found' = {}, lac' = {},
         adds'[s] = [local |-> 0, lac |-> 0], ending'[s] = 0,
         UNCHANGED <<pub, nreq, revived>>
  PROVE  SessionInv(s)'
<1>1. SessionInv(s)
  BY Zenon DEF IInv
<1>2. CASE Back(s)
  <2>1. Begun(s) /\ Begun(s)'
    BY <1>1, <1>2, NoCheckpointType, Zenon DEF SessionInv, BeginInv, Back, Begun
  <2>2. BeginInv(s)'
    BY <1>1, <1>2, <2>1, Zenon DEF SessionInv, BeginInv, Back, Begun
  <2>3. LoginInv(s)'
    BY <1>1, <1>2, Zenon DEF SessionInv, LoginInv, Back, Admitted
  <2>4. FramedInv(s)'
    BY <1>1, <1>2, Zenon DEF SessionInv, FramedInv, Back
  <2>5. EndedInv(s)'
    BY <1>1, <1>2, Zenon DEF SessionInv, EndedInv, Ended, Back
  <2> QED
    BY <2>2, <2>3, <2>4, <2>5, Zenon DEF SessionInv
<1>3. CASE Forgotten(s)
  <2>1. BeginInv(s)'
    BY <1>1, <1>3, Zenon DEF SessionInv, BeginInv, Forgotten, Begun
  <2>2. LoginInv(s)' /\ EndedInv(s)'
    BY <1>1, <1>3, Zenon DEF SessionInv, LoginInv, EndedInv, Ended, Forgotten, Admitted
  <2>3. FramedInv(s)'
    BY <1>1, <1>3, NoCheckpointType, Zenon DEF SessionInv, FramedInv, Forgotten
  <2> QED
    BY <2>1, <2>2, <2>3, Zenon DEF SessionInv
<1> QED
  BY <1>2, <1>3, Zenon

\* A restart keeps the invariant.  No address is leased after it, which is why
\* the invariant says nothing of the leases of a restored session.
LEMMA restoreSessionsKeeps ==
  ASSUME IInv, restoreSessions, NewPoolAllocator \in Pool, Conserved(NewPoolAllocator)
  PROVE  IInv'
<1>1. /\ restarts' = restarts + 1 /\ pool' = NewPoolAllocator
      /\ starting' = {} /\ asked' = {} /\ found' = {} /\ lac' = {}
      /\ adds' = [s \in Session |-> [local |-> 0, lac |-> 0]]
      /\ ending' = [s \in Session |-> 0]
      /\ UNCHANGED <<pub, nreq, revived, lateFail>>
  BY Zenon DEF restoreSessions
<1>2. restarts' \in Nat /\ restarts' # 0
  BY <1>1 DEF IInv, Types
<1>3. /\ adds' \in [Session -> [local : Nat, lac : Nat]] /\ ending' \in [Session -> Nat]
      /\ \A s \in Session : adds'[s] = [local |-> 0, lac |-> 0] /\ ending'[s] = 0
  BY <1>1, Zenon
<1>4. Types'
  BY <1>1, <1>2, <1>3, RestoredState, Zenon DEF IInv, Types
<1>5. \A s \in Session : SessionInv(s)'
  BY <1>1, <1>3, RestoredState, RestoredKept, Zenon
<1>6. LeaseInv'
  <2>1. pool'.leases = [a \in Addr |-> Nobody]
    BY <1>1, Zenon DEF NewPoolAllocator
  <2> QED
    BY <2>1, NobodyAssumption, Zenon DEF LeaseInv
<1>7. IndexInv' /\ HeldInv'
  BY <1>2, Zenon DEF IndexInv, HeldInv
<1> QED
  BY <1>4, <1>5, <1>6, <1>7, Zenon DEF IInv

(***************************************************************************)
(* The leases: what each handler does to them.                             *)
(***************************************************************************)
\* startNCP: a pool address comes with its lease, which nobody else had; the
\* address of AAA, and the one the session had, are replaced only when somebody
\* else has them.
LEMMA AssignLease ==
  ASSUME IInv, NEW s \in Session, Begun(s)
  PROVE  Assigned(s)
<1> DEFINE x == AssignedAddr(s)
           q == AssignedPool(s)
           a == Proposed(s)
<1>1. pool \in Pool /\ Conserved(pool)
  BY Zenon DEF IInv, Types
<1>2. LastAddr \in Nat /\ Addr = 1..LastAddr /\ Fallback = LastAddr + 1
  BY AddrAssumption, Zenon DEF Addr, Fallback
<1>3. Fallback \in Nat /\ Fallback \notin Addr /\ 0 \notin Addr /\ Fallback # 0
      /\ Fallback \in 1..Fallback
  BY <1>2
<1>4. \A c \in Addr : c \in 1..Fallback /\ c # 0 /\ c # Fallback
  BY <1>2
<1>5. ses[s].key \in Key /\ ses[s].addr \in 0..Fallback
  BY Zenon DEF IInv, SessionInv, BeginInv, Types, IsState, Begun
<1>6. Framed[ses[s].key] \in 0..LastAddr
  BY <1>5, SessionAssumption, Zenon
<1>7. a \in 0..Fallback
  BY <1>2, <1>5, <1>6 DEF Proposed
<1>8. a = 0 \/ a \in Addr \/ a = Fallback
  BY <1>2, <1>7
<1>9. CASE a = 0
  <2>1. x = IF CanAllocate(pool) THEN NextAddr(pool) ELSE Fallback
    BY <1>3, <1>9, Zenon DEF AssignedAddr
  <2>2. q = IF CanAllocate(pool) THEN Allocate(pool, s) ELSE pool
    BY <1>3, <1>9, Zenon DEF AssignedPool
  <2>3. CASE CanAllocate(pool)
    <3>1. /\ x \in Addr /\ pool.leases[x] = Nobody
          /\ q.leases = [pool.leases EXCEPT ![x] = s]
      BY <1>1, <2>1, <2>2, <2>3, AllocateLease, Zenon
    <3>2. q \in Pool /\ Conserved(q)
      BY <1>1, <2>2, <2>3, AllocateConserved, Zenon
    <3> HIDE DEF x, q, a
    <3> QED
      BY <1>3, <1>4, <1>7, <1>9, <3>1, <3>2, Zenon DEF Assigned, x, q, a
  <2>4. CASE ~CanAllocate(pool)
    BY <1>1, <1>3, <1>7, <1>9, <2>1, <2>2, <2>4, Zenon DEF Assigned
  <2> QED
    BY <2>3, <2>4, Zenon
<1>10. CASE a \in Addr
  <2>1. x = IF CanReserve(pool, a, s) THEN a ELSE Fallback
    BY <1>4, <1>10, Zenon DEF AssignedAddr
  <2>2. q = Reserve(pool, a, s)
    BY <1>4, <1>10, Zenon DEF AssignedPool
  <2>3. q \in Pool /\ Conserved(q)
    BY <1>1, <1>10, <2>2, ReserveConserved, Zenon
  <2>4. q.leases = IF CanReserve(pool, a, s) THEN [pool.leases EXCEPT ![a] = s]
                                             ELSE pool.leases
    BY <1>1, <1>10, <2>2, ReserveLease
  <2> HIDE DEF x, q, a
  <2>5. CASE CanReserve(pool, a, s)
    <3>1. x = a /\ q.leases = [pool.leases EXCEPT ![x] = s]
          /\ pool.leases[x] \in {Nobody, s}
      BY <2>1, <2>4, <2>5, Zenon DEF CanReserve
    <3> QED
      BY <1>4, <1>7, <1>10, <2>3, <3>1, Zenon DEF Assigned, x, q, a
  <2>6. CASE ~CanReserve(pool, a, s)
    <3>1. x = Fallback /\ q.leases = pool.leases /\ pool.leases[a] # s
      BY <2>1, <2>4, <2>6, Zenon DEF CanReserve
    <3> QED
      BY <1>3, <1>7, <1>10, <2>3, <3>1, Zenon DEF Assigned, x, q, a
  <2> QED
    BY <2>5, <2>6, Zenon
<1>11. CASE a = Fallback
  <2>1. x = Fallback /\ q = pool
    BY <1>3, <1>11, Zenon DEF AssignedAddr, AssignedPool
  <2> QED
    BY <1>1, <1>3, <1>7, <1>11, <2>1, Zenon DEF Assigned
<1> QED
  BY <1>8, <1>9, <1>10, <1>11, Zenon

-----------------------------------------------------------------------------
(***************************************************************************)
(* The session IDs.                                                        *)
(***************************************************************************)
\* A set of natural numbers has a least member.
LEMMA LeastMember ==
  ASSUME NEW T \in SUBSET Nat, T # {}
  PROVE  \E x \in T : \A y \in T : x <= y
<1> DEFINE R == OpToRel(<, Nat)
<1>1. \A x, y \in Nat : x < y => <<x, y>> \in R
  BY Zenon DEF OpToRel
<1>2. IsWellFoundedOn(R, Nat)
  BY NatLessThanWellFounded, Zenon
<1> HIDE DEF R
<1>3. PICK x \in T : \A y \in T : ~ (<<y, x>> \in R)
  BY <1>2, WFMin, Zenon
<1>4. \A y \in T : ~ (y < x)
  BY <1>1, <1>3, Zenon
<1> QED
  BY <1>3, <1>4

\* allocateSessionID finds an ID of the range, or 0, and the counter stays in it.
LEMMA SidAllocated ==
  ASSUME next \in 1..MaxSid
  PROVE  SidInRange
<1> DEFINE free == {d \in 0..MaxSid - 1 : sidIndex[SidAt(d)] = Nobody}
           P(d) == \A e \in free : d <= e
           d == CHOOSE d \in free : P(d)
<1>1. MaxSid \in Nat \ {0} /\ next \in Nat
  BY SessionAssumption
<1>2. allocateSessionID = IF free = {} THEN 0 ELSE SidAt(d)
  BY Zenon DEF allocateSessionID
<1>3. ASSUME free # {} PROVE d \in 0..MaxSid - 1
  <2>1. free \in SUBSET (0..MaxSid - 1) /\ free \in SUBSET Nat
    BY <1>1
  <2> HIDE DEF free
  <2>2. \E c \in free : P(c)
    BY <1>3, <2>1, LeastMember, Zenon
  <2>3. d \in free
    BY <2>2, Zenon
  <2> QED
    BY <2>1, <2>3, Zenon
<1> HIDE DEF d, free
<1>4. free # {} => SidAt(d) \in 1..MaxSid
  BY <1>1, <1>3 DEF SidAt
<1>5. allocateSessionID \in 0..MaxSid
  BY <1>1, <1>2, <1>4
<1> HIDE DEF d
<1>6. allocateSessionID # 0 => Following(allocateSessionID) \in 1..MaxSid
  BY <1>1, <1>5 DEF Following
<1> QED
  BY <1>5, <1>6, Zenon DEF SidInRange

-----------------------------------------------------------------------------
(***************************************************************************)
(* The invariant and the theorems.                                         *)
(***************************************************************************)
\* The process starts with no sessions and all addresses free.
LEMMA InitIInv == Init => IInv
<1> SUFFICES ASSUME Init PROVE IInv
  OBVIOUS
<1>1. /\ ses = [s \in Session |-> NewSession] /\ opdb = [s \in Session |-> NoCheckpoint]
      /\ \A s \in Session : ses[s] = NewSession /\ opdb[s] = NoCheckpoint
  BY Zenon DEF Init
<1>2. /\ NewSession.key = NoKey /\ NewSession.sid = 0 /\ NewSession.phase = "none"
      /\ NewSession.addr = 0 /\ NewSession.req = 0
  BY Zenon DEF NewSession
<1>3. IsState(NewSession) /\ 0 \notin Addr
  <2>1. 0 \in 0..Fallback /\ 0 \notin Addr
    BY AddrAssumption DEF Fallback, Addr
  <2> QED
    BY <2>1, Zenon DEF IsState, NewSession, Phase, Layer
<1>4. Types
  <2>1. pool \in Pool /\ Conserved(pool)
    BY NewConserved, Zenon DEF Init
  <2> QED
    BY <1>1, <1>3, <2>1, NoCheckpointType, Zenon DEF Init, Types
<1>5. ASSUME NEW s \in Session PROVE SessionInv(s)
  <2>1. ses[s] = NewSession /\ opdb[s] = NoCheckpoint /\ ~Begun(s)
    BY <1>1, <1>2, Zenon DEF Begun
  <2>2. BeginInv(s)
    BY <1>2, <2>1, NoCheckpointType, Zenon DEF Init, BeginInv
  <2>3. LoginInv(s) /\ EndedInv(s)
    BY <1>2, <2>1, NoCheckpointType, Zenon DEF Init, LoginInv, EndedInv, Ended, Admitted
  <2>4. FramedInv(s)
    BY <1>2, <2>1, SessionAssumption, Zenon DEF FramedInv
  <2> QED
    BY <2>2, <2>3, <2>4, Zenon DEF SessionInv
<1>6. LeaseInv
  BY NobodyAssumption, Zenon DEF Init, NewPoolAllocator, LeaseInv
<1>7. IndexInv
  <2>1. 1 \in 1..MaxSid /\ 0 \in 0..MaxSid
    BY SessionAssumption
  <2>2. next = 1 /\ sidIndex = [i \in 0..MaxSid |-> Nobody]
    BY Zenon DEF Init
  <2>3. \A s \in Session : ses[s].sid = 0
    BY <1>1, <1>2, Zenon
  <2> QED
    BY <2>1, <2>2, <2>3, NobodyAssumption, Zenon DEF IndexInv
<1>8. HeldInv
  <2>1. \A s \in Session : ending[s] = 0 /\ ses[s].addr \notin Addr
    BY <1>1, <1>2, <1>3, Zenon DEF Init
  <2> QED
    BY <2>1 DEF HeldInv
<1> QED
  BY <1>4, <1>5, <1>6, <1>7, <1>8, Zenon DEF IInv

\* Every step keeps the invariant.
LEMMA NextIInv == IInv /\ [Next]_vars => IInv'
<1> SUFFICES ASSUME IInv, [Next]_vars PROVE IInv'
  OBVIOUS
<1>1. ASSUME NEW s \in Session, NEW k \in Key, handlePADR(s, k) PROVE IInv'
  BY <1>1, handlePADRKeeps, SidAllocated, Zenon
<1>2. ASSUME NEW s \in Session, EnterSession(s) PROVE IInv'
  BY <1>2, EnterSessionKeeps, Zenon
<1>3. ASSUME NEW s \in Session,
             \/ up(s) \/ onLCPUp(s) \/ onLCPDown(s) \/ handleCHAPTimeout(s)
             \/ publishAAARequest(s) \/ onIPCPUp(s) \/ onIPCPDown(s)
             \/ handleProtocolReject(s) \/ onVPPSessionCreated(s)
             \/ onLACVPPSessionCreated(s) \/ handleLACDecision(s)
      PROVE  IInv'
  BY <1>3, HandlersKeep, Zenon
<1>4. ASSUME NEW s \in Session, tearDownSessionAfterVPPFailure(s) PROVE IInv'
  BY <1>4, tearDownSessionAfterVPPFailureKeeps, Zenon
<1>5. ASSUME NEW s \in Session, EndSession(s) PROVE IInv'
  BY <1>5, EndSessionKeeps, Zenon
<1>6. ASSUME NEW s \in Session, terminate(s) PROVE IInv'
  <2>1. pool \in Pool /\ Conserved(pool)
    BY Zenon DEF IInv, Types
  <2> QED
    BY <1>6, <2>1, terminateChange, TerminatedKeeps, ReleaseConserved, Zenon
<1>7. ASSUME NEW q \in asked, AAAAnswers(q) PROVE IInv'
  BY <1>7, AAAAnswersStep, StepKeeps, Zenon
<1>8. ASSUME NEW q \in found, NEW v \in {"accept", "tunnel", "refuse"}, onAuthResult(q, v)
      PROVE  IInv'
  <2>1. q[1] \in Session /\ Begun(q[1])
    BY Zenon DEF IInv, Types, SessionInv, BeginInv
  <2> QED
    BY <1>8, <2>1, onAuthResultKeeps, AssignLease, Zenon
<1>9. ASSUME NEW p \in puts, PutLands(p) PROVE IInv'
  BY <1>9, PutLandsKeeps, Zenon
<1>10. ASSUME restoreSessions PROVE IInv'
  BY <1>10, restoreSessionsKeeps, NewConserved, Zenon
<1>11. CASE UNCHANGED vars
  BY <1>11, StutterKeeps, Zenon
<1> QED
  BY <1>1, <1>2, <1>3, <1>4, <1>5, <1>6, <1>7, <1>8, <1>9, <1>10, <1>11, Zenon DEF Next

\* The invariant holds in every reachable state.
LEMMA Invariant == Spec => []IInv
BY InitIInv, NextIInv, PTL DEF Spec

\* A session is admitted only by the answer to its newest login, for any number
\* of sessions, logins, faults and restarts (component.go:1008-1032).
THEOREM AdmittedCorrect == Spec => []AdmittedByLatest
<1>1. IInv => AdmittedByLatest
  BY Zenon DEF IInv, SessionInv, LoginInv, Admitted, AdmittedByLatest
<1> QED
  BY <1>1, Invariant, PTL

\* Until the first restart, and while no dataplane request fails after its
\* session has ended, a session in a network phase holds the lease of its
\* address: no two sessions use the same one (session.go:490-537, 1099-1104).
THEOREM AddressCorrect == Spec => []AddressHeld
<1>1. IInv => AddressHeld
  BY Zenon DEF IInv, HeldInv, Uses, AddressHeld
<1> QED
  BY <1>1, Invariant, PTL

\* After terminate() the session's release is the last that was announced, and
\* no lease is left to it, restarts included (session.go:1093-1153).
THEOREM ReleaseCorrect == Spec => []ReleasedIsFinal
<1>1. IInv => ReleasedIsFinal
  BY Zenon DEF IInv, SessionInv, EndedInv, Ended, LeaseInv, ReleasedIsFinal
<1> QED
  BY <1>1, Invariant, PTL
=============================================================================
