---------------------------- MODULE PPPLinkProofs ----------------------------
(***************************************************************************)
(* Proofs about the PPP automaton and a link of two of them, for any       *)
(* retransmission limits, identifier space, option values, policies, order *)
(* of input, and any number of losses, early timers and restarts.          *)
(*                                                                         *)
(* One lemma per method of fsm.go (Sound) says all that the link needs: a  *)
(* waiting state has its timer or came from one with the timer as it was,  *)
(* and the callback made is the one the move calls for.  The lemmas on the *)
(* link lift it through Perform to both ends.                              *)
(***************************************************************************)
EXTENDS PPPLink, TLAPS

\* The states in which a request is outstanding.
Waiting == {"ReqSent", "AckRcvd", "AckSent"}
PacketOut == [code : Codes, id : 0..IdMod - 1]
Yields == [fsm : FSM, out : Seq(PacketOut), layer : {"none", "up", "down"}]

-----------------------------------------------------------------------------
(* The helpers of the automaton.                                           *)

\* nextID wraps within the identifier space.
LEMMA NextIDRange == ASSUME NEW f \in FSM PROVE nextID(f) \in 0..IdMod - 1
BY FSMAssumption DEF nextID, FSM

\* The helpers of fsm.go keep the automaton well formed and its state; scr starts
\* the timer.
LEMMA Helpers ==
  ASSUME NEW f \in FSM
  PROVE  /\ irc(f) \in FSM /\ irc(f).state = f.state /\ irc(f).timer = f.timer
         /\ zrc(f) \in FSM /\ zrc(f).state = f.state /\ zrc(f).timer = f.timer
         /\ stopTimer(f) \in FSM /\ stopTimer(f).state = f.state
         /\ scr(f) \in FSM /\ scr(f).state = f.state /\ scr(f).timer
         /\ strRetransmit(f) \in FSM /\ strRetransmit(f).state = f.state
         /\ str(f) \in FSM /\ str(f).state = f.state
BY NextIDRange, FSMAssumption DEF irc, zrc, stopTimer, scr, strRetransmit, str, FSM

\* A numbered request is a packet.
LEMMA Requests ==
  ASSUME NEW f \in FSM
  PROVE  <<ConfReq(f)>> \in Seq(PacketOut) /\ <<TermReq(f)>> \in Seq(PacketOut)
BY DEF ConfReq, TermReq, Packet, PacketOut, Codes, FSM

\* An answer with the identifier of a packet is a packet.
LEMMA Answers ==
  ASSUME NEW id \in 0..IdMod - 1, NEW c \in {"ConfAck", "ConfNak", "ConfRej"}
  PROVE  <<sta(id)>> \in Seq(PacketOut) /\ <<Packet(c, id)>> \in Seq(PacketOut)
BY DEF sta, Packet, PacketOut, Codes

\* What a method yields has the state, timer and callback it was given.
LEMMA YieldParts ==
  ASSUME NEW f \in FSM, NEW s \in State, NEW out \in Seq(PacketOut),
         NEW l \in {"none", "up", "down"}
  PROVE  /\ Yield(f, s, out, l) \in Yields
         /\ Yield(f, s, out, l).fsm.state = s
         /\ Yield(f, s, out, l).fsm.timer = f.timer
         /\ Yield(f, s, out, l).layer = l
BY DEF Yield, Yields, FSM

\* Taking a packet off the wire leaves packets.
LEMMA RemoveAtSeq ==
  ASSUME NEW S, NEW s \in Seq(S), NEW i \in DOMAIN s
  PROVE  RemoveAt(s, i) \in Seq(S)
BY DEF RemoveAt

Shut == {"Initial", "Closed", "Closing"}

\* A move from state s to state t that makes the callback l.
Move(s, t, l) ==
  /\ l = "up" => s \notin Shut \cup {"Opened"} /\ t = "Opened"
  /\ l = "down" => s = "Opened" /\ t # "Opened"
  /\ l = "none" => (s = "Opened" <=> t = "Opened") \/ (s = "Opened" /\ t \in Shut)

\* A waiting state has its timer, or comes from one with the timer as it was.
Timed(f, g) ==
  g.state \in Waiting => g.timer \/ (f.state \in Waiting /\ g.timer = f.timer)

\* What the link needs of a method that takes f to the automaton of y.
Sound(f, y) == y \in Yields /\ Timed(f, y.fsm) /\ Move(f.state, y.fsm.state, y.layer)

\* The conditions under which a method that ends in state s is sound.
LEMMA YieldSound ==
  ASSUME NEW f \in FSM, NEW g \in FSM, NEW s \in State, NEW out \in Seq(PacketOut),
         NEW l \in {"none", "up", "down"},
         s \in Waiting => g.timer \/ (f.state \in Waiting /\ g.timer = f.timer),
         Move(f.state, s, l)
  PROVE  Sound(f, Yield(g, s, out, l))
BY YieldParts DEF Sound, Timed

\* Ignoring an event is sound.
LEMMA IgnoreSound == ASSUME NEW f \in FSM PROVE Sound(f, Ignore(f))
<1>1. <<>> \in Seq(PacketOut) /\ f.state \in State
  BY DEF FSM
<1>2. Move(f.state, f.state, "none")
  BY DEF Move
<1> QED BY <1>1, <1>2, YieldSound DEF Ignore

-----------------------------------------------------------------------------
(* The methods of the automaton.                                           *)

\* Up moves Starting to ReqSent with the timer on.
LEMMA UpSound ==
  ASSUME NEW f \in FSM
  PROVE  Sound(f, Up(f))
<1> f.state \in State /\ <<>> \in Seq(PacketOut)
  BY DEF FSM
<1> QED
  BY Helpers, Requests, YieldSound, IgnoreSound
     DEF Up, Move, Waiting, Shut, State

\* Down tells the session only of an Opened layer, and waits in no state.
LEMMA DownSound ==
  ASSUME NEW f \in FSM
  PROVE  Sound(f, Down(f))
<1> f.state \in State /\ <<>> \in Seq(PacketOut)
  BY DEF FSM
<1> QED
  BY Helpers, YieldSound DEF Down, Ignore, Move, Waiting, Shut, State

\* Open moves Closed to ReqSent with the timer on.
LEMMA OpenSound ==
  ASSUME NEW f \in FSM
  PROVE  Sound(f, Open(f))
<1> f.state \in State /\ <<>> \in Seq(PacketOut)
  BY DEF FSM
<1> QED
  BY Helpers, Requests, YieldSound, IgnoreSound
     DEF Open, Move, Waiting, Shut, State

\* Close tells the session only of an Opened layer.
LEMMA CloseSound ==
  ASSUME NEW f \in FSM
  PROVE  Sound(f, Close(f))
<1> f.state \in State /\ <<>> \in Seq(PacketOut)
  BY DEF FSM
<1> QED
  BY Helpers, Requests, YieldSound, IgnoreSound
     DEF Close, Move, Waiting, Shut, State

\* Kill shuts the layer and tells nobody.
LEMMA KillSound ==
  ASSUME NEW f \in FSM
  PROVE  Sound(f, Kill(f))
<1> f.state \in State /\ <<>> \in Seq(PacketOut)
  BY DEF FSM
<1> QED
  BY Helpers, YieldSound
     DEF Kill, Move, Waiting, Shut, State

\* Timeout retransmits or gives up, and calls nobody back.
LEMMA TimeoutSound ==
  ASSUME NEW f \in FSM
  PROVE  Sound(f, Timeout(f))
<1> DEFINE g == [f EXCEPT !.count = @ - 1]
<1>1. f.state \in State /\ f.count \in Nat /\ <<>> \in Seq(PacketOut)
  BY DEF FSM
<1>2. CASE f.count > 0
  <2>1. g \in FSM /\ g.state = f.state /\ g.timer = f.timer
    BY <1>1, <1>2 DEF FSM
  <2> HIDE DEF g
  <2>2. CASE f.state \in {"Closing", "Stopping"}
    <3>1. Timeout(f) =
            Yield(strRetransmit(g), f.state, <<TermReq(strRetransmit(g))>>, "none")
      BY <1>2, <2>2 DEF Timeout, g
    <3>2. strRetransmit(g) \in FSM
      BY <2>1, Helpers
    <3>3. <<TermReq(strRetransmit(g))>> \in Seq(PacketOut)
      BY <3>2, Requests
    <3>4. Move(f.state, f.state, "none")
      BY DEF Move
    <3> QED BY <1>1, <2>2, <3>1, <3>2, <3>3, <3>4, YieldSound DEF Waiting
  <2>3. CASE f.state \in Waiting
    <3> DEFINE t == IF f.state = "AckRcvd" THEN "ReqSent" ELSE f.state
    <3>1. Timeout(f) = Yield(scr(g), t, <<ConfReq(scr(g))>>, "none")
      BY <1>2, <2>3 DEF Timeout, g, Waiting
    <3>2. t \in State /\ t \in Waiting /\ Move(f.state, t, "none")
      BY <2>3 DEF State, Waiting, Move
    <3> HIDE DEF t
    <3>3. scr(g) \in FSM /\ scr(g).timer
      BY <2>1, Helpers
    <3>4. <<ConfReq(scr(g))>> \in Seq(PacketOut)
      BY <3>3, Requests
    <3> QED BY <3>1, <3>2, <3>3, <3>4, YieldSound
  <2>4. CASE f.state \notin {"Closing", "Stopping"} \cup Waiting
    <3>1. Timeout(f) = Yield(g, f.state, <<>>, "none")
      BY <1>2, <2>1, <2>4 DEF Timeout, g, Ignore, Waiting
    <3> QED BY <1>1, <2>1, <2>4, <3>1, YieldSound DEF Move, Waiting
  <2> QED BY <2>2, <2>3, <2>4
<1>3. CASE ~ (f.count > 0)
  <2>1. CASE f.state = "Closing"
    BY <1>1, <1>3, <2>1, YieldSound DEF Timeout, Move, Waiting, State
  <2>2. CASE f.state \in {"Stopping", "ReqSent", "AckRcvd", "AckSent"}
    BY <1>1, <1>3, <2>2, YieldSound DEF Timeout, Move, Waiting, State
  <2>3. CASE f.state \notin {"Closing", "Stopping", "ReqSent", "AckRcvd", "AckSent"}
    BY <1>3, <2>3, IgnoreSound DEF Timeout
  <2> QED
    BY <2>1, <2>2, <2>3
<1> QED BY <1>2, <1>3

\* Timeout leaves a waiting state only with a new timer: the one that expired
\* is gone.
LEMMA TimeoutRearms ==
  ASSUME NEW f \in FSM, Timeout(f).fsm.state \in Waiting
  PROVE  Timeout(f).fsm.timer
BY DEF Timeout, Ignore, Yield, scr, strRetransmit, FSM, State, Waiting

\* A Configure-Request opens AckRcvd and takes Opened down.
LEMMA rcrEventSound ==
  ASSUME NEW f \in FSM, NEW id \in 0..IdMod - 1,
         NEW v \in {"ConfAck", "ConfNak", "ConfRej"}
  PROVE  Sound(f, rcrEvent(f, id, v))
<1>1. /\ f.state \in State
      /\ <<Packet(v, id)>> \in Seq(PacketOut) /\ <<sta(id)>> \in Seq(PacketOut)
  BY Answers DEF FSM
<1>2. ASSUME NEW g \in FSM PROVE <<ConfReq(g)>> \o <<Packet(v, id)>> \in Seq(PacketOut)
  BY <1>1, Requests
<1> DEFINE next == IF v = "ConfAck" THEN "AckSent" ELSE "ReqSent"
<1>3. next \in State /\ next \in Waiting
  BY DEF State, Waiting
<1>4. CASE f.state \in {"Stopped", "Opened"}
  <2> DEFINE g == IF f.state = "Stopped" THEN scr(irc(f)) ELSE scr(f)
             l == IF f.state = "Stopped" THEN "none" ELSE "down"
  <2>1. rcrEvent(f, id, v) = Yield(g, next, <<ConfReq(g)>> \o <<Packet(v, id)>>, l)
    BY <1>4 DEF rcrEvent
  <2>2. g \in FSM /\ g.timer
    BY Helpers
  <2>3. l \in {"none", "up", "down"} /\ Move(f.state, next, l)
    BY <1>4 DEF Move
  <2> HIDE DEF g, l, next
  <2> QED
    BY <1>2, <1>3, <2>1, <2>2, <2>3, YieldSound
<1>5. CASE f.state \in Waiting
  BY <1>1, <1>3, <1>5, Helpers, YieldSound DEF rcrEvent, Move, Waiting, Shut, State
<1>6. CASE f.state \notin {"Stopped", "Opened"} \cup Waiting
  BY <1>1, <1>6, YieldSound, IgnoreSound DEF rcrEvent, Move, Waiting, State
<1> QED
  BY <1>4, <1>5, <1>6

\* A Configure-Ack opens AckSent and takes Opened down.
LEMMA rcaEventSound ==
  ASSUME NEW f \in FSM, NEW id \in 0..IdMod - 1
  PROVE  Sound(f, rcaEvent(f, id))
<1> f.state \in State /\ <<>> \in Seq(PacketOut)
  BY DEF FSM
<1> QED
  BY Helpers, Requests, Answers, YieldSound, IgnoreSound
     DEF rcaEvent, Move, Waiting, Shut, State

\* A Configure-Nak or -Reject takes Opened down.
LEMMA rcnEventSound ==
  ASSUME NEW f \in FSM, NEW id \in 0..IdMod - 1
  PROVE  Sound(f, rcnEvent(f, id))
<1> f.state \in State /\ <<>> \in Seq(PacketOut)
  BY DEF FSM
<1> QED
  BY Helpers, Requests, Answers, YieldSound, IgnoreSound
     DEF rcnEvent, Move, Waiting, Shut, State

\* A Terminate-Request takes Opened down.
LEMMA rtrEventSound ==
  ASSUME NEW f \in FSM, NEW id \in 0..IdMod - 1
  PROVE  Sound(f, rtrEvent(f, id))
<1> f.state \in State /\ <<>> \in Seq(PacketOut)
  BY DEF FSM
<1> QED
  BY Helpers, Answers, YieldSound, IgnoreSound
     DEF rtrEvent, Move, Waiting, Shut, State

\* A Terminate-Ack takes Opened down.
LEMMA rtaEventSound ==
  ASSUME NEW f \in FSM
  PROVE  Sound(f, rtaEvent(f))
<1> f.state \in State /\ <<>> \in Seq(PacketOut)
  BY DEF FSM
<1> QED
  BY Helpers, Requests, YieldSound, IgnoreSound
     DEF rtaEvent, Move, Waiting, Shut, State

\* A Code-Reject takes Opened down.
LEMMA rxjEventSound ==
  ASSUME NEW f \in FSM
  PROVE  Sound(f, rxjEvent(f))
<1> f.state \in State /\ <<>> \in Seq(PacketOut)
  BY DEF FSM
<1> QED
  BY Helpers, Requests, YieldSound, IgnoreSound
     DEF rxjEvent, Move, Waiting, Shut, State

\* An unknown code is rejected in every state.
LEMMA rucEventSound ==
  ASSUME NEW f \in FSM
  PROVE  Sound(f, rucEvent(f))
<1> DEFINE g == [f EXCEPT !.id = nextID(f)]
<1>1. g \in FSM /\ g.timer = f.timer /\ f.state \in State
  BY NextIDRange DEF FSM
<1>2. <<Packet("CodeRej", nextID(f))>> \in Seq(PacketOut)
  BY NextIDRange DEF Packet, PacketOut, Codes
<1>3. Move(f.state, f.state, "none")
  BY DEF Move
<1> HIDE DEF g
<1>4. rucEvent(f) = Yield(g, f.state, <<Packet("CodeRej", nextID(f))>>, "none")
  BY DEF rucEvent, g
<1> QED
  BY <1>1, <1>2, <1>3, <1>4, YieldSound
-----------------------------------------------------------------------------
(* The link.                                                             *)

\* What the session knows after the callback l.
Told(l, old) == IF l = "none" THEN old ELSE l

\* What a method sends carries an option value of the link.
LEMMA StampTyped ==
  ASSUME NEW out \in Seq(PacketOut), NEW r \in Value \cup {NoOption},
         NEW a \in Value \cup {NoOption}
  PROVE  [i \in DOMAIN out |-> Stamp(out[i], r, a)] \in Seq(Message)
<1>1. \A p \in PacketOut : Stamp(p, r, a) \in Message
  BY DEF Stamp, PacketOut, Message
<1>2. \A i \in DOMAIN out : out[i] \in PacketOut
  OBVIOUS
<1>3. DOMAIN out = 1..Len(out) /\ Len(out) \in Nat
  OBVIOUS
<1> QED BY <1>1, <1>2, <1>3

\* The link has two ends.
LEMMA TwoEnds ==
  ASSUME NEW e \in End
  PROVE  Other(e) \in End /\ Other(e) # e /\ \A d \in End : d = e \/ d = Other(e)
BY LinkAssumption DEF End, Other

\* A sound method changes the automaton and the session of its end only, and
\* keeps the types.
LEMMA PerformKeeps ==
  ASSUME TypeOK, NEW e \in End, NEW y, Sound(fsm[e], y), NEW rest \in Seq(Message),
         NEW r \in Value \cup {NoOption}, NEW a \in Value \cup {NoOption},
         Perform(e, y, rest, r, a)
  PROVE  /\ fsm' \in [End -> FSM] /\ wire' \in [End -> Seq(Message)]
         /\ told' \in [End -> {"up", "down"}]
         /\ fsm'[e] = y.fsm /\ told'[e] = Told(y.layer, told[e])
         /\ \A d \in End \ {e} : fsm'[d] = fsm[d] /\ told'[d] = told[d]
<1>1. y.fsm \in FSM /\ y.out \in Seq(PacketOut) /\ y.layer \in {"none", "up", "down"}
  BY DEF Sound, Yields
<1>2. /\ fsm' \in [End -> FSM] /\ fsm'[e] = y.fsm
      /\ \A d \in End \ {e} : fsm'[d] = fsm[d]
  BY <1>1 DEF Perform, TypeOK
<1>3. /\ told' \in [End -> {"up", "down"}] /\ told'[e] = Told(y.layer, told[e])
      /\ \A d \in End \ {e} : told'[d] = told[d]
  BY <1>1 DEF Perform, TypeOK, Told
<1>4. wire' \in [End -> Seq(Message)]
  <2> DEFINE sent == [i \in DOMAIN y.out |-> Stamp(y.out[i], r, a)]
  <2>1. sent \in Seq(Message)
    BY <1>1, StampTyped
  <2>2. wire' = [wire EXCEPT ![e] = rest, ![Other(e)] = @ \o sent]
    BY DEF Perform
  <2> HIDE DEF sent
  <2> QED BY <2>1, <2>2, TwoEnds DEF TypeOK
<1> QED BY <1>2, <1>3, <1>4

\* A step of PPPLayer from layer a and told t to layer b and told u, or none.
LayerStep(a, b, t, u) ==
  \/ a = b /\ u = t
  \/ a = "shut" /\ b = "down" /\ u = t
  \/ a = "down" /\ b = "up" /\ u = "up"
  \/ a = "up" /\ b = "down" /\ u = "down"
  \/ a \in {"up", "down"} /\ b = "shut" /\ u \in {"down", t}
  \/ b = "up" /\ u = "up"

\* The layer of e takes a step of PPPLayer, or none.
Refines(e) == LayerStep(LayerOf(fsm[e]), LayerOf(fsm'[e]), told[e], told'[e])

\* The inductive invariant.
IInv == TypeOK /\ WaitsWithTimer

\* The types of what a method of the automaton does not touch.
OthersTyped ==
  /\ local \in [End -> Value \cup {NoOption}] /\ peer \in [End -> Value \cup {NoOption}]
  /\ losses \in 0..MaxFault /\ early \in 0..MaxFault
  /\ breaks \in 0..1 /\ restarts \in 0..MaxFault

\* A sound move is a step of PPPLayer, or leaves it alone.
LEMMA MoveRefines ==
  ASSUME NEW f \in FSM, NEW g \in FSM, NEW l \in {"none", "up", "down"}, NEW t,
         Move(f.state, g.state, l)
  PROVE  LayerStep(LayerOf(f), LayerOf(g), t, Told(l, t))
<1>1. f.state \in State /\ g.state \in State
  BY DEF FSM
<1> QED BY <1>1 DEF Move, LayerOf, LayerStep, Told, Shut, State

\* A sound method that leaves no waiting state without a timer keeps the
\* invariant, and is a step of the layer at both ends.
LEMMA PerformStep ==
  ASSUME IInv, NEW e \in End, NEW y, Sound(fsm[e], y), NEW rest \in Seq(Message),
         NEW r \in Value \cup {NoOption}, NEW a \in Value \cup {NoOption},
         Perform(e, y, rest, r, a), OthersTyped',
         fired' \in [End -> BOOLEAN], \A d \in End \ {e} : fired'[d] = fired[d],
         y.fsm.state \in Waiting => y.fsm.timer \/ fired'[e]
  PROVE  IInv' /\ \A d \in End : Refines(d)
<1>1. /\ fsm' \in [End -> FSM] /\ wire' \in [End -> Seq(Message)]
      /\ told' \in [End -> {"up", "down"}]
      /\ fsm'[e] = y.fsm /\ told'[e] = Told(y.layer, told[e])
      /\ \A d \in End \ {e} : fsm'[d] = fsm[d] /\ told'[d] = told[d]
  BY PerformKeeps DEF IInv
<1>2. TypeOK'
  BY <1>1 DEF TypeOK, OthersTyped
<1>3. WaitsWithTimer'
  <2> SUFFICES ASSUME NEW d \in End, fsm'[d].state \in Waiting
               PROVE  fsm'[d].timer \/ fired'[d]
    BY DEF WaitsWithTimer, Waiting
  <2>1. CASE d = e
    BY <1>1, <2>1
  <2>2. CASE d # e
    BY <1>1, <2>2 DEF IInv, WaitsWithTimer, Waiting
  <2> QED BY <2>1, <2>2
<1>4. ASSUME NEW d \in End PROVE Refines(d)
  <2>1. CASE d = e
    <3>1. /\ fsm[e] \in FSM /\ y.fsm \in FSM /\ y.layer \in {"none", "up", "down"}
          /\ Move(fsm[e].state, y.fsm.state, y.layer)
      BY DEF IInv, TypeOK, Sound, Yields
    <3>2. LayerStep(LayerOf(fsm[e]), LayerOf(y.fsm), told[e], Told(y.layer, told[e]))
      BY <3>1, MoveRefines
    <3> QED BY <1>1, <2>1, <3>2 DEF Refines
  <2>2. CASE d # e
    BY <1>1, <2>2 DEF Refines, LayerStep
  <2> QED BY <2>1, <2>2
<1> QED BY <1>2, <1>3, <1>4 DEF IInv

\* A sound method that leaves the expired timers alone is such a method: either
\* it started the timer, or the state it came from had one.
LEMMA MethodStep ==
  ASSUME IInv, NEW e \in End, NEW y, Sound(fsm[e], y), NEW rest \in Seq(Message),
         NEW r \in Value \cup {NoOption}, NEW a \in Value \cup {NoOption},
         Perform(e, y, rest, r, a), UNCHANGED fired, OthersTyped'
  PROVE  IInv' /\ \A d \in End : Refines(d)
<1>1. y.fsm.state \in Waiting => y.fsm.timer \/ fired'[e]
  BY DEF Sound, Timed, IInv, WaitsWithTimer, Waiting
<1> QED BY <1>1, PerformStep DEF IInv, TypeOK

\* A session starting its layer.
LEMMA StartStep ==
  ASSUME IInv, NEW e \in End, Start(e) PROVE IInv' /\ \A d \in End : Refines(d)
<1> DEFINE y == IF fsm[e].state = "Initial" THEN Up(fsm[e]) ELSE Open(fsm[e])
<1>1. /\ fsm[e] \in FSM /\ wire[e] \in Seq(Message) /\ local[e] \in Value \cup {NoOption}
      /\ OthersTyped
  BY DEF IInv, TypeOK, OthersTyped
<1>2. Sound(fsm[e], y)
  BY <1>1, UpSound, OpenSound
<1>3. Perform(e, y, wire[e], local[e], NoOption) /\ UNCHANGED fired /\ OthersTyped'
  BY <1>1 DEF Start, OthersTyped
<1> HIDE DEF y
<1> QED BY <1>1, <1>2, <1>3, MethodStep

\* A call or packet that ends the link.
LEMMA BreakStep ==
  ASSUME IInv, NEW e \in End, NEW y, Sound(fsm[e], y), Break(e, y)
  PROVE  IInv' /\ \A d \in End : Refines(d)
<1>1. /\ wire[e] \in Seq(Message) /\ local[e] \in Value \cup {NoOption} /\ OthersTyped
  BY DEF IInv, TypeOK, OthersTyped
<1>2. breaks' \in 0..1
  BY <1>1, LinkAssumption DEF Break, OthersTyped
<1>3. Perform(e, y, wire[e], local[e], NoOption) /\ UNCHANGED fired /\ OthersTyped'
  BY <1>1, <1>2 DEF Break, OthersTyped
<1> QED BY <1>1, <1>3, MethodStep

\* Close, Down, Kill and an unknown code.
LEMMA BreaksStep ==
  ASSUME IInv, NEW e \in End,
         CloseLink(e) \/ LowerDown(e) \/ KillLink(e) \/ UnknownCode(e)
  PROVE  IInv' /\ \A d \in End : Refines(d)
<1>1. fsm[e] \in FSM
  BY DEF IInv, TypeOK
<1> QED BY <1>1, BreakStep, CloseSound, DownSound, KillSound, rucEventSound
        DEF CloseLink, LowerDown, KillLink, UnknownCode

\* A restart restores an Opened layer, which waits for nothing.
LEMMA RestartStep ==
  ASSUME IInv, NEW e \in End, Restart(e) PROVE IInv' /\ \A d \in End : Refines(d)
<1> DEFINE g == Restore(NewFSM).fsm
<1>1. g \in FSM /\ g.state = "Opened"
  <2>1. NewFSM \in FSM
    BY FSMAssumption DEF NewFSM, FSM, State
  <2>2. stopTimer(zrc(NewFSM)) \in FSM
    BY <2>1, Helpers
  <2>3. g = [stopTimer(zrc(NewFSM)) EXCEPT !.state = "Opened"]
    BY DEF Restore, Yield
  <2> QED BY <2>2, <2>3 DEF FSM, State
<1>2. /\ fsm' = [fsm EXCEPT ![e] = g] /\ told' = [told EXCEPT ![e] = "up"]
      /\ fired' = [fired EXCEPT ![e] = FALSE] /\ wire' = [wire EXCEPT ![e] = <<>>]
      /\ UNCHANGED <<local, peer, losses, early, breaks>>
  BY DEF Restart
<1> HIDE DEF g
<1>3. restarts' \in 0..MaxFault
  BY LinkAssumption DEF Restart, FaultLeft, IInv, TypeOK
<1>4. TypeOK'
  BY <1>1, <1>2, <1>3 DEF IInv, TypeOK
<1>5. WaitsWithTimer'
  BY <1>1, <1>2 DEF IInv, TypeOK, WaitsWithTimer
<1>6. ASSUME NEW d \in End PROVE Refines(d)
  <2>1. CASE d = e
    BY <1>1, <1>2, <2>1 DEF IInv, TypeOK, Refines, LayerStep, LayerOf
  <2>2. CASE d # e
    BY <1>2, <2>2 DEF IInv, TypeOK, Refines, LayerStep
  <2> QED BY <2>1, <2>2
<1> QED BY <1>4, <1>5, <1>6 DEF IInv

\* A timer that expires hands over to its goroutine.
LEMMA TimerFiresStep ==
  ASSUME IInv, NEW e \in End, TimerFires(e) PROVE IInv' /\ \A d \in End : Refines(d)
<1>1. early' \in 0..MaxFault
  BY LinkAssumption DEF TimerFires, FaultLeft, IInv, TypeOK
<1>2. /\ fsm' = [fsm EXCEPT ![e].timer = FALSE] /\ fired' = [fired EXCEPT ![e] = TRUE]
      /\ UNCHANGED <<local, peer, wire, told, losses, breaks, restarts>>
  BY DEF TimerFires
<1>3. /\ fsm' \in [End -> FSM] /\ \A d \in End : fsm'[d].state = fsm[d].state
      /\ \A d \in End \ {e} : fsm'[d] = fsm[d]
  <2>1. fsm \in [End -> FSM]
    BY DEF IInv, TypeOK
  <2>2. [fsm[e] EXCEPT !.timer = FALSE] \in FSM
    BY <2>1 DEF FSM
  <2> QED
    BY <1>2, <2>1, <2>2 DEF FSM
<1>4. TypeOK'
  BY <1>1, <1>2, <1>3 DEF IInv, TypeOK
<1>5. WaitsWithTimer'
  BY <1>2, <1>3 DEF IInv, TypeOK, WaitsWithTimer
<1>6. \A d \in End : Refines(d)
  BY <1>2, <1>3 DEF Refines, LayerStep, LayerOf
<1> QED BY <1>4, <1>5, <1>6 DEF IInv

\* The goroutine of an expired timer retransmits with a new timer, or gives up.
LEMMA TimerRunsStep ==
  ASSUME IInv, NEW e \in End, TimerRuns(e) PROVE IInv' /\ \A d \in End : Refines(d)
<1>1. /\ fsm[e] \in FSM /\ wire[e] \in Seq(Message) /\ local[e] \in Value \cup {NoOption}
      /\ OthersTyped
  BY DEF IInv, TypeOK, OthersTyped
<1>2. /\ fired' \in [End -> BOOLEAN] /\ \A d \in End \ {e} : fired'[d] = fired[d]
  BY DEF TimerRuns, IInv, TypeOK
<1>3. Perform(e, Timeout(fsm[e]), wire[e], local[e], NoOption) /\ OthersTyped'
  BY <1>1 DEF TimerRuns, OthersTyped
<1> QED BY <1>1, <1>2, <1>3, TimeoutSound, TimeoutRearms, PerformStep

\* A packet that is ready is on the wire, and what stays is well formed.
LEMMA RemoveAtTyped ==
  ASSUME TypeOK, NEW e \in End, NEW i \in Ready(e)
  PROVE  /\ wire[e][i] \in Message /\ RemoveAt(wire[e], i) \in Seq(Message)
         /\ i \in DOMAIN wire[e]
<1>1. wire[e] \in Seq(Message) /\ i \in DOMAIN wire[e]
  BY DEF TypeOK, Ready
<1> QED BY <1>1, RemoveAtSeq

\* A Configure-Request.
LEMMA RecvConfReqStep ==
  ASSUME IInv, NEW e \in End, NEW i \in Ready(e), RecvConfReq(e, i)
  PROVE  IInv' /\ \A d \in End : Refines(d)
<1> DEFINE m == wire[e][i]
           v == Verdict(e, m.value)
           a == IF v = "ConfNak" THEN Suggest[e] ELSE m.value
<1>1. /\ fsm[e] \in FSM /\ local[e] \in Value \cup {NoOption} /\ OthersTyped
  BY DEF IInv, TypeOK, OthersTyped
<1>2. m \in Message /\ RemoveAt(wire[e], i) \in Seq(Message)
  BY RemoveAtTyped DEF IInv
<1>3. m.id \in 0..IdMod - 1 /\ m.value \in Value \cup {NoOption}
  BY <1>2 DEF Message
<1>4. v \in {"ConfAck", "ConfNak", "ConfRej"} /\ a \in Value \cup {NoOption}
  BY <1>3, LinkAssumption DEF Verdict
<1>5. peer' \in [End -> Value \cup {NoOption}]
  BY <1>1, <1>3 DEF RecvConfReq, OthersTyped
<1>6. Perform(e, rcrEvent(fsm[e], m.id, v), RemoveAt(wire[e], i), local[e], a)
  BY DEF RecvConfReq
<1>7. UNCHANGED fired /\ OthersTyped'
  BY <1>1, <1>5 DEF RecvConfReq, OthersTyped
<1>8. Sound(fsm[e], rcrEvent(fsm[e], m.id, v))
  BY <1>1, <1>3, <1>4, rcrEventSound
<1> HIDE DEF m, v, a
<1> QED BY <1>1, <1>2, <1>4, <1>6, <1>7, <1>8, MethodStep

\* A Configure-Ack.
LEMMA RecvConfAckStep ==
  ASSUME IInv, NEW e \in End, NEW i \in Ready(e), RecvConfAck(e, i)
  PROVE  IInv' /\ \A d \in End : Refines(d)
<1> DEFINE m == wire[e][i]
<1>1. fsm[e] \in FSM /\ OthersTyped
  BY DEF IInv, TypeOK, OthersTyped
<1>2. m \in Message /\ RemoveAt(wire[e], i) \in Seq(Message)
  BY RemoveAtTyped DEF IInv
<1>3. m.id \in 0..IdMod - 1 /\ m.value \in Value \cup {NoOption}
  BY <1>2 DEF Message
<1>4. local' \in [End -> Value \cup {NoOption}]
  BY <1>1, <1>3 DEF RecvConfAck, OthersTyped
<1>5. Perform(e, rcaEvent(fsm[e], m.id), RemoveAt(wire[e], i), local'[e], NoOption)
  BY DEF RecvConfAck
<1>6. UNCHANGED fired /\ OthersTyped'
  BY <1>1, <1>4 DEF RecvConfAck, OthersTyped
<1>7. Sound(fsm[e], rcaEvent(fsm[e], m.id))
  BY <1>1, <1>3, rcaEventSound
<1> HIDE DEF m
<1> QED BY <1>2, <1>4, <1>5, <1>6, <1>7, MethodStep

\* A Configure-Nak or -Reject.
LEMMA RecvConfNakStep ==
  ASSUME IInv, NEW e \in End, NEW i \in Ready(e), RecvConfNak(e, i)
  PROVE  IInv' /\ \A d \in End : Refines(d)
<1> DEFINE m == wire[e][i]
<1>1. fsm[e] \in FSM /\ OthersTyped
  BY DEF IInv, TypeOK, OthersTyped
<1>2. m \in Message /\ RemoveAt(wire[e], i) \in Seq(Message)
  BY RemoveAtTyped DEF IInv
<1>3. m.id \in 0..IdMod - 1 /\ m.value \in Value \cup {NoOption}
  BY <1>2 DEF Message
<1>4. local' \in [End -> Value \cup {NoOption}]
  BY <1>1, <1>3 DEF RecvConfNak, OthersTyped
<1>5. Perform(e, rcnEvent(fsm[e], m.id), RemoveAt(wire[e], i), local'[e], NoOption)
  BY DEF RecvConfNak
<1>6. UNCHANGED fired /\ OthersTyped'
  BY <1>1, <1>4 DEF RecvConfNak, OthersTyped
<1>7. Sound(fsm[e], rcnEvent(fsm[e], m.id))
  BY <1>1, <1>3, rcnEventSound
<1> HIDE DEF m
<1> QED BY <1>2, <1>4, <1>5, <1>6, <1>7, MethodStep

\* A Terminate-Request, Terminate-Ack or Code-Reject.
LEMMA RecvOtherStep ==
  ASSUME IInv, NEW e \in End, NEW i \in Ready(e), RecvOther(e, i)
  PROVE  IInv' /\ \A d \in End : Refines(d)
<1> DEFINE m == wire[e][i]
           y == CASE m.code = "TermReq" -> rtrEvent(fsm[e], m.id)
                  [] m.code = "TermAck" -> rtaEvent(fsm[e])
                  [] m.code = "CodeRej" -> rxjEvent(fsm[e])
<1>1. /\ fsm[e] \in FSM /\ local[e] \in Value \cup {NoOption} /\ OthersTyped
  BY DEF IInv, TypeOK, OthersTyped
<1>2. m \in Message /\ RemoveAt(wire[e], i) \in Seq(Message)
  BY RemoveAtTyped DEF IInv
<1>3. m.id \in 0..IdMod - 1
  BY <1>2 DEF Message
<1>4. m.code \in {"TermReq", "TermAck", "CodeRej"}
  BY DEF RecvOther
<1>5. Perform(e, y, RemoveAt(wire[e], i), local[e], NoOption)
  BY DEF RecvOther
<1>6. UNCHANGED fired /\ OthersTyped'
  BY <1>1 DEF RecvOther, OthersTyped
<1>7. Sound(fsm[e], y)
  BY <1>1, <1>3, <1>4, rtrEventSound, rtaEventSound, rxjEventSound
<1> HIDE DEF m, y
<1> QED BY <1>1, <1>2, <1>5, <1>6, <1>7, MethodStep

\* A lost packet changes neither end.
LEMMA LoseStep ==
  ASSUME IInv, NEW e \in End, Lose(e) PROVE IInv' /\ \A d \in End : Refines(d)
<1>1. losses' \in 0..MaxFault
  BY LinkAssumption DEF Lose, FaultLeft, IInv, TypeOK
<1>2. wire' \in [End -> Seq(Message)]
  <2>1. PICK i \in DOMAIN wire[e] : wire' = [wire EXCEPT ![e] = RemoveAt(@, i)]
    BY DEF Lose
  <2>2. RemoveAt(wire[e], i) \in Seq(Message)
    BY RemoveAtSeq DEF IInv, TypeOK
  <2> QED BY <2>1, <2>2 DEF IInv, TypeOK
<1>3. UNCHANGED <<fsm, fired, local, peer, told, early, breaks, restarts>>
  BY DEF Lose
<1>4. IInv'
  BY <1>1, <1>2, <1>3 DEF IInv, TypeOK, WaitsWithTimer
<1>5. \A d \in End : Refines(d)
  BY <1>3 DEF Refines, LayerStep
<1> QED BY <1>4, <1>5

-----------------------------------------------------------------------------
(* The invariant, the theorems and the refinement.                         *)

\* A new automaton waits for nothing.
LEMMA InitIInv == Init => IInv
<1> SUFFICES ASSUME Init PROVE IInv
  OBVIOUS
<1>1. NewFSM \in FSM /\ NewFSM.state = "Initial"
  BY FSMAssumption DEF NewFSM, FSM, State
<1>2. TypeOK
  BY <1>1, LinkAssumption DEF Init, TypeOK
<1>3. WaitsWithTimer
  BY <1>1 DEF Init, WaitsWithTimer
<1> QED BY <1>2, <1>3 DEF IInv

\* Every step of the link keeps the invariant and is, seen from the session of
\* either end, a step of its layer or none.
LEMMA StepIInv == IInv /\ [Next]_vars => IInv' /\ \A d \in End : Refines(d)
<1> SUFFICES ASSUME IInv, [Next]_vars PROVE IInv' /\ \A d \in End : Refines(d)
  OBVIOUS
<1>1. CASE Next
  <2>1. PICK e \in End : \/ Start(e) \/ CloseLink(e) \/ LowerDown(e) \/ KillLink(e)
                         \/ UnknownCode(e) \/ Restart(e) \/ TimerFires(e) \/ TimerRuns(e)
                         \/ Input(e) \/ Lose(e)
    BY <1>1 DEF Next
  <2>2. CASE Input(e)
    BY <2>2, RecvConfReqStep, RecvConfAckStep, RecvConfNakStep, RecvOtherStep DEF Input
  <2> QED BY <2>1, <2>2, StartStep, BreaksStep, RestartStep, TimerFiresStep,
             TimerRunsStep, LoseStep
<1>2. CASE UNCHANGED vars
  BY <1>2 DEF vars, IInv, TypeOK, WaitsWithTimer, Refines, LayerStep
<1> QED BY <1>1, <1>2

\* The invariant holds throughout.
LEMMA IInvHolds == Spec => []IInv
BY InitIInv, StepIInv, PTL DEF Spec

\* Types: identifiers stay uint8 (nextID wraps), states are those of fsm.go.
THEOREM TypeCorrect == Spec => []TypeOK
<1>1. IInv => TypeOK
  BY DEF IInv
<1> QED BY <1>1, IInvHolds, PTL

\* A layer waiting for an answer never loses the timer that would retransmit
\* (startTimer, stopTimer and the expiry callback), whatever arrives, in
\* whatever order, while an expired timer waits for the mutex.
THEOREM TimerCorrect == Spec => []WaitsWithTimer
<1>1. IInv => WaitsWithTimer
  BY DEF IInv
<1> QED BY <1>1, IInvHolds, PTL

\* Both layers start shut, their sessions told nothing.
LEMMA InitLayer == Init => LayerA!Init /\ LayerB!Init
BY DEF Init, LayerA!Init, LayerB!Init, LayerOf, NewFSM, End

\* A step of the link is a step of both abstract layers, or leaves them alone.
LEMMA StepLayer ==
  IInv /\ [Next]_vars => [LayerA!Next]_LayerA!vars /\ [LayerB!Next]_LayerB!vars
<1> SUFFICES ASSUME IInv, [Next]_vars
             PROVE  [LayerA!Next]_LayerA!vars /\ [LayerB!Next]_LayerB!vars
  OBVIOUS
<1>1. Refines(A) /\ Refines(B)
  BY StepIInv DEF End
<1>2. LayerOf(fsm[A])' = LayerOf(fsm'[A]) /\ LayerOf(fsm[B])' = LayerOf(fsm'[B])
  BY DEF LayerOf
<1>3. [LayerA!Next]_LayerA!vars
  BY <1>1, <1>2 DEF Refines, LayerStep, LayerA!vars, LayerA!Next, LayerA!Allow,
     LayerA!LayerUp, LayerA!LayerDown, LayerA!Close, LayerA!Kill, LayerA!Restore
<1>4. [LayerB!Next]_LayerB!vars
  BY <1>1, <1>2 DEF Refines, LayerStep, LayerB!vars, LayerB!Next, LayerB!Allow,
     LayerB!LayerUp, LayerB!LayerDown, LayerB!Close, LayerB!Kill, LayerB!Restore
<1> QED BY <1>3, <1>4

\* Each end implements the layer its session relies on: LayerUp and LayerDown
\* are called exactly when the layer opens and closes, and a layer that was shut
\* opens only after the session's Open.
THEOREM LayerCorrect == Spec => ImplementsLayer
BY InitLayer, StepLayer, IInvHolds, PTL
   DEF Spec, ImplementsLayer, LayerA!Spec, LayerB!Spec
=============================================================================
