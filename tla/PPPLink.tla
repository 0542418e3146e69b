------------------------------ MODULE PPPLink -------------------------------
(***************************************************************************)
(* Two ends of one PPP layer, each running the automaton of pkg/ppp/fsm.go *)
(* over a wire that may lose packets, with the restart timer that          *)
(* retransmits.  osvbng handles every frame of a subscriber in a goroutine *)
(* of its own (internal/pppoe/component.go), so an end in Unordered takes  *)
(* its packets in any order.                                               *)
(*                                                                         *)
(* One option is negotiated.  An end asks for the value local of it (the   *)
(* handler's BuildConfReq) and answers a request of its peer by Reply.     *)
(***************************************************************************)
EXTENDS PPPFSM, SequencesExt

CONSTANTS
  A, B,        \* the two ends
  Unordered,   \* the ends whose input is not kept in order
  Value,       \* the values of the option
  NoOption,    \* the option is left out of the request
  Wanted,      \* Wanted[e]: the value e asks for first
  Reply,       \* Reply[e][v]: the verdict of e on the value v
  Suggest,     \* Suggest[e]: the value e puts in a Configure-Nak
  MaxFault,    \* losses, early timers and restarts in a behaviour; a
               \* behaviour in which something ends the link has none
  MaxEarly     \* the early timers among them

End == {A, B}

Other(e) == IF e = A THEN B ELSE A

ASSUME LinkAssumption ==
  /\ A # B
  /\ Unordered \subseteq End
  /\ NoOption \notin Value
  /\ Wanted \in [End -> Value]
  /\ Reply \in [End -> [Value -> {"ConfAck", "ConfNak", "ConfRej"}]]
  /\ Suggest \in [End -> Value]
  /\ \A e \in End : Reply[e][Suggest[e]] = "ConfAck"
  /\ MaxFault \in Nat /\ MaxEarly \in Nat

VARIABLES
  fsm,      \* fsm[e]: the automaton of e
  fired,    \* fired[e]: an expired timer's goroutine waits for the mutex
  local,    \* local[e]: the option value e requests (handler.local, rejected)
  peer,     \* peer[e]: the value of the peer that e recorded (handler.peer)
  wire,     \* wire[e]: the packets under way to e
  told,     \* told[e]: what the layer last told the session of e
  losses,   \* packets the wire lost
  early,    \* timers that expired although an answer was under way
  breaks,   \* calls and packets that end the link
  restarts  \* restarts of the process of an end

vars == <<fsm, fired, local, peer, wire, told,
          losses, early, breaks, restarts>>

Init ==
  /\ fsm = [e \in End |-> NewFSM]
  /\ fired = [e \in End |-> FALSE]
  /\ local = Wanted
  /\ peer = [e \in End |-> NoOption]
  /\ wire = [e \in End |-> <<>>]
  /\ told = [e \in End |-> "down"]
  /\ losses = 0 /\ early = 0 /\ breaks = 0 /\ restarts = 0

FaultLeft == breaks = 0 /\ losses + early + restarts < MaxFault

(***************************************************************************)
(* A packet on the wire carries the option: BuildConfReq puts the value    *)
(* requested now into a Configure-Request, the answers to one carry what   *)
(* ProcessConfReq returned.                                                *)
(***************************************************************************)
Stamp(p, request, answer) ==
  [code |-> p.code, id |-> p.id,
   value |-> CASE p.code = "ConfReq" -> request
               [] p.code \in {"ConfAck", "ConfNak", "ConfRej"} -> answer
               [] OTHER -> NoOption]

(***************************************************************************)
(* The effect of a method of e's automaton: rest is what is left of the    *)
(* packets to e, request and answer the option values of what it sends.    *)
(***************************************************************************)
Perform(e, y, rest, request, answer) ==
  /\ fsm' = [fsm EXCEPT ![e] = y.fsm]
  /\ wire' = [wire EXCEPT
       ![e] = rest,
       ![Other(e)] = @ \o [i \in DOMAIN y.out |->
                             Stamp(y.out[i], request, answer)]]
  /\ told' = [told EXCEPT ![e] = IF y.layer = "none" THEN @ ELSE y.layer]

(***************************************************************************)
(* A session starts the layer with Up, then Open.                          *)
(***************************************************************************)
Start(e) ==
  /\ fsm[e].state \in {"Initial", "Closed"}
  /\ breaks = 0
  /\ Perform(e, IF fsm[e].state = "Initial" THEN Up(fsm[e]) ELSE Open(fsm[e]),
             wire[e], local[e], NoOption)
  /\ UNCHANGED <<fired, local, peer, losses, early, breaks, restarts>>

(***************************************************************************)
(* What ends the link: the session closes the layer (a failed login), the  *)
(* lower layer goes down, the session is terminated, or a packet with an   *)
(* unknown code reaches an end, which rejects it.                          *)
(***************************************************************************)
Break(e, y) ==
  /\ losses + early + restarts + breaks = 0
  /\ breaks' = breaks + 1
  /\ Perform(e, y, wire[e], local[e], NoOption)
  /\ UNCHANGED <<fired, local, peer, losses, early, restarts>>

CloseLink(e) == Break(e, Close(fsm[e]))

LowerDown(e) == Break(e, Down(fsm[e]))

KillLink(e) == Break(e, Kill(fsm[e]))

UnknownCode(e) == Break(e, rucEvent(fsm[e]))

\* Mutant: the checkpoint has the session but not the peer's option.
RestartForgets(e) ==
  /\ e \in Unordered
  /\ fsm[e].state = "Opened"
  /\ FaultLeft
  /\ restarts' = restarts + 1
  /\ fsm' = [fsm EXCEPT ![e] = Restore(NewFSM).fsm]
  /\ told' = [told EXCEPT ![e] = "up"]
  /\ fired' = [fired EXCEPT ![e] = FALSE]
  /\ wire' = [wire EXCEPT ![e] = <<>>]
  /\ peer' = [peer EXCEPT ![e] = NoOption]
  /\ UNCHANGED <<local, losses, early, breaks>>

(***************************************************************************)
(* The process of e restarts and restores a session checkpointed while its *)
(* layer was open: a new automaton goes straight to Opened, its options    *)
(* come from the checkpoint, and what was under way to it is gone.         *)
(***************************************************************************)
Restart(e) ==
  /\ e \in Unordered
  /\ fsm[e].state = "Opened"
  /\ FaultLeft
  /\ restarts' = restarts + 1
  /\ fsm' = [fsm EXCEPT ![e] = Restore(NewFSM).fsm]
  /\ told' = [told EXCEPT ![e] = "up"]
  /\ fired' = [fired EXCEPT ![e] = FALSE]
  /\ wire' = [wire EXCEPT ![e] = <<>>]
  /\ UNCHANGED <<local, peer, losses, early, breaks>>

(***************************************************************************)
(* The restart timer is longer than a round trip: to expire while an       *)
(* answer is under way counts as a fault.  The goroutine of an expired     *)
(* timer waits for f.mu, and stopTimer no longer reaches it.               *)
(***************************************************************************)
TimerFires(e) ==
  LET onTime == \A x \in End : wire[x] = <<>> IN
  /\ fsm[e].timer /\ ~fired[e]
  /\ onTime \/ (FaultLeft /\ early < MaxEarly)
  /\ early' = IF onTime THEN early ELSE early + 1
  /\ fsm' = [fsm EXCEPT ![e].timer = FALSE]
  /\ fired' = [fired EXCEPT ![e] = TRUE]
  /\ UNCHANGED <<local, peer, wire, told, losses, breaks, restarts>>

TimerRuns(e) ==
  /\ fired[e]
  /\ fired' = [fired EXCEPT ![e] = FALSE]
  /\ Perform(e, Timeout(fsm[e]), wire[e], local[e], NoOption)
  /\ UNCHANGED <<local, peer, losses, early, breaks, restarts>>

(***************************************************************************)
(* The packets e may take next.                                            *)
(***************************************************************************)
Ready(e) == IF e \in Unordered THEN DOMAIN wire[e]
                               ELSE DOMAIN wire[e] \cap {1}

(***************************************************************************)
(* A Configure-Request is judged, and its value recorded, in every state   *)
(* of the automaton, the ones that ignore the request included.            *)
(***************************************************************************)
Verdict(e, v) == IF v = NoOption THEN "ConfAck" ELSE Reply[e][v]

RecvConfReq(e, i) ==
  LET m == wire[e][i]
      v == Verdict(e, m.value)
  IN
  /\ m.code = "ConfReq"
  /\ peer' = [peer EXCEPT
       ![e] = IF m.value # NoOption /\ v = "ConfAck" THEN m.value ELSE @]
  /\ Perform(e, rcrEvent(fsm[e], m.id, v), RemoveAt(wire[e], i), local[e],
             IF v = "ConfNak" THEN Suggest[e] ELSE m.value)
  /\ UNCHANGED <<fired, local, losses, early, breaks, restarts>>

RecvConfAck(e, i) ==
  LET m == wire[e][i] IN
  /\ m.code = "ConfAck"
  /\ local' = [local EXCEPT
       ![e] = IF m.id = fsm[e].last /\ m.value # NoOption THEN m.value ELSE @]
  /\ Perform(e, rcaEvent(fsm[e], m.id), RemoveAt(wire[e], i), local'[e],
             NoOption)
  /\ UNCHANGED <<fired, peer, losses, early, breaks, restarts>>

(***************************************************************************)
(* A Nak replaces the value that will be requested next, a Rej leaves the  *)
(* option out from now on.                                                 *)
(***************************************************************************)
RecvConfNak(e, i) ==
  LET m == wire[e][i] IN
  /\ m.code \in {"ConfNak", "ConfRej"}
  /\ local' = [local EXCEPT
       ![e] = CASE m.id # fsm[e].last -> @
                [] m.id = fsm[e].last /\ m.code = "ConfRej" -> NoOption
                [] OTHER -> IF @ = NoOption THEN @ ELSE m.value]
  /\ Perform(e, rcnEvent(fsm[e], m.id), RemoveAt(wire[e], i), local'[e],
             NoOption)
  /\ UNCHANGED <<fired, peer, losses, early, breaks, restarts>>

RecvOther(e, i) ==
  LET m == wire[e][i] IN
  /\ m.code \in {"TermReq", "TermAck", "CodeRej"}
  /\ Perform(e, CASE m.code = "TermReq" -> rtrEvent(fsm[e], m.id)
                  [] m.code = "TermAck" -> rtaEvent(fsm[e])
                  [] m.code = "CodeRej" -> rxjEvent(fsm[e]),
             RemoveAt(wire[e], i), local[e], NoOption)
  /\ UNCHANGED <<fired, local, peer, losses, early, breaks, restarts>>

Input(e) ==
  \E i \in Ready(e) : RecvConfReq(e, i) \/ RecvConfAck(e, i)
                        \/ RecvConfNak(e, i) \/ RecvOther(e, i)

Lose(e) ==
  /\ FaultLeft
  /\ losses' = losses + 1
  /\ \E i \in DOMAIN wire[e] : wire' = [wire EXCEPT ![e] = RemoveAt(@, i)]
  /\ UNCHANGED <<fsm, fired, local, peer, told, early, breaks, restarts>>

Next ==
  \E e \in End :
    \/ Start(e) \/ CloseLink(e) \/ LowerDown(e) \/ KillLink(e)
    \/ UnknownCode(e) \/ Restart(e) \/ TimerFires(e) \/ TimerRuns(e)
    \/ Input(e) \/ Lose(e)

(***************************************************************************)
(* Sessions start their layers, expired timers run, and packets that stay  *)
(* on the wire are handled: the Go scheduler runs every ready goroutine.   *)
(***************************************************************************)
Fairness ==
  \A e \in End : /\ WF_vars(Start(e)) /\ SF_vars(TimerFires(e))
                 /\ WF_vars(TimerRuns(e)) /\ WF_vars(Input(e))

Spec == Init /\ [][Next]_vars

FairSpec == Spec /\ Fairness
-----------------------------------------------------------------------------
Codes == {"ConfReq", "ConfAck", "ConfNak", "ConfRej",
          "TermReq", "TermAck", "CodeRej"}

Message == [code : Codes, id : 0..IdMod - 1, value : Value \cup {NoOption}]

TypeOK ==
  /\ fsm \in [End -> FSM]
  /\ fired \in [End -> BOOLEAN]
  /\ local \in [End -> Value \cup {NoOption}]
  /\ peer \in [End -> Value \cup {NoOption}]
  /\ wire \in [End -> Seq(Message)]
  /\ told \in [End -> {"up", "down"}]
  /\ losses \in 0..MaxFault /\ early \in 0..MaxFault
  /\ breaks \in 0..1 /\ restarts \in 0..MaxFault

(***************************************************************************)
(* A layer that waits for an answer to its Configure-Request is never left *)
(* without the timer that will send the request again: it is pending, or   *)
(* its goroutine is already on its way to f.mu (fsm.go:454-461, 224-252).  *)
(***************************************************************************)
WaitsWithTimer ==
  \A e \in End : fsm[e].state \in {"ReqSent", "AckRcvd", "AckSent"} =>
                   fsm[e].timer \/ fired[e]

(***************************************************************************)
(* Two ends that are open with nothing under way agree on the option: each *)
(* recorded what the other asks for now, and finds it acceptable.          *)
(***************************************************************************)
OpenMeansAgreed ==
  (\A e \in End : fsm[e].state = "Opened" /\ wire[e] = <<>>) =>
    \A e \in End : local[e] # NoOption =>
      /\ peer[Other(e)] = local[e]
      /\ Reply[Other(e)][local[e]] = "ConfAck"

(***************************************************************************)
(* Unless something ends the link, both ends open and stay open, whatever  *)
(* the wire loses and however input is reordered at an end, and likewise   *)
(* when the process of an end restarts.  A loss and a restart together are *)
(* left out: Restore zeroes the restart counter and no renegotiation sets  *)
(* it again (fsm.go:119, 307-309), so a restored end sends the request of  *)
(* its first renegotiation once, and gives up when that packet is lost.    *)
(***************************************************************************)
Converges ==
  <>[](\/ \A e \in End : fsm[e].state = "Opened"
       \/ breaks > 0
       \/ losses > 0 /\ restarts > 0)

(***************************************************************************)
(* What the session of an end sees of its layer is the layer of PPPLayer.  *)
(***************************************************************************)
LayerOf(f) ==
  CASE f.state = "Opened" -> "up"
    [] f.state \in {"Initial", "Closed", "Closing"} -> "shut"
    [] OTHER -> "down"

LayerA == INSTANCE PPPLayer WITH layer <- LayerOf(fsm[A]), told <- told[A]

LayerB == INSTANCE PPPLayer WITH layer <- LayerOf(fsm[B]), told <- told[B]

ImplementsLayer == LayerA!Spec /\ LayerB!Spec
=============================================================================
