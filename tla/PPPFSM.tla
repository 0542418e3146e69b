------------------------------- MODULE PPPFSM -------------------------------
(***************************************************************************)
(* The negotiation automaton of pkg/ppp/fsm.go, which LCP, IPCP and IPv6CP *)
(* instantiate.  Every public method of the FSM holds f.mu from its first  *)
(* to its last line, so a method is one operator: it takes the automaton   *)
(* before the call and yields the automaton after it, the packets it hands *)
(* to Send in order, and the layer callback it makes.                      *)
(*                                                                         *)
(* An automaton is a record:                                               *)
(*   state  f.state                                                        *)
(*   count  f.restartCount                                                 *)
(*   timer  the time.AfterFunc of f.timer is pending                       *)
(*   id     f.id, the identifier of the last packet numbered by nextID     *)
(*   last   f.lastReqID                                                    *)
(* f.failCount is counted and never read, and is left out.                 *)
(***************************************************************************)
EXTENDS Naturals, Sequences

CONSTANTS
  MaxConf,      \* f.maxConf, 10 in NewFSM
  MaxTerm,      \* f.maxTerm, 2 in NewFSM
  IdMod         \* identifiers are uint8: 256 in the code

ASSUME FSMAssumption ==
  /\ MaxConf \in Nat \ {0}
  /\ MaxTerm \in Nat \ {0}
  /\ IdMod \in Nat \ {0}

State == {"Initial", "Starting", "Closed", "Stopped", "Closing", "Stopping",
          "ReqSent", "AckRcvd", "AckSent", "Opened"}

FSM == [state : State, count : Nat, timer : BOOLEAN,
        id : 0..IdMod - 1, last : 0..IdMod - 1]

NewFSM == [state |-> "Initial", count |-> 0, timer |-> FALSE,
           id |-> 0, last |-> 0]

(***************************************************************************)
(* What a method yields.  layer is the callback it makes among LayerUp     *)
(* (tlu) and LayerDown (tld); no method makes both.  LayerStarted and      *)
(* LayerFinished are set by no user of the package and are left out.       *)
(***************************************************************************)
Yield(f, state, out, layer) ==
  [fsm |-> [f EXCEPT !.state = state], out |-> out, layer |-> layer]

Ignore(f) == Yield(f, f.state, <<>>, "none")

Packet(code, id) == [code |-> code, id |-> id]

\* Mutant: the identifier does not wrap.
nextIDUnwrapped(f) == f.id + 1

nextID(f) == (f.id + 1) % IdMod

irc(f) == [f EXCEPT !.count = MaxConf]

zrc(f) == [f EXCEPT !.count = 0]

stopTimer(f) == [f EXCEPT !.timer = FALSE]

(***************************************************************************)
(* scr and str number a request and start the timer; ConfReq and TermReq   *)
(* are the packets they sent.                                              *)
(***************************************************************************)
\* Mutant: a request is sent without its timer.
scrUntimed(f) == [f EXCEPT !.id = nextID(f), !.last = nextID(f)]

scr(f) == [f EXCEPT !.id = nextID(f), !.last = nextID(f), !.timer = TRUE]

ConfReq(f) == Packet("ConfReq", f.last)

strRetransmit(f) == [f EXCEPT !.id = nextID(f), !.timer = TRUE]

str(f) == strRetransmit([f EXCEPT !.count = MaxTerm])

TermReq(f) == Packet("TermReq", f.id)

sta(id) == Packet("TermAck", id)

(***************************************************************************)
(* The calls of the layer's user.                                          *)
(***************************************************************************)
Restore(f) == Yield(stopTimer(zrc(f)), "Opened", <<>>, "none")

Up(f) ==
  CASE f.state = "Initial"  -> Yield(f, "Closed", <<>>, "none")
    [] f.state = "Starting" ->
         LET g == scr(irc(f)) IN Yield(g, "ReqSent", <<ConfReq(g)>>, "none")
    [] OTHER -> Ignore(f)

Down(f) ==
  LET g == stopTimer(f) IN
  CASE f.state \in {"Closed", "Closing"} -> Yield(g, "Initial", <<>>, "none")
    [] f.state \in {"Stopped", "Stopping", "ReqSent", "AckRcvd", "AckSent"} ->
         Yield(g, "Starting", <<>>, "none")
    [] f.state = "Opened" -> Yield(g, "Starting", <<>>, "down")
    [] OTHER -> Ignore(g)

Open(f) ==
  CASE f.state = "Initial" -> Yield(f, "Starting", <<>>, "none")
    [] f.state = "Closed"  ->
         LET g == scr(irc(f)) IN Yield(g, "ReqSent", <<ConfReq(g)>>, "none")
    [] OTHER -> Ignore(f)

Close(f) ==
  LET g == str(irc(f)) IN
  CASE f.state = "Starting" -> Yield(f, "Initial", <<>>, "none")
    [] f.state = "Stopped"  -> Yield(f, "Closed", <<>>, "none")
    [] f.state = "Stopping" -> Yield(f, "Closing", <<>>, "none")
    [] f.state = "Opened"   -> Yield(g, "Closing", <<TermReq(g)>>, "down")
    [] f.state \in {"ReqSent", "AckRcvd", "AckSent"} ->
         Yield(g, "Closing", <<TermReq(g)>>, "none")
    [] OTHER -> Ignore(f)

Kill(f) == Yield(stopTimer(f), "Closed", <<>>, "none")

(***************************************************************************)
(* The expiry of the restart timer.                                        *)
(***************************************************************************)
\* Mutant: nothing is retransmitted in AckRcvd.
TimeoutNotInAckRcvd(f) ==
  IF f.count > 0
  THEN LET g == scr([f EXCEPT !.count = @ - 1])
           h == strRetransmit([f EXCEPT !.count = @ - 1])
       IN CASE f.state \in {"Closing", "Stopping"} ->
                 Yield(h, f.state, <<TermReq(h)>>, "none")
            [] f.state \in {"ReqSent", "AckSent"} ->
                 Yield(g, f.state, <<ConfReq(g)>>, "none")
            [] OTHER -> Ignore(f)
  ELSE CASE f.state = "Closing" -> Yield(f, "Closed", <<>>, "none")
         [] f.state \in {"Stopping", "ReqSent", "AckRcvd", "AckSent"} ->
              Yield(f, "Stopped", <<>>, "none")
         [] OTHER -> Ignore(f)

Timeout(f) ==
  IF f.count > 0
  THEN LET g == [f EXCEPT !.count = @ - 1] IN
       CASE f.state \in {"Closing", "Stopping"} ->
              LET h == strRetransmit(g)
              IN  Yield(h, f.state, <<TermReq(h)>>, "none")
         [] f.state \in {"ReqSent", "AckSent"} ->
              LET h == scr(g) IN Yield(h, f.state, <<ConfReq(h)>>, "none")
         [] f.state = "AckRcvd" ->
              LET h == scr(g) IN Yield(h, "ReqSent", <<ConfReq(h)>>, "none")
         [] OTHER -> Ignore(g)
  ELSE CASE f.state = "Closing" -> Yield(f, "Closed", <<>>, "none")
         [] f.state \in {"Stopping", "ReqSent", "AckRcvd", "AckSent"} ->
              Yield(f, "Stopped", <<>>, "none")
         [] OTHER -> Ignore(f)

(***************************************************************************)
(* The packets of the peer.  verdict is what the option handler's          *)
(* ProcessConfReq makes of a Configure-Request: the code of the answer.    *)
(***************************************************************************)
rcrEvent(f, id, verdict) ==
  LET answer == <<Packet(verdict, id)>>
      good   == verdict = "ConfAck"
      next   == IF good THEN "AckSent" ELSE "ReqSent"
  IN
  CASE f.state = "Closed"  -> Yield(f, "Closed", <<sta(id)>>, "none")
    [] f.state = "Stopped" ->
         LET g == scr(irc(f))
         IN  Yield(g, next, <<ConfReq(g)>> \o answer, "none")
    [] f.state \in {"ReqSent", "AckSent"} -> Yield(f, next, answer, "none")
    [] f.state = "AckRcvd" ->
         IF good THEN Yield(stopTimer(f), "Opened", answer, "up")
                 ELSE Yield(f, "AckRcvd", answer, "none")
    [] f.state = "Opened" ->
         LET g == scr(f) IN Yield(g, next, <<ConfReq(g)>> \o answer, "down")
    [] OTHER -> Ignore(f)

rcaEvent(f, id) ==
  LET g == scr(f) IN
  CASE id # f.last -> Ignore(f)
    [] id = f.last /\ f.state \in {"Closed", "Stopped"} ->
         Yield(f, f.state, <<sta(id)>>, "none")
    [] id = f.last /\ f.state = "ReqSent" ->
         Yield(irc(f), "AckRcvd", <<>>, "none")
    [] id = f.last /\ f.state = "AckRcvd" ->
         Yield(g, "ReqSent", <<ConfReq(g)>>, "none")
    [] id = f.last /\ f.state = "AckSent" ->
         Yield(stopTimer(f), "Opened", <<>>, "up")
    [] id = f.last /\ f.state = "Opened" ->
         Yield(g, "ReqSent", <<ConfReq(g)>>, "down")
    [] OTHER -> Ignore(f)

rcnEvent(f, id) ==
  LET g == scr(f)
      h == scr(irc(f))
  IN
  CASE id # f.last -> Ignore(f)
    [] id = f.last /\ f.state \in {"Closed", "Stopped"} ->
         Yield(f, f.state, <<sta(id)>>, "none")
    [] id = f.last /\ f.state \in {"ReqSent", "AckSent"} ->
         Yield(h, "ReqSent", <<ConfReq(h)>>, "none")
    [] id = f.last /\ f.state = "AckRcvd" ->
         Yield(g, "ReqSent", <<ConfReq(g)>>, "none")
    [] id = f.last /\ f.state = "Opened" ->
         Yield(g, "ReqSent", <<ConfReq(g)>>, "down")
    [] OTHER -> Ignore(f)

\* Mutant: the session is not told that the peer ended the link.
rtrSilent(f, id) ==
  CASE f.state \in {"Initial", "Starting"} -> Ignore(f)
    [] f.state = "Opened" -> Yield(zrc(f), "Stopping", <<sta(id)>>, "none")
    [] OTHER -> Yield(f, f.state, <<sta(id)>>, "none")

rtrEvent(f, id) ==
  CASE f.state \in {"Initial", "Starting"} -> Ignore(f)
    [] f.state = "Opened" -> Yield(zrc(f), "Stopping", <<sta(id)>>, "down")
    [] OTHER -> Yield(f, f.state, <<sta(id)>>, "none")

rtaEvent(f) ==
  LET g == scr(f) IN
  CASE f.state = "Closing"  -> Yield(stopTimer(f), "Closed", <<>>, "none")
    [] f.state = "Stopping" -> Yield(stopTimer(f), "Stopped", <<>>, "none")
    [] f.state = "AckSent"  -> Yield(f, "ReqSent", <<>>, "none")
    [] f.state = "Opened"   -> Yield(g, "ReqSent", <<ConfReq(g)>>, "down")
    [] OTHER -> Ignore(f)

rxjEvent(f) ==
  LET g == str(irc(f)) IN
  CASE f.state \in {"ReqSent", "AckRcvd", "AckSent"} ->
         Yield(f, "Stopped", <<>>, "none")
    [] f.state = "Opened" -> Yield(g, "Stopping", <<TermReq(g)>>, "down")
    [] OTHER -> Ignore(f)

rucEvent(f) ==
  Yield([f EXCEPT !.id = nextID(f)], f.state,
        <<Packet("CodeRej", nextID(f))>>, "none")
=============================================================================
