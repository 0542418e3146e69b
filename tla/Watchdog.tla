------------------------------ MODULE Watchdog ------------------------------
(***************************************************************************)
(* The watchdog's runner for one target (internal/watchdog/runner.go).     *)
(* One goroutine checks the target's health and, after FailureThreshold    *)
(* bad checks in a row, runs the configured action to its end; no check is *)
(* made meanwhile.  What the target answers is given by the module that    *)
(* composes the runner with it.                                            *)
(***************************************************************************)
EXTENDS Integers

CONSTANTS
    FailureThreshold,    \* bad checks in a row before the action
    ReconnectMaxRetries, \* limits of one doRecover's attempts, 0 for none
    OnFailure            \* the actions an operator may configure

ASSUME WatchdogAssumption ==
    /\ FailureThreshold \in Nat \ {0}
    /\ ReconnectMaxRetries \subseteq Nat
    /\ OnFailure \subseteq {"recover", "restart", "warn", "fail"}

VARIABLES
    wstate,       \* r.state
    wpc,          \* where the goroutine is: "check" between two checks
    consecFailures,
    attempt,      \* of doRecover's loop; not counted when there is no limit
    action,       \* r.config.OnFailure
    maxRetries,   \* r.config.ReconnectMaxRetries
    paused        \* OnDown paused the dataplane's packet processing

watchdogVars == <<wstate, wpc, consecFailures, attempt, action, maxRetries,
                  paused>>

Stopped ==
    /\ wstate' = "init" /\ wpc' = "off" /\ consecFailures' = 0 /\ attempt' = 0
    /\ paused' = FALSE /\ UNCHANGED <<action, maxRetries>>

start ==
    /\ wpc = "off" /\ wpc' = "check"
    /\ UNCHANGED <<wstate, consecFailures, attempt, action, maxRetries, paused>>

handleSuccess ==
    /\ wpc = "check"
    /\ wstate' = "up"
    /\ paused' = (paused /\ wstate = "up")
    /\ consecFailures' = 0
    /\ UNCHANGED <<wpc, attempt, action, maxRetries>>

\* Failures past the threshold are not told apart.
Failures == IF consecFailures < FailureThreshold THEN consecFailures + 1
                                                 ELSE consecFailures

BelowThreshold ==
    /\ wpc = "check" /\ Failures < FailureThreshold
    /\ consecFailures' = Failures
    /\ UNCHANGED <<wstate, wpc, attempt, action, maxRetries, paused>>

\* doRecover is entered: it returns when a recovery is under way, else its
\* loop starts at attempt zero.
EnterRecover ==
    IF wstate \in {"reconnecting", "recovering"}
    THEN wpc' = "check" /\ UNCHANGED <<wstate, attempt>>
    ELSE wstate' = "reconnecting" /\ wpc' = "connect" /\ attempt' = 0

\* The threshold is reached: OnDown once, then dispatchAction.
handleFailure ==
    /\ wpc = "check" /\ Failures = FailureThreshold
    /\ consecFailures' = Failures
    /\ paused' = (paused \/ wstate \in {"up", "init"})
    /\ LET st == IF wstate \in {"up", "init"} THEN "down" ELSE wstate
       IN  \/ /\ action = "recover"
              /\ EnterRecover
           \/ /\ action = "restart"
              /\ wstate' = st /\ wpc' = "restart" /\ UNCHANGED attempt
           \/ /\ action = "warn"
              /\ wstate' = st /\ UNCHANGED <<wpc, attempt>>
           \/ /\ action = "fail"
              /\ wstate' = "failed" /\ UNCHANGED <<wpc, attempt>>
    /\ UNCHANGED <<action, maxRetries>>

\* doRestart: a reachable target is recovered as it is, another one is
\* restarted first; both end in doRecover.
doRestart ==
    /\ wpc = "restart"
    /\ EnterRecover
    /\ UNCHANGED <<consecFailures, action, maxRetries, paused>>

\* Mutant: attempts are counted without a limit too.
NextAttemptCounted == attempt + 1

LimitReached == maxRetries > 0 /\ attempt >= maxRetries
NextAttempt == IF maxRetries > 0 THEN attempt + 1 ELSE attempt

\* target.Connect: on to the recovery, or another attempt after the backoff.
Connect(reachable) ==
    /\ wpc = "connect" /\ ~LimitReached
    /\ IF reachable
       THEN wstate' = "recovering" /\ wpc' = "recover" /\ UNCHANGED attempt
       ELSE attempt' = NextAttempt /\ UNCHANGED <<wstate, wpc>>
    /\ UNCHANGED <<consecFailures, action, maxRetries, paused>>

GiveUp ==
    /\ wpc = "connect" /\ LimitReached
    /\ wstate' = "failed" /\ wpc' = "check"
    /\ UNCHANGED <<consecFailures, attempt, action, maxRetries, paused>>

\* target.Recover has returned.
Recovered ==
    /\ wpc = "recover"
    /\ wstate' = "up" /\ wpc' = "check" /\ consecFailures' = 0
    /\ paused' = FALSE
    /\ UNCHANGED <<attempt, action, maxRetries>>

\* Mutant: the loop is left instead of continued, in the state it was in.
RecoveryFailedLeaves ==
    /\ wpc = "recover"
    /\ wpc' = "check" /\ attempt' = NextAttempt
    /\ UNCHANGED <<wstate, consecFailures, action, maxRetries, paused>>

RecoveryFailed ==
    /\ wpc = "recover"
    /\ wstate' = "down" /\ wpc' = "connect" /\ attempt' = NextAttempt
    /\ UNCHANGED <<consecFailures, action, maxRetries, paused>>

WatchdogInit ==
    /\ wstate = "init" /\ wpc = "off" /\ consecFailures = 0 /\ attempt = 0
    /\ action \in OnFailure /\ maxRetries \in ReconnectMaxRetries
    /\ paused = FALSE

WatchdogTypeOK ==
    /\ wstate \in {"init", "up", "down", "reconnecting", "recovering", "failed"}
    /\ wpc \in {"off", "check", "restart", "connect", "recover"}
    /\ consecFailures \in 0..FailureThreshold
    /\ attempt \in 0..maxRetries
    /\ action \in OnFailure /\ maxRetries \in ReconnectMaxRetries
    /\ paused \in BOOLEAN
=============================================================================
