------------------------------ MODULE Recovery ------------------------------
(***************************************************************************)
(* The configuration manager, the watchdog and the dataplane they share    *)
(* (cmd/osvbngd/main.go): operators edit and commit while the dataplane    *)
(* (VPP) goes down, loses what it was given, and is recovered.             *)
(***************************************************************************)
EXTENDS ConfigManager, Watchdog

CONSTANT MaxDown   \* bound: how often the dataplane goes down

VARIABLES vppUp, downs

vars == <<configVars, watchdogVars, vppUp, downs>>

\* Of the configuration manager's state all but the named parts stays.
OnlyRec == UNCHANGED <<up, running, startup, sessions, lockOwner, shared, op,
                       versions, snapshot, nextSessionID, disk, applied, conn,
                       faults, crashes, unsaved, gap, drift>>
-----------------------------------------------------------------------------
\* The dataplane goes down with everything in it; the connection is lost
\* until Reconnect makes a new one.
VPPGoesDown ==
    /\ vppUp /\ downs < MaxDown
    /\ vppUp' = FALSE /\ downs' = downs + 1
    /\ conn' = FALSE /\ applied' = Nothing
    /\ UNCHANGED <<up, memory, nextSessionID, disk, faults, crashes, unsaved,
                   gap, drift, watchdogVars>>

\* Its service manager starts it again.
VPPStarts ==
    /\ ~vppUp /\ vppUp' = TRUE
    /\ UNCHANGED <<configVars, watchdogVars, downs>>

CheckGood ==
    /\ up /\ vppUp /\ conn
    /\ handleSuccess
    /\ UNCHANGED <<configVars, vppUp, downs>>

\* A check also fails when a live dataplane is slow to answer.
CheckBad ==
    /\ up
    /\ BelowThreshold \/ handleFailure
    /\ UNCHANGED <<configVars, vppUp, downs>>

\* target.Restart may fail; a reachable target is not restarted.
Restart ==
    /\ up /\ doRestart
    /\ vppUp' \in {vppUp, TRUE}
    /\ UNCHANGED <<configVars, downs>>

Reach ==
    /\ up /\ Connect(vppUp)
    /\ UNCHANGED <<configVars, vppUp, downs>>

\* The target is failed; the next good check resumes packet processing
\* with whatever the dataplane has been given by then.
Exhausted ==
    /\ up /\ GiveUp
    /\ drift' = TRUE
    /\ UNCHANGED <<up, memory, nextSessionID, disk, applied, conn, faults,
                   crashes, unsaved, gap, vppUp, downs>>

\* OnRecover: Reconnect, and a bootstrap when no interface is left.
OnRecover ==
    /\ up /\ wpc = "recover" /\ rec = "none" /\ vppUp
    /\ conn' = TRUE
    /\ rec' = IF applied = Nothing THEN "start" ELSE "ok"
    /\ UNCHANGED <<up, running, startup, sessions, lockOwner, shared, op,
                   versions, snapshot, nextSessionID, disk, applied, faults,
                   crashes, unsaved, gap, drift, watchdogVars, vppUp, downs>>

\* Reconnect fails after it closed the old connection.
ReconnectFails ==
    /\ up /\ rec = "none" /\ ~vppUp
    /\ RecoveryFailed
    /\ UNCHANGED <<configVars, vppUp, downs>>

RecoverReturns ==
    /\ up
    /\ \/ rec = "ok" /\ Recovered
       \/ rec = "error" /\ RecoveryFailed
    /\ rec' = "none"
    /\ OnlyRec /\ UNCHANGED <<vppUp, downs>>

\* Once the first bootstrap is done the components start, the watchdog and
\* the northbound interfaces among them.
StartComponents ==
    /\ up /\ rec = "ok" /\ start
    /\ rec' = "none"
    /\ OnlyRec /\ UNCHANGED <<vppUp, downs>>

\* The daemon's start needs the dataplane.
Start ==
    /\ vppUp /\ Boot
    /\ UNCHANGED <<watchdogVars, vppUp, downs>>

Stop ==
    /\ \/ Crash
       \/ wpc = "off" /\ ExitOnBootError
    /\ Stopped
    /\ UNCHANGED <<vppUp, downs>>

Operators ==
    /\ wpc # "off" /\ OperatorNext
    /\ UNCHANGED <<watchdogVars, vppUp, downs>>

Committing ==
    /\ CommitNext
    /\ UNCHANGED <<watchdogVars, vppUp, downs>>

Bootstrap ==
    /\ BootstrapNext
    /\ UNCHANGED <<watchdogVars, vppUp, downs>>

WatchdogNext ==
    \/ CheckGood \/ CheckBad \/ Restart \/ Reach \/ Exhausted
    \/ OnRecover \/ ReconnectFails \/ RecoverReturns

Init == ConfigInit /\ WatchdogInit /\ vppUp = TRUE /\ downs = 0

Next ==
    \/ Operators \/ Committing \/ Bootstrap \/ WatchdogNext
    \/ StartComponents \/ Start \/ Stop
    \/ VPPGoesDown \/ VPPStarts

\* Calls under way return, the watchdog's goroutine keeps running, and the
\* service manager starts what stopped.  A Go mutex starves no waiter, so
\* the bootstrap gets cd.mu however often commits take it.
Spec ==
    /\ Init /\ [][Next]_vars
    /\ WF_vars(Committing) /\ SF_vars(Bootstrap) /\ WF_vars(WatchdogNext)
    /\ WF_vars(StartComponents) /\ WF_vars(Start) /\ WF_vars(VPPStarts)
-----------------------------------------------------------------------------
TypeOK ==
    /\ ConfigTypeOK /\ WatchdogTypeOK
    /\ vppUp \in BOOLEAN /\ downs \in 0..MaxDown

\* At most one candidate session exists, and exactly then it owns the lock:
\* neither a failed commit, an idle timeout nor a recovery leaves a lock that
\* no session can release, or two sessions that would overwrite each other.
OneEditor ==
    /\ Cardinality(DOMAIN sessions) =< 1
    /\ DOMAIN sessions = {lockOwner} \ {NoLock}

\* While packets are processed the dataplane has, between two calls, what the
\* running configuration says, for the handlers that ask no snapshot: after
\* commits, after commits that failed half-way and were rolled back, after
\* restarts of the daemon and recoveries of the dataplane.  Excepted are the
\* steps that set drift.
RunningIsApplied ==
    Free /\ rec = "none" /\ conn /\ ~paused /\ wpc # "off" /\ ~drift
        => \A p \in Path : running[p] # Unset /\ p[1] \notin Cached
                              => applied[p] = running[p]

\* Between two calls a restart would bring back the running configuration.
RunningIsSaved ==
    Free /\ rec = "none" /\ wpc # "off" /\ ~unsaved => file = running

\* The running configuration changes only when a commit publishes it, and
\* then only at the paths the session set: candidates are copies.
CommitsWhatWasSet ==
    [][running' # running /\ up /\ up' /\ rec = "none" /\ ~unsaved /\ ~drift
         => /\ op.pc = "apply"
            /\ \A p \in Path : running'[p] # running[p]
                  => \E i \in DOMAIN op.order : op.order[i].path = p]_vars

\* As long as no version file was lost or cut short, recording a version
\* never replaces the record of another commit.
HistoryKept ==
    [][~gap => \A n \in DOMAIN versionDir : versionDir'[n] = versionDir[n]]_vars

\* A daemon that lost the dataplane has it back and processes packets again,
\* unless it stops or its attempts are used up: the configuration lock, the
\* watchdog's states and failing recoveries do not wedge each other.
Recovers ==
    up /\ ~conn /\ wpc # "off" /\ action \in {"recover", "restart"}
        ~> \/ conn /\ ~paused
           \/ wstate = "failed"
           \/ ~up

\* The running configuration is "what the system is actually using"
\* (docs/architecture/CONFIGURATION.md): once commits succeeded, with no
\* failure anywhere, the dataplane has the running value of every path.  No
\* run checks it: it holds for handlers that ask the southbound and fails
\* with MTUPaths, as section 7 of the README tells.
RunningIsUsed ==
    Free /\ rec = "none" /\ conn /\ ~paused /\ wpc # "off" /\ ~drift
        => \A p \in Path : running[p] # Unset => applied[p] = running[p]
=============================================================================
