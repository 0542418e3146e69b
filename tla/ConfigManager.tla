--------------------------- MODULE ConfigManager ---------------------------
(***************************************************************************)
(* The configuration manager (pkg/configmgr): candidate sessions under one *)
(* lock, the commit that applies a session's changes through the handlers, *)
(* publishes the candidate, saves the startup file and records a version,  *)
(* and the bootstrap that replays the startup configuration after a start  *)
(* or after the dataplane was lost.                                        *)
(*                                                                         *)
(* A path is <<pattern, instance>>: "interfaces.<*>.mtu" of one interface. *)
(* A configuration maps every path to a value or to Unset.  Commit holds   *)
(* cd.mu throughout, so no other call interleaves with its steps; they are *)
(* separate here because a crash or the loss of the dataplane can fall     *)
(* between any two of them.                                                *)
(***************************************************************************)
EXTENDS Integers, Sequences, FiniteSets, TLC, Functions, SequencesExt

CONSTANTS
    Path,         \* the configuration paths, each <<pattern, instance>>
    ValueOf,      \* pattern |-> the values Set may be given
    DependsOn,    \* pattern |-> Dependencies() of its handler
    RollbackOf,   \* pattern |-> what its handler's Rollback does
    Cached,       \* patterns whose Apply first asks the dataplane snapshot
    Initial,      \* the configuration the first start finds in its file
    MaxSession,   \* bound: the last session id an operator is given
    MaxChange,    \* bound: changes in one session
    MaxFault,     \* bound: failing handlers, rollbacks and writes
    MaxCrash      \* bound: crashes of the daemon

Unset == "unset"
Torn == <<>>          \* a startup file that no longer loads
TornVersion == 0      \* a version file that was cut short
NoLock == 0
Pattern == {p[1] : p \in Path}
Value == UNION {ValueOf[t] : t \in Pattern}
Config == [Path -> Value \cup {Unset}]
Nothing == [p \in Path |-> Unset]
RollbackKind == {"restore", "ifOld", "delete", "none"}

ASSUME ConfigAssumption ==
    /\ \A t \in Pattern : /\ Unset \notin ValueOf[t]
                          /\ DependsOn[t] \subseteq Pattern
                          /\ RollbackOf[t] \in RollbackKind
    /\ Cached \subseteq Pattern
    /\ Initial \in Config

VARIABLES
    up,             \* the daemon runs
    running,        \* cd.runningConfig
    startup,        \* cd.startupConfig
    sessions,       \* cd.sessions: id |-> [cfg, changes]
    lockOwner,      \* cd.lockOwner
    nextSessionID,  \* never reset here, so that an id names one commit
    shared,         \* the session whose config object is cd.runningConfig
    op,             \* how far the Commit holding cd.mu has come
    rec,            \* how far bootstrapDataplane has come
    versions,       \* cd.versions: the session each one records
    file,           \* the startup file
    versionDir,     \* the version files: number |-> session
    snapshot,       \* cd.dataplaneState
    applied,        \* what the dataplane has been given
    conn,           \* the southbound connection to the dataplane is live
    faults, crashes,
    unsaved,        \* ghost: the last SaveYAML failed
    gap,            \* ghost: a version file was not written, or cut short
    drift           \* ghost: since the last bootstrap some step (named at it)
                    \* may have left the dataplane behind the configuration

memory == <<running, startup, sessions, lockOwner, shared, op, rec, versions,
            snapshot>>
disk == <<file, versionDir>>
configVars == <<up, memory, nextSessionID, disk, applied, conn, faults,
                crashes, unsaved, gap, drift>>

Idle == [pc |-> "idle", id |-> NoLock, order |-> <<>>, done |-> 0,
         boot |-> FALSE]
Change == [path: Path, old: Value \cup {Unset}, new: Value]
RecStep == {"none", "start", "reset", "published", "commit", "ok", "error"}

Fault(happens) ==
    IF happens THEN faults < MaxFault /\ faults' = faults + 1
               ELSE faults' = faults

ParentsOf(p) == {<<t, p[2]>> : t \in DependsOn[p[1]]}
-----------------------------------------------------------------------------
(***************************************************************************)
(* sortChangesByDependencies.  A dependency counts when a change of its    *)
(* pattern, to any instance, comes earlier in the list; otherwise the      *)
(* resolved path must be in the running configuration.                     *)
(***************************************************************************)
InSession(cs, i, t) == \E j \in 1..i : cs[j].path[1] = t

InDegree(cs) ==
    [i \in DOMAIN cs |->
        Cardinality({t \in DependsOn[cs[i].path[1]] : InSession(cs, i, t)})]

DependenciesMet(cs, run) ==
    \A i \in DOMAIN cs : \A t \in DependsOn[cs[i].path[1]] :
        \/ InSession(cs, i, t)
        \/ run[<<t, cs[i].path[2]>>] # Unset

Dependents(cs, t) ==
    {i \in DOMAIN cs : t \in DependsOn[cs[i].path[1]] /\ InSession(cs, i, t)}

\* One turn of the queue: the head is emitted, its dependents lose a degree
\* and those that reach zero are queued in list order.
Dequeue(cs, q) ==
    IF q.queue = <<>>
    THEN q
    ELSE LET deps == Dependents(cs, cs[Head(q.queue)].path[1])
             degree == [i \in DOMAIN cs |->
                           q.degree[i] - (IF i \in deps THEN 1 ELSE 0)]
             ready == {i \in deps : degree[i] = 0}
         IN  [queue |-> Tail(q.queue) \o SetToSortSeq(ready, <),
              degree |-> degree,
              sorted |-> Append(q.sorted, cs[Head(q.queue)])]

sortChangesByDependencies(cs) ==
    LET roots == {i \in DOMAIN cs : InDegree(cs)[i] = 0}
        start == [queue |-> SetToSortSeq(roots, <), degree |-> InDegree(cs),
                  sorted |-> <<>>]
    IN  FoldLeft(LAMBDA q, i : Dequeue(cs, q), start,
                 [i \in DOMAIN cs |-> i]).sorted
-----------------------------------------------------------------------------
(***************************************************************************)
(* Candidate sessions.                                                     *)
(***************************************************************************)
Free == up /\ op.pc = "idle"       \* cd.mu can be taken

\* Mutant: the session is deleted and its lock is kept.
DropSessionOnly(id) ==
    /\ sessions' = Restrict(sessions, DOMAIN sessions \ {id})
    /\ shared' = IF shared = id THEN NoLock ELSE shared
    /\ UNCHANGED lockOwner

\* The effect of delete(cd.sessions, id) and of releasing its lock.
DropSession(id) ==
    /\ sessions' = Restrict(sessions, DOMAIN sessions \ {id})
    /\ lockOwner' = IF lockOwner = id THEN NoLock ELSE lockOwner
    /\ shared' = IF shared = id THEN NoLock ELSE shared

\* An entry of a map, or a file of a directory, is written.
Put(map, key, val) ==
    [k \in DOMAIN map \cup {key} |-> IF k = key THEN val ELSE map[k]]

AddSession(cfg, changes) ==
    /\ nextSessionID' = nextSessionID + 1
    /\ sessions' = Put(sessions, nextSessionID', [cfg |-> cfg, changes |-> changes])

\* Mutant: the candidate is the running object, not a copy of it.
CreateWithoutCopy ==
    /\ Free
    /\ lockOwner = NoLock
    /\ nextSessionID < MaxSession
    /\ AddSession(running, <<>>)
    /\ lockOwner' = nextSessionID' /\ shared' = nextSessionID'
    /\ drift' = (drift \/ rec = "reset")
    /\ UNCHANGED <<up, running, startup, op, rec, versions, snapshot,
                   disk, applied, conn, faults, crashes, unsaved, gap>>

CreateCandidateSession ==
    /\ Free
    /\ lockOwner = NoLock
    /\ nextSessionID < MaxSession
    /\ AddSession(running, <<>>)
    /\ lockOwner' = nextSessionID'
    /\ drift' = (drift \/ rec = "reset")
    /\ UNCHANGED <<up, running, startup, shared, op, rec, versions, snapshot,
                   disk, applied, conn, faults, crashes, unsaved, gap>>

CloseCandidateSession(id) ==
    /\ Free
    /\ DropSession(id)
    /\ UNCHANGED <<up, running, startup, op, rec, versions, snapshot,
                   nextSessionID, disk, applied, conn, faults, crashes,
                   unsaved, gap, drift>>

\* The next call after candidateSessionIdleTimeout drops an idle session.
expireIdleSessionsUnlocked(id) ==
    /\ Free
    /\ DropSession(id)
    /\ UNCHANGED <<up, running, startup, op, rec, versions, snapshot,
                   nextSessionID, disk, applied, conn, faults, crashes,
                   unsaved, gap, drift>>

\* The candidate is changed in place; once it is the running object too
\* (after a failed save), so is the running configuration.
Set(id, p, v) ==
    LET s == sessions[id]
        cfg == [s.cfg EXCEPT ![p] = v]
        c == [path |-> p, old |-> s.cfg[p], new |-> v]
    IN  /\ Free
        /\ Len(s.changes) < MaxChange
        /\ sessions' = [sessions EXCEPT
              ![id] = [cfg |-> cfg, changes |-> Append(s.changes, c)]]
        /\ running' = IF shared = id THEN cfg ELSE running
        /\ UNCHANGED <<up, startup, lockOwner, shared, op, rec, versions,
                       snapshot, nextSessionID, disk, applied, conn, faults,
                       crashes, unsaved, gap, drift>>
-----------------------------------------------------------------------------
(***************************************************************************)
(* Commit.                                                                 *)
(***************************************************************************)
BeginCommit(id, cs, boot) ==
    op' = [pc |-> "apply", id |-> id, order |-> sortChangesByDependencies(cs),
           done |-> 0, boot |-> boot]

\* Refusals (nothing to commit, a dependency missing, a failing validation)
\* return before anything changed.
Commit(id) ==
    LET cs == sessions[id].changes
    IN  /\ Free
        /\ cs # <<>> /\ DependenciesMet(cs, running)
        /\ BeginCommit(id, cs, FALSE)
        /\ UNCHANGED <<up, running, startup, sessions, lockOwner, shared, rec,
                       versions, snapshot, nextSessionID, disk, applied, conn,
                       faults, crashes, unsaved, gap, drift>>

\* Apply of a handler with a snapshot does nothing when the snapshot already
\* has the value; the others call the southbound, which knows no interface
\* whose parent is missing.
UpToDate(c) == c.path[1] \in Cached /\ snapshot[c.path] = c.new

Takes(c) ==
    \/ UpToDate(c)
    \/ conn /\ \A q \in ParentsOf(c.path) : applied[q] # Unset

\* One turn of Commit's loop; after the last one FRR is tested and reloaded.
ApplyChange ==
    LET c == op.order[op.done + 1]
    IN  /\ up /\ op.pc = "apply" /\ op.done < Len(op.order)
        /\ Takes(c)
        /\ applied' = IF UpToDate(c) THEN applied
                                     ELSE [applied EXCEPT ![c.path] = c.new]
        /\ op' = [op EXCEPT !.done = @ + 1]
        /\ drift' = (drift \/ (~op.boot /\ applied = Nothing))
        /\ UNCHANGED <<up, running, startup, sessions, lockOwner, shared, rec,
                       versions, snapshot, nextSessionID, disk, conn, faults,
                       crashes, unsaved, gap>>

\* Deleting an interface takes what is configured on it along.
Without(ap, p) ==
    [q \in Path |-> IF q = p \/ p \in ParentsOf(q) THEN Unset ELSE ap[q]]

\* The handlers' Rollback: restore the old value ("" when there was none),
\* restore it only if there was one, delete what was created, do nothing.
Rollback(c, ap) ==
    CASE RollbackOf[c.path[1]] = "restore" -> [ap EXCEPT ![c.path] = c.old]
      [] RollbackOf[c.path[1]] = "ifOld" ->
            IF c.old = Unset THEN ap ELSE [ap EXCEPT ![c.path] = c.old]
      [] RollbackOf[c.path[1]] = "delete" -> Without(ap, c.path)
      [] OTHER -> ap

\* Mutant: changes are undone in the order they were applied.
rollbackInOrder(done, skip) ==
    LET undo(ap, i) == IF ~conn \/ i \in skip THEN ap ELSE Rollback(done[i], ap)
    IN  FoldLeft(undo, applied, [i \in DOMAIN done |-> i])

\* Last applied, first undone; an error of a Rollback (skip) is ignored.
rollbackChanges(done, skip) ==
    LET undo(ap, i) == IF ~conn \/ i \in skip THEN ap ELSE Rollback(done[i], ap)
    IN  FoldLeft(undo, applied, Reverse([i \in DOMAIN done |-> i]))

\* Ghost: undoing these does not bring back what the running configuration
\* says, because a Rollback fails, does nothing, or deletes an interface
\* that was there before.
Lossy(done, skip) ==
    \/ skip # {}
    \/ \E i \in DOMAIN done :
          \/ RollbackOf[done[i].path[1]] = "none"
          \/ RollbackOf[done[i].path[1]] = "delete" /\ running[done[i].path] # Unset

\* Commit returns an error: its caller keeps the session and the lock, the
\* bootstrap closes them.
ReturnError ==
    /\ op' = Idle
    /\ rec' = IF op.boot THEN "error" ELSE rec
    /\ IF op.boot THEN DropSession(op.id)
                  ELSE UNCHANGED <<sessions, lockOwner, shared>>

\* A handler fails, or FRR refuses the candidate after the last handler.
CommitFails ==
    \E skip \in SUBSET (1..op.done) :
        /\ up /\ op.pc = "apply"
        /\ Cardinality(skip) =< 1
        /\ LET refused == op.done < Len(op.order) /\ ~Takes(op.order[op.done + 1])
               unforced == (IF refused THEN 0 ELSE 1) + Cardinality(skip)
           IN  faults + unforced =< MaxFault /\ faults' = faults + unforced
        /\ applied' = rollbackChanges(SubSeq(op.order, 1, op.done), skip)
        /\ drift' = (drift \/ Lossy(SubSeq(op.order, 1, op.done), skip))
        /\ ReturnError
        /\ UNCHANGED <<up, running, startup, versions, snapshot,
                       nextSessionID, disk, conn, crashes, unsaved, gap>>
-----------------------------------------------------------------------------
\* Mutant: the startup copy is taken before the candidate is published.
PublishAfterCopy ==
    /\ up /\ op.pc = "apply" /\ op.done = Len(op.order)
    /\ running' = sessions[op.id].cfg
    /\ startup' = running
    /\ shared' = op.id
    /\ op' = [op EXCEPT !.pc = "save"]
    /\ UNCHANGED <<up, sessions, lockOwner, rec, versions, snapshot,
                   nextSessionID, disk, applied, conn, faults, crashes,
                   unsaved, gap, drift>>

\* All handlers applied and FRR reloaded: the candidate object becomes the
\* running configuration, its copy the startup configuration.
Publish ==
    /\ up /\ op.pc = "apply" /\ op.done = Len(op.order)
    /\ running' = sessions[op.id].cfg
    /\ startup' = sessions[op.id].cfg
    /\ shared' = op.id
    /\ op' = [op EXCEPT !.pc = "save"]
    /\ UNCHANGED <<up, sessions, lockOwner, rec, versions, snapshot,
                   nextSessionID, disk, applied, conn, faults, crashes,
                   unsaved, gap, drift>>

\* FormatChanges(sess.changes).IsEmpty()
NoDiff == \A i \in DOMAIN op.order : op.order[i].old = op.order[i].new

Returned(result) == IF op.boot THEN result ELSE rec

\* The snapshot is taken when the bootstrap ends, and by nothing else.
Snapshot(ok) ==
    snapshot' = IF op.boot /\ ok THEN applied ELSE snapshot

\* SaveYAML succeeds: the session and the lock go, and with an empty diff
\* Commit is done.
SaveStartupFile ==
    /\ up /\ op.pc = "save"
    /\ file' = startup
    /\ unsaved' = FALSE
    /\ DropSession(op.id)
    /\ IF NoDiff
       THEN /\ op' = Idle /\ rec' = Returned("ok") /\ Snapshot(TRUE)
            /\ drift' = (drift /\ ~op.boot)
       ELSE /\ op' = [op EXCEPT !.pc = "version"]
            /\ UNCHANGED <<rec, snapshot, drift>>
    /\ UNCHANGED <<up, running, startup, versions, nextSessionID, versionDir,
                   applied, conn, faults, crashes, gap>>

\* A file that was truncated and not written to its end: it does not load, or
\* loads as the part that was written (LoadStartupConfig adds the management
\* interface to an empty one).
Cut(cfg) ==
    {Torn} \cup
    {[p \in Path |-> IF p \in kept THEN cfg[p] ELSE Unset] :
        kept \in {k \in SUBSET Path :
                    /\ \E p \in k : cfg[p] # Unset
                    /\ \A p \in k : ParentsOf(p) \subseteq k}}

\* os.WriteFile fails before or after truncating the file.  The session and
\* the lock stay, and the candidate is now the running object.
SaveFails ==
    /\ up /\ op.pc = "save"
    /\ Fault(TRUE)
    /\ file' \in {file} \cup Cut(startup)
    /\ unsaved' = TRUE /\ drift' = TRUE
    /\ ReturnError
    /\ UNCHANGED <<up, running, startup, versions, snapshot, nextSessionID,
                   versionDir, applied, conn, crashes, gap>>

NextVersion == Len(versions) + 1

\* The version joins the history and is then written to its file.
saveVersion(fails) ==
    /\ up /\ op.pc = "version"
    /\ Fault(fails)
    /\ versions' = Append(versions, op.id)
    /\ \/ /\ ~fails
          /\ versionDir' = Put(versionDir, NextVersion, op.id)
       \/ /\ fails
          /\ \/ UNCHANGED versionDir
             \/ versionDir' = Put(versionDir, NextVersion, TornVersion)
    /\ op' = Idle
    /\ gap' = (gap \/ fails)
    /\ rec' = Returned(IF fails THEN "error" ELSE "ok")
    /\ Snapshot(~fails)
    /\ drift' = (drift /\ ~op.boot)
    /\ UNCHANGED <<up, running, startup, sessions, lockOwner, shared,
                   nextSessionID, file, applied, conn, crashes, unsaved>>
-----------------------------------------------------------------------------
(***************************************************************************)
(* bootstrapDataplane: ResetForRecovery and ApplyLoadedConfig take cd.mu   *)
(* one after the other, so other calls can come in between.                *)
(***************************************************************************)
ResetForRecovery ==
    /\ Free /\ rec = "start"
    /\ running' = Nothing
    /\ sessions' = <<>> /\ lockOwner' = NoLock /\ shared' = NoLock
    /\ snapshot' = Nothing
    /\ rec' = "reset"
    /\ UNCHANGED <<up, startup, op, versions, nextSessionID, disk, applied,
                   conn, faults, crashes, unsaved, gap, drift>>

PublishStartup ==
    /\ Free /\ rec = "reset"
    /\ running' = startup
    /\ rec' = "published"
    /\ UNCHANGED <<up, startup, sessions, lockOwner, shared, op, versions,
                   snapshot, nextSessionID, disk, applied, conn, faults,
                   crashes, unsaved, gap, drift>>

\* LoadConfig emits a change without an old value for every path that is
\* set, an interface before what is configured on it.
Emitted(cfg) ==
    {[i \in DOMAIN ps |-> [path |-> ps[i], old |-> Unset, new |-> cfg[ps[i]]]] :
        ps \in {s \in SetToSeqs({p \in Path : cfg[p] # Unset}) :
                   \A i, j \in DOMAIN s : s[i] \in ParentsOf(s[j]) => i < j}}

\* CreateCandidateSession, LoadConfig and Commit of ApplyLoadedConfig; no
\* other caller can own a session between them.
ApplyLoadedConfig ==
    /\ Free /\ rec = "published" /\ lockOwner = NoLock
    /\ startup # Nothing
    /\ \E cs \in Emitted(startup) :
          /\ AddSession(startup, cs)
          /\ BeginCommit(nextSessionID', cs, TRUE)
    /\ lockOwner' = nextSessionID' /\ shared' = nextSessionID'
    /\ rec' = "commit"
    /\ UNCHANGED <<up, running, startup, versions, snapshot, disk, applied,
                   conn, faults, crashes, unsaved, gap, drift>>

\* "configuration is locked by session": the bootstrap fails.
ApplyLoadedConfigLocked ==
    /\ Free /\ rec = "published" /\ lockOwner # NoLock
    /\ rec' = "error"
    /\ UNCHANGED <<up, running, startup, sessions, lockOwner, shared, op,
                   versions, snapshot, nextSessionID, disk, applied, conn,
                   faults, crashes, unsaved, gap, drift>>
-----------------------------------------------------------------------------
(***************************************************************************)
(* The daemon stops, by a crash or because its bootstrap failed, and       *)
(* starts again from its files.                                            *)
(***************************************************************************)
ForgetMemory ==
    /\ up' = FALSE /\ conn' = FALSE
    /\ running' = Nothing /\ startup' = Nothing /\ snapshot' = Nothing
    /\ sessions' = <<>> /\ lockOwner' = NoLock /\ shared' = NoLock
    /\ op' = Idle /\ rec' = "none" /\ versions' = <<>>
    /\ drift' = FALSE

\* os.WriteFile truncates and then writes, with no rename: the crash can come
\* before it, within it and after it (the uncut file is one of Cut).
Crash ==
    /\ up /\ crashes < MaxCrash
    /\ crashes' = crashes + 1
    /\ file' \in IF op.pc = "save" THEN {file} \cup Cut(startup) ELSE {file}
    /\ versionDir' \in
          IF op.pc = "version"
          THEN {versionDir} \cup {Put(versionDir, NextVersion, v) :
                                     v \in {op.id, TornVersion}}
          ELSE {versionDir}
    /\ gap' = (gap \/ (op.pc = "version" /\ op.id \notin Range(versionDir')))
    /\ ForgetMemory
    /\ UNCHANGED <<nextSessionID, applied, faults, unsaved>>

\* log.Fatalf when bootstrapDataplane fails at start.
ExitOnBootError ==
    /\ up /\ rec = "error"
    /\ ForgetMemory
    /\ UNCHANGED <<nextSessionID, disk, applied, faults, crashes, unsaved, gap>>

\* Mutant: the version files are not read at start.
NoVersionsLoaded == {<<>>}

\* A file that does not parse fails LoadVersions, which only warns and
\* leaves the history empty, unless its cut-off text happens to parse.
LoadVersions ==
    LET all == [i \in 1..Cardinality(DOMAIN versionDir) |->
                   versionDir[SetToSortSeq(DOMAIN versionDir, <)[i]]]
    IN  {all} \cup (IF TornVersion \in Range(versionDir) THEN {<<>>} ELSE {})

\* LoadStartupConfig, LoadVersions, and bootstrapDataplane begins.
Boot ==
    /\ ~up /\ file # Torn
    /\ up' = TRUE /\ conn' = TRUE
    /\ startup' = file
    /\ versions' \in LoadVersions
    /\ rec' = "start"
    /\ unsaved' = FALSE
    /\ UNCHANGED <<running, sessions, lockOwner, shared, op, snapshot,
                   nextSessionID, disk, applied, faults, crashes, gap, drift>>

ConfigInit ==
    /\ up = FALSE /\ conn = FALSE
    /\ running = Nothing /\ startup = Nothing /\ snapshot = Nothing
    /\ sessions = <<>> /\ lockOwner = NoLock /\ shared = NoLock
    /\ nextSessionID = 0
    /\ op = Idle /\ rec = "none" /\ versions = <<>>
    /\ file = Initial /\ versionDir = <<>>
    /\ applied = Nothing
    /\ faults = 0 /\ crashes = 0
    /\ unsaved = FALSE /\ gap = FALSE /\ drift = FALSE

\* What operators, and the time they let pass, can do.
OperatorNext ==
    \/ CreateCandidateSession
    \/ \E id \in DOMAIN sessions :
          \/ CloseCandidateSession(id)
          \/ expireIdleSessionsUnlocked(id)
          \/ \E p \in Path : \E v \in ValueOf[p[1]] : Set(id, p, v)
          \/ Commit(id)

\* The steps of a Commit under way.
CommitNext ==
    \/ ApplyChange \/ CommitFails
    \/ Publish
    \/ SaveStartupFile \/ SaveFails
    \/ \E fails \in BOOLEAN : saveVersion(fails)

\* The bootstrap's calls, each of which waits for cd.mu.
BootstrapNext ==
    \/ ResetForRecovery \/ PublishStartup
    \/ ApplyLoadedConfig \/ ApplyLoadedConfigLocked

ConfigTypeOK ==
    /\ up \in BOOLEAN /\ conn \in BOOLEAN
    /\ running \in Config /\ startup \in Config
    /\ snapshot \in Config /\ applied \in Config
    /\ file \in Config \cup {Torn}
    /\ nextSessionID \in Nat
    /\ DOMAIN sessions \subseteq 1..nextSessionID
    /\ \A id \in DOMAIN sessions :
          /\ sessions[id].cfg \in Config
          /\ sessions[id].changes \in Seq(Change)
    /\ lockOwner \in 0..nextSessionID /\ shared \in 0..nextSessionID
    /\ op.pc \in {"idle", "apply", "save", "version"}
    /\ op.order \in Seq(Change) /\ op.done \in 0..Len(op.order)
    /\ rec \in RecStep
    /\ versions \in Seq(0..nextSessionID)
    /\ \A n \in DOMAIN versionDir : versionDir[n] \in 0..nextSessionID
    /\ faults \in 0..MaxFault /\ crashes \in 0..MaxCrash
    /\ unsaved \in BOOLEAN /\ gap \in BOOLEAN /\ drift \in BOOLEAN
=============================================================================
