------------------------------ MODULE Upgrade ------------------------------
(***************************************************************************)
(* The in-place upgrade of pkg/upgrade: ApplyOne and Rollback of runner.go *)
(* over the artifacts on disk, the journal, the rollback snapshots, the    *)
(* record of the installed version and the systemd unit.  Every step may   *)
(* fail as the code allows, osvbngcli may be killed between any two steps, *)
(* and the box may lose power.                                             *)
(*                                                                         *)
(* The content of an artifact is the version it belongs to: Absent before  *)
(* any version ships it, Torn in a snapshot whose copy was cut short.      *)
(* Staging, signatures and hashes are checked before the journal is first  *)
(* written and leave production paths alone: a tarball here is a verified  *)
(* one.                                                                    *)
(***************************************************************************)
EXTENDS Integers

CONSTANTS
  LastVersion,  \* versions are 1..LastVersion; version v follows v - 1
  LastArtifact, \* artifacts are 1..LastArtifact, in manifest order
  Ships,        \* Ships[v]: the artifacts of v's manifest
  NeedsVPP,     \* the versions whose manifest asks for a VPP restart
  Stepwise,     \* the versions that declare previous_version
  Forces,       \* the values --force-retry takes
  MaxApplies,   \* bound: applies begun
  MaxRollbacks, \* bound: rollbacks begun by the operator
  MaxKills,     \* bound: kills of osvbngcli and power losses
  MaxFailures   \* bound: steps that fail

Version == 1..LastVersion
Artifact == 1..LastArtifact
Absent == 0
Torn == LastVersion + 1
Content == 0..Torn

ASSUME UpgradeAssumption ==
  /\ LastVersion \in Nat \ {0} /\ LastArtifact \in Nat \ {0}
  /\ Ships \in [Version -> SUBSET Artifact]
  /\ Forces \subseteq BOOLEAN
  /\ NeedsVPP \subseteq Version /\ Stepwise \subseteq Version \ {1}
ASSUME UpgradeBounds == {MaxApplies, MaxRollbacks, MaxKills, MaxFailures} \subseteq Nat

Phase == {"none", "started", "snapshot_done", "pre_hook_done", "restart_suspended",
          "daemon_stopped", "swapping", "aborted", "daemon_started", "health_failed",
          "completed", "rolled_back", "rollback_failed"}
Stage == {"idle", "copy", "copying", "snapshot_done", "pre_hook", "suspend",
          "stop", "swap", "vpp", "start", "health", "manifest", "complete", "prune",
          "r_suspend", "r_stop", "r_restore", "r_vpp", "r_start", "r_health"}

VARIABLES
  disk,      \* installed content of each artifact
  recorded,  \* version in current-manifest.yaml, 0 when there is none
  journal,   \* upgrade-state.json: phase, from, to
  backup,    \* backup[v][a]: bytes of a under rollback/v
  meta,      \* meta[v]: metadata.yaml of rollback/v, if written
  unit,      \* osvbng.service
  dropin,    \* the transient Restart=no drop-in exists
  run,       \* the running osvbngcli: stage, versions, next artifact, auto-rollback
  base,      \* history: disk when the journalled apply began
  snapped,   \* history: its snapshot is complete
  count      \* counters for the bounds

vars == <<disk, recorded, journal, backup, meta, unit, dropin, run, base, snapped, count>>
system == <<unit, dropin>>
files == <<disk, recorded, backup, meta>>
history == <<base, snapped>>

NoMeta == [made |-> FALSE, covers |-> {}, present |-> {}, vpp |-> FALSE]
Idle == [stage |-> "idle", to |-> 0, from |-> 0, next |-> 0, auto |-> FALSE]

\* Types of the files, the journal, the unit and the running command.
TypeOK ==
  /\ disk \in [Artifact -> Content]
  /\ recorded \in 0..LastVersion
  /\ journal \in [phase : Phase, from : 0..LastVersion, to : 0..LastVersion]
  /\ backup \in [0..LastVersion -> [Artifact -> Content]]
  /\ meta \in [0..LastVersion -> [made : BOOLEAN, covers : SUBSET Artifact,
                           present : SUBSET Artifact, vpp : BOOLEAN]]
  /\ unit \in {"active", "inactive", "failed"}
  /\ dropin \in BOOLEAN
  /\ run \in [stage : Stage, to : 0..LastVersion, from : 0..LastVersion,
              next : 0..(LastArtifact + 1), auto : BOOLEAN]
  /\ base \in [Artifact -> Content] /\ snapped \in BOOLEAN
  /\ count \in [applies : 0..MaxApplies, rollbacks : 0..MaxRollbacks,
                kills : 0..MaxKills, failures : 0..MaxFailures]

\* Version 1 is installed from the image, and nothing was ever upgraded.
Init ==
  /\ disk = [a \in Artifact |-> IF a \in Ships[1] THEN 1 ELSE Absent]
  /\ recorded = 0
  /\ journal = [phase |-> "none", from |-> 0, to |-> 0]
  /\ backup = [v \in 0..LastVersion |-> [a \in Artifact |-> Absent]]
  /\ meta = [v \in 0..LastVersion |-> NoMeta]
  /\ unit = "active" /\ dropin = FALSE
  /\ run = Idle
  /\ base = disk /\ snapped = FALSE
  /\ count = [applies |-> 0, rollbacks |-> 0, kills |-> 0, failures |-> 0]

-----------------------------------------------------------------------------
(* Helpers. *)

\* (mutant) the answer of a daemon that does not run is taken for a version
CurrentInstalledVersionUnchecked ==
  IF recorded # 0 THEN recorded ELSE disk[1]

\* current-manifest.yaml if there is one, else what the daemon (artifact 1)
\* on disk says of itself; 0 when it does not run.
CurrentInstalledVersion ==
  IF recorded # 0 THEN recorded ELSE IF disk[1] \in Version THEN disk[1] ELSE 0

\* A snapshot replayed over d: artifacts it covers get their backup, or go
\* when they were not there.
Restored(d, v, upTo) ==
  [a \in Artifact |->
     IF a \in meta[v].covers /\ a >= upTo
     THEN IF a \in meta[v].present THEN backup[v][a] ELSE Absent
     ELSE d[a]]

Upgraded(d, v) == [a \in Artifact |-> IF a \in Ships[v] THEN v ELSE d[a]]

SetPhase(p) == journal' = [journal EXCEPT !.phase = p]
Goto(s) == run' = [run EXCEPT !.stage = s]
GotoAt(s, a) == run' = [run EXCEPT !.stage = s, !.next = a]
Exit == run' = Idle
Count(c) == count' = [count EXCEPT ![c] = @ + 1]
CountFailure == count.failures < MaxFailures /\ Count("failures")
At(s) == run.stage = s

\* rollbackAfterFailedApply: Rollback reads the journal and needs metadata;
\* without it the apply ends with rollback_failed.
StartRollback(p) ==
  IF meta[journal.from].made
  THEN SetPhase(p) /\ run' = [run EXCEPT !.stage = "r_suspend", !.auto = TRUE]
  ELSE SetPhase("rollback_failed") /\ Exit

-----------------------------------------------------------------------------
(* ApplyOne. *)

\* Stages 1 to 4 and the first journal record.  checkPartialApply lets an
\* unforced apply start only after a finished one.  Snapshot refuses an
\* unknown version.
BeginApply(v, force) ==
  LET from == CurrentInstalledVersion IN
  /\ At("idle") /\ count.applies < MaxApplies
  /\ v \in Stepwise => from = v - 1
  /\ force \/ journal.phase \in {"none", "completed", "rolled_back"}
  /\ journal' = [phase |-> "started", from |-> from, to |-> v]
  /\ run' = IF from = 0 THEN Idle
            ELSE [stage |-> "copy", to |-> v, from |-> from, next |-> 1, auto |-> FALSE]
  /\ base' = disk /\ snapped' = FALSE
  /\ Count("applies")
  /\ UNCHANGED <<files, system>>

\* Snapshot, artifact by artifact: copyAndHash truncates the backup of a
\* present artifact and fills it; an absent one is only noted.
SnapshotOpen ==
  LET a == run.next IN
  /\ At("copy") /\ a \in Artifact
  /\ IF a \in Ships[run.to] /\ disk[a] # Absent
     THEN /\ backup' = [backup EXCEPT ![run.from][a] = Torn]
          /\ Goto("copying")
     ELSE /\ GotoAt("copy", a + 1)
          /\ UNCHANGED backup
  /\ UNCHANGED <<disk, recorded, meta, journal, system, history, count>>

SnapshotFill ==
  /\ At("copying")
  /\ backup' = [backup EXCEPT ![run.from][run.next] = disk[run.next]]
  /\ GotoAt("copy", run.next + 1)
  /\ UNCHANGED <<disk, recorded, meta, journal, system, history, count>>

\* (mutant) metadata.yaml of an older snapshot of the version is kept
SnapshotMetadataStale ==
  /\ At("copy") /\ run.next \notin Artifact
  /\ meta' = IF meta[run.from].made THEN meta
             ELSE [meta EXCEPT ![run.from] =
               [made |-> TRUE, covers |-> Ships[run.to],
                present |-> {a \in Ships[run.to] : disk[a] # Absent},
                vpp |-> run.to \in NeedsVPP]]
  /\ snapped' = TRUE /\ Goto("snapshot_done")
  /\ UNCHANGED <<disk, recorded, backup, journal, system, base, count>>

SnapshotMetadata ==
  /\ At("copy") /\ run.next \notin Artifact
  /\ meta' = [meta EXCEPT ![run.from] =
       [made |-> TRUE, covers |-> Ships[run.to],
        present |-> {a \in Ships[run.to] : disk[a] # Absent},
        vpp |-> run.to \in NeedsVPP]]
  /\ snapped' = TRUE /\ Goto("snapshot_done")
  /\ UNCHANGED <<disk, recorded, backup, journal, system, base, count>>

SnapshotDone ==
  /\ At("snapshot_done")
  /\ SetPhase("snapshot_done") /\ Goto("pre_hook")
  /\ UNCHANGED <<files, system, history, count>>

PreHook ==
  /\ At("pre_hook")
  /\ SetPhase("pre_hook_done") /\ Goto("suspend")
  /\ UNCHANGED <<files, system, history, count>>

SuspendAutoRestart ==
  /\ At("suspend")
  /\ dropin' = TRUE
  /\ SetPhase("restart_suspended") /\ Goto("stop")
  /\ UNCHANGED <<files, unit, history, count>>

StopDaemon ==
  /\ At("stop")
  /\ unit' = "inactive"
  /\ SetPhase("daemon_stopped") /\ GotoAt("swap", 1)
  /\ UNCHANGED <<files, dropin, history, count>>

\* An error before the first swap returns with the journal as it stands, the
\* deferred RestoreAutoRestart run - unless it was the suspension itself that
\* failed, whose drop-in stays.  A failing stop may have stopped the daemon.
FailBeforeSwap ==
  /\ run.stage \in {"copy", "copying", "snapshot_done", "pre_hook", "suspend", "stop"}
  /\ CountFailure /\ Exit
  /\ dropin' \in CASE At("suspend") -> BOOLEAN [] At("stop") -> {FALSE}
                   [] OTHER -> {dropin}
  /\ unit' \in IF At("stop") THEN {unit, "inactive"} ELSE {unit}
  /\ UNCHANGED <<files, journal, history>>

\* swapArtifacts: rename(2) replaces one artifact, journalled around it.
SwapArtifact ==
  LET a == run.next IN
  /\ At("swap") /\ a \in Artifact
  /\ disk' = IF a \in Ships[run.to] THEN [disk EXCEPT ![a] = run.to] ELSE disk
  /\ SetPhase("swapping") /\ GotoAt("swap", a + 1)
  /\ UNCHANGED <<recorded, backup, meta, system, history, count>>

SwapDone ==
  /\ At("swap") /\ run.next \notin Artifact
  /\ Goto(IF run.to \in NeedsVPP THEN "vpp" ELSE "start")
  /\ UNCHANGED <<files, journal, system, history, count>>

RestartVPP ==
  /\ At("vpp") /\ Goto("start")
  /\ UNCHANGED <<files, journal, system, history, count>>

StartDaemon ==
  /\ At("start")
  /\ unit' = "active"
  /\ SetPhase("daemon_started") /\ Goto("health")
  /\ UNCHANGED <<files, dropin, history, count>>

\* A failed swap, VPP restart, start or health check ends in auto-rollback.
FailAfterStop ==
  /\ run.stage \in {"swap", "vpp", "start", "health"}
  /\ CountFailure
  /\ StartRollback(IF At("health") THEN "health_failed" ELSE "aborted")
  /\ unit' \in IF At("health") THEN {"active", "failed"} ELSE {unit}
  /\ dropin' = (dropin /\ meta[journal.from].made)
  /\ UNCHANGED <<files, history>>

\* waitHealthy answers OK only for a state file of the expected version.
HealthOK ==
  /\ At("health") /\ disk[1] = run.to
  /\ Goto("manifest")
  /\ UNCHANGED <<files, journal, system, history, count>>

WriteCurrentManifest ==
  /\ At("manifest")
  /\ recorded' = run.to
  /\ Goto("complete")
  /\ UNCHANGED <<disk, backup, meta, journal, system, history, count>>

Complete ==
  /\ At("complete")
  /\ SetPhase("completed") /\ Goto("prune")
  /\ UNCHANGED <<files, system, history, count>>

\* PruneSnapshots with keep = 1: the snapshot of this apply is the newest.
\* The post-apply hook is advisory; the deferred RestoreAutoRestart runs.
PruneSnapshots ==
  /\ At("prune") /\ Exit
  /\ meta' = [v \in 0..LastVersion |-> IF v = run.from THEN meta[v] ELSE NoMeta]
  /\ backup' = [v \in 0..LastVersion |-> IF v = run.from \/ ~ meta[v].made THEN backup[v]
                                  ELSE [a \in Artifact |-> Absent]]
  /\ dropin' = FALSE
  /\ UNCHANGED <<disk, recorded, journal, unit, history, count>>

\* Failing to write the manifest, or a phase once the daemon is started,
\* returns an error, and no rollback; the journal stays as it is.
FailCommit ==
  /\ run.stage \in {"start", "manifest", "complete"}
  /\ CountFailure /\ Exit
  /\ unit' = "active" /\ dropin' = FALSE
  /\ UNCHANGED <<files, journal, history>>

-----------------------------------------------------------------------------
(* Rollback, by the operator or after a failed apply. *)

BeginRollback ==
  /\ At("idle") /\ count.rollbacks < MaxRollbacks
  /\ journal.phase # "none" /\ meta[journal.from].made
  /\ run' = [stage |-> "r_suspend", to |-> journal.to, from |-> journal.from,
             next |-> 0, auto |-> FALSE]
  /\ Count("rollbacks")
  /\ UNCHANGED <<files, journal, system, history>>

RollbackSuspend ==
  /\ At("r_suspend")
  /\ dropin' = TRUE /\ Goto("r_stop")
  /\ UNCHANGED <<files, journal, unit, history, count>>

RollbackStop ==
  /\ At("r_stop")
  /\ unit' = "inactive"
  /\ GotoAt("r_restore", LastArtifact)
  /\ UNCHANGED <<files, journal, dropin, history, count>>

\* (mutant) an artifact that was not there before the upgrade stays
RestoreArtifactKeeps ==
  LET a == run.next IN
  /\ At("r_restore") /\ a \in Artifact
  /\ disk' = IF a \in meta[run.from].present
             THEN [disk EXCEPT ![a] = Restored(disk, run.from, a)[a]] ELSE disk
  /\ GotoAt("r_restore", a - 1)
  /\ UNCHANGED <<recorded, backup, meta, journal, system, history, count>>

\* restoreFromSnapshot, last entry first.
RestoreArtifact ==
  LET a == run.next IN
  /\ At("r_restore") /\ a \in Artifact
  /\ disk' = [disk EXCEPT ![a] = Restored(disk, run.from, a)[a]]
  /\ GotoAt("r_restore", a - 1)
  /\ UNCHANGED <<recorded, backup, meta, journal, system, history, count>>

RestoreDone ==
  /\ At("r_restore") /\ run.next = 0
  /\ Goto(IF meta[run.from].vpp THEN "r_vpp" ELSE "r_start")
  /\ UNCHANGED <<files, journal, system, history, count>>

RollbackVPP ==
  /\ At("r_vpp") /\ Goto("r_start")
  /\ UNCHANGED <<files, journal, system, history, count>>

RollbackStart ==
  /\ At("r_start")
  /\ unit' = "active" /\ Goto("r_health")
  /\ UNCHANGED <<files, journal, dropin, history, count>>

\* Failing to record the end is ignored.
RollbackDone ==
  /\ At("r_health") /\ disk[1] = run.from
  /\ Exit
  /\ \/ SetPhase("rolled_back") /\ UNCHANGED count
     \/ UNCHANGED journal /\ CountFailure
  /\ dropin' = FALSE
  /\ UNCHANGED <<files, unit, history>>

\* Suspension and stop return before anything is journalled, except under a
\* failed apply, whose caller records rollback_failed; every later failure is
\* recorded by Rollback itself.
RollbackFail ==
  LET early == run.stage \in {"r_suspend", "r_stop"}
  IN  /\ run.stage \in {"r_suspend", "r_stop", "r_restore", "r_vpp", "r_start", "r_health"}
      /\ At("r_restore") => run.next \in Artifact
      /\ CountFailure /\ Exit
      /\ IF early /\ ~ run.auto THEN UNCHANGED journal ELSE SetPhase("rollback_failed")
      /\ dropin' \in IF At("r_suspend") /\ ~ run.auto THEN {dropin, TRUE} ELSE {FALSE}
      /\ unit' \in IF At("r_stop") THEN {unit, "inactive"}
                   ELSE IF At("r_health") THEN {"active", "failed"} ELSE {unit}
      /\ UNCHANGED <<files, history>>

-----------------------------------------------------------------------------
(* Kills and power loss. *)

\* osvbngcli dies: deferred calls do not run.
Kill ==
  /\ ~ At("idle") /\ count.kills < MaxKills
  /\ Count("kills") /\ Exit
  /\ UNCHANGED <<files, journal, system, history>>

\* The box reboots: /run is empty again and systemd starts the unit.
PowerLoss ==
  /\ count.kills < MaxKills
  /\ Count("kills") /\ Exit
  /\ dropin' = FALSE /\ unit' \in {"active", "failed"}
  /\ UNCHANGED <<files, journal, history>>

Apply ==
  \/ \E v \in Version, force \in Forces : BeginApply(v, force)
  \/ SnapshotOpen \/ SnapshotFill \/ SnapshotMetadata \/ SnapshotDone
  \/ PreHook \/ SuspendAutoRestart \/ StopDaemon \/ FailBeforeSwap
  \/ SwapArtifact \/ SwapDone \/ RestartVPP \/ StartDaemon \/ FailAfterStop
  \/ HealthOK \/ WriteCurrentManifest \/ Complete \/ PruneSnapshots \/ FailCommit

Rollback ==
  \/ BeginRollback \/ RollbackSuspend \/ RollbackStop \/ RestoreArtifact \/ RestoreDone
  \/ RollbackVPP \/ RollbackStart \/ RollbackDone \/ RollbackFail

Next == Apply \/ Rollback \/ Kill \/ PowerLoss

Spec == Init /\ [][Next]_vars

-----------------------------------------------------------------------------
\* Once its snapshot is complete, whatever fails and whenever osvbngcli or the
\* box dies, replaying the journalled snapshot over the disk as it is gives
\* back exactly what was installed when the apply began - through the swap
\* loop, a failed health check, the commit and the pruning after it, and
\* while a rollback is itself half done.
RollbackPossible ==
  snapped => meta[journal.from].made /\ Restored(disk, journal.from, 1) = base

\* The daemon meets whole installations only.  No artifact is replaced under a
\* running daemon, nor while systemd would restart it, through an apply, its
\* auto-rollback and a rollback alike; and the runner starts it on the new
\* version over what was there or, from a complete snapshot, on what was there
\* before.
StartsWhole ==
  /\ run.stage \in {"swap", "r_restore"} => unit = "inactive" /\ dropin
  /\ At("start") => disk = Upgraded(base, run.to)
  /\ At("r_start") /\ snapped => disk = base

\* What the journal is for: after a rollback that reports success the
\* artifacts are those installed before the interrupted apply, at whatever
\* phase the interruption came.
RollbackRestores == journal.phase = "rolled_back" => disk = base
=============================================================================
