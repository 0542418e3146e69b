---------------------------- MODULE UpgradeProofs ----------------------------
(***************************************************************************)
(* Proofs about the in-place upgrade (Upgrade), for any number of          *)
(* versions and artifacts, any manifests, and any number of applies,       *)
(* rollbacks, kills, power losses and failing steps.                       *)
(***************************************************************************)
EXTENDS Upgrade, TLAPS

Applying == {"snapshot_done", "pre_hook", "suspend", "stop", "swap", "vpp", "start",
             "health", "manifest", "complete", "prune"}

\* What rollback/<from> holds of artifact a.
Kept(a) == IF a \in meta[journal.from].present THEN backup[journal.from][a] ELSE Absent

\* The running command works on the journalled versions.
RunInv ==
  /\ run.stage # "idle" => run.from = journal.from
  /\ run.stage \in {"copy", "copying"} =>
       /\ ~ snapped /\ disk = base
       /\ run.to \in Version /\ run.next \in 1..(LastArtifact + 1)
  /\ run.stage = "copying" => run.next \in Artifact
  /\ run.stage \in Applying =>
       /\ snapped /\ run.to \in Version
       /\ meta[journal.from].covers = Ships[run.to]
  /\ run.stage = "swap" => run.next \in 1..(LastArtifact + 1)
  /\ run.stage = "r_restore" => run.next \in 0..LastArtifact

\* While the snapshot is taken: the artifacts already visited are copied.
CopyInv ==
  run.stage \in {"copy", "copying"} =>
    \A a \in Artifact :
      a < run.next /\ a \in Ships[run.to] /\ disk[a] # Absent
        => backup[run.from][a] = disk[a]

\* A complete snapshot holds what was there, and only what it covers changed.
SnapInv ==
  snapped =>
    /\ meta[journal.from].made
    /\ \A a \in Artifact : IF a \in meta[journal.from].covers
                           THEN Kept(a) = base[a] ELSE disk[a] = base[a]

\* How far the swap and the restore loops have come.
LoopInv ==
  /\ run.stage \in {"snapshot_done", "pre_hook", "suspend", "stop"} => disk = base
  /\ run.stage = "swap" =>
       \A a \in Artifact :
         disk[a] = IF a \in Ships[run.to] /\ a < run.next THEN run.to ELSE base[a]
  /\ run.stage \in {"vpp", "start"} =>
       \A a \in Artifact : disk[a] = IF a \in Ships[run.to] THEN run.to ELSE base[a]
  /\ run.stage = "r_restore" /\ snapped =>
       \A a \in Artifact : a > run.next => disk[a] = base[a]
  /\ run.stage \in {"r_vpp", "r_start"} /\ snapped => disk = base

\* From the stop to the start the unit is down and systemd leaves it alone.
StoppedInv ==
  /\ run.stage \in {"stop", "swap", "r_stop", "r_restore"} => dropin
  /\ run.stage \in {"swap", "r_restore"} => unit = "inactive"

IInv == TypeOK /\ RunInv /\ CopyInv /\ SnapInv /\ LoopInv /\ StoppedInv

-----------------------------------------------------------------------------
(* What the helpers of the model do to the records they update.            *)

Run == [stage : Stage, to : 0..LastVersion, from : 0..LastVersion,
        next : 0..(LastArtifact + 1), auto : BOOLEAN]
Meta == [made : BOOLEAN, covers : SUBSET Artifact, present : SUBSET Artifact,
         vpp : BOOLEAN]
Journal == [phase : Phase, from : 0..LastVersion, to : 0..LastVersion]
Counts == [applies : 0..MaxApplies, rollbacks : 0..MaxRollbacks,
           kills : 0..MaxKills, failures : 0..MaxFailures]

\* GotoAt moves the command to a stage and an artifact and changes no version.
LEMMA GotoAtKeeps ==
  ASSUME TypeOK, NEW s \in Stage, NEW a \in 0..(LastArtifact + 1), GotoAt(s, a)
  PROVE  /\ run' \in Run
         /\ run'.stage = s /\ run'.next = a
         /\ run'.to = run.to /\ run'.from = run.from
BY DEF TypeOK, GotoAt, Run

\* Goto moves the command to a stage and changes nothing else of it.
LEMMA GotoKeeps ==
  ASSUME TypeOK, NEW s \in Stage, Goto(s)
  PROVE  /\ run' \in Run
         /\ run'.stage = s /\ run'.next = run.next
         /\ run'.to = run.to /\ run'.from = run.from
BY DEF TypeOK, Goto, Run

\* A journal record of a new phase keeps the versions.
LEMMA SetPhaseKeeps ==
  ASSUME TypeOK, NEW p \in Phase, SetPhase(p)
  PROVE  journal' \in Journal /\ journal'.from = journal.from
BY DEF TypeOK, SetPhase, Journal

\* A command that ends leaves no state behind.
LEMMA ExitKeeps == Exit => run' \in Run /\ run'.stage = "idle"
BY UpgradeAssumption DEF Exit, Idle, Run, Stage

\* The four counters stay within their bounds.
LEMMA Counted ==
  ASSUME TypeOK
  PROVE  /\ count.applies < MaxApplies /\ Count("applies") => count' \in Counts
         /\ count.rollbacks < MaxRollbacks /\ Count("rollbacks") => count' \in Counts
         /\ count.kills < MaxKills /\ Count("kills") => count' \in Counts
         /\ CountFailure => count' \in Counts
<1>1. /\ MaxApplies \in Nat /\ count.applies \in 0..MaxApplies
      /\ MaxRollbacks \in Nat /\ count.rollbacks \in 0..MaxRollbacks
      /\ MaxKills \in Nat /\ count.kills \in 0..MaxKills
      /\ MaxFailures \in Nat /\ count.failures \in 0..MaxFailures
  BY UpgradeBounds DEF TypeOK
<1>2. ASSUME count.applies < MaxApplies, Count("applies") PROVE count' \in Counts
  <2>1. count' = [count EXCEPT !.applies = @ + 1]
    BY <1>2 DEF Count
  <2>2. count.applies + 1 \in 0..MaxApplies
    BY <1>1, <1>2
  <2> QED BY <2>1, <2>2 DEF TypeOK, Counts
<1>3. ASSUME count.rollbacks < MaxRollbacks, Count("rollbacks") PROVE count' \in Counts
  <2>1. count' = [count EXCEPT !.rollbacks = @ + 1]
    BY <1>3 DEF Count
  <2>2. count.rollbacks + 1 \in 0..MaxRollbacks
    BY <1>1, <1>3
  <2> QED BY <2>1, <2>2 DEF TypeOK, Counts
<1>4. ASSUME count.kills < MaxKills, Count("kills") PROVE count' \in Counts
  <2>1. count' = [count EXCEPT !.kills = @ + 1]
    BY <1>4 DEF Count
  <2>2. count.kills + 1 \in 0..MaxKills
    BY <1>1, <1>4
  <2> QED BY <2>1, <2>2 DEF TypeOK, Counts
<1>5. ASSUME CountFailure PROVE count' \in Counts
  <2>1. count.failures < MaxFailures /\ count' = [count EXCEPT !.failures = @ + 1]
    BY <1>5 DEF CountFailure, Count
  <2>2. count.failures + 1 \in 0..MaxFailures
    BY <1>1, <2>1
  <2> QED BY <2>1, <2>2 DEF TypeOK, Counts
<1> QED BY <1>2, <1>3, <1>4, <1>5

\* A command that ends, or is ended, with the files as they are.
LEMMA EndKeeps ==
  ASSUME IInv, Exit, UNCHANGED <<files, history>>,
         unit' \in {"active", "inactive", "failed"}, dropin' \in BOOLEAN,
         journal' \in Journal, journal'.from = journal.from, count' \in Counts
  PROVE  IInv'
<1> USE DEF files, history
<1>1. run' \in Run /\ run'.stage = "idle"
  BY ExitKeeps
<1>2. TypeOK'
  BY <1>1 DEF IInv, TypeOK, Run, Journal, Counts
<1>3. RunInv' /\ CopyInv' /\ LoopInv' /\ StoppedInv'
  BY <1>1 DEF RunInv, CopyInv, LoopInv, StoppedInv, Applying
<1>4. SnapInv'
  BY DEF IInv, SnapInv, Kept
<1> QED BY <1>2, <1>3, <1>4 DEF IInv

-----------------------------------------------------------------------------
(* Every step of ApplyOne keeps the invariant.                             *)

\* An apply that begins has taken no snapshot yet, and what it finds is base.
LEMMA BeginApplyStep ==
  ASSUME IInv, NEW v \in Version, NEW force \in Forces, BeginApply(v, force)
  PROVE  IInv'
<1> DEFINE from == CurrentInstalledVersion
<1> USE UpgradeAssumption DEF files, system, history, At
<1>1. from \in 0..LastVersion
  BY DEF CurrentInstalledVersion, IInv, TypeOK, Version
<1>2. count' \in Counts
  BY Counted DEF BeginApply, IInv
<1>3. journal' \in Journal /\ journal'.from = from
  BY <1>1 DEF BeginApply, Journal, Phase, Version
<1>4. /\ run' \in Run
      /\ \/ run'.stage = "idle"
         \/ run'.stage = "copy" /\ run'.from = from /\ run'.to = v /\ run'.next = 1
  BY <1>1 DEF BeginApply, Idle, Run, Stage, Version
<1>5. snapped' = FALSE /\ base' = disk /\ UNCHANGED <<files, system>>
  BY DEF BeginApply
<1> HIDE DEF from
<1>6. TypeOK'
  BY <1>2, <1>3, <1>4, <1>5 DEF IInv, TypeOK, Run, Journal, Counts
<1>7. RunInv' /\ CopyInv'
  BY <1>3, <1>4, <1>5 DEF RunInv, CopyInv, Artifact, Applying
<1>8. SnapInv' /\ LoopInv' /\ StoppedInv'
  BY <1>4, <1>5 DEF SnapInv, LoopInv, StoppedInv
<1> QED BY <1>6, <1>7, <1>8 DEF IInv

\* Opening a backup tears only the file of the artifact being copied; an absent
\* artifact needs no copy.
LEMMA SnapshotOpenStep == IInv /\ SnapshotOpen => IInv'
<1> SUFFICES ASSUME IInv, SnapshotOpen PROVE IInv'
  OBVIOUS
<1> USE UpgradeAssumption DEF files, system, history, At
<1>1. run.next \in Artifact /\ run.from \in 0..LastVersion /\ ~ snapped /\ disk = base
  BY DEF SnapshotOpen, IInv, RunInv, TypeOK
<1>2. CASE run.next \in Ships[run.to] /\ disk[run.next] # Absent
  <2>1. /\ run' \in Run /\ run'.stage = "copying" /\ run'.next = run.next
        /\ run'.to = run.to /\ run'.from = run.from
    BY <1>2, GotoKeeps DEF SnapshotOpen, IInv, Stage
  <2>2. /\ backup' \in [0..LastVersion -> [Artifact -> Content]]
        /\ \A a \in Artifact : a # run.next => backup'[run.from][a] = backup[run.from][a]
    <3>1. Torn \in Content
      BY DEF Content, Torn
    <3>2. backup' = [backup EXCEPT ![run.from][run.next] = Torn]
      BY <1>2 DEF SnapshotOpen
    <3> QED BY <1>1, <3>1, <3>2 DEF IInv, TypeOK
  <2>3. TypeOK'
    BY <2>1, <2>2 DEF SnapshotOpen, IInv, TypeOK, Run
  <2>4. RunInv'
    BY <1>1, <2>1 DEF SnapshotOpen, IInv, RunInv, Applying
  <2>5. CopyInv'
    BY <1>1, <2>1, <2>2 DEF SnapshotOpen, IInv, CopyInv, Artifact
  <2>6. SnapInv' /\ LoopInv' /\ StoppedInv'
    BY <1>1, <2>1 DEF SnapshotOpen, SnapInv, LoopInv, StoppedInv
  <2> QED BY <2>3, <2>4, <2>5, <2>6 DEF IInv
<1>3. CASE ~ (run.next \in Ships[run.to] /\ disk[run.next] # Absent)
  <2>1. /\ run' \in Run /\ run'.stage = "copy" /\ run'.next = run.next + 1
        /\ run'.to = run.to /\ run'.from = run.from
    BY <1>1, <1>3, GotoAtKeeps DEF SnapshotOpen, IInv, Stage, Artifact
  <2>2. UNCHANGED backup
    BY <1>3 DEF SnapshotOpen
  <2>3. TypeOK'
    BY <2>1, <2>2 DEF SnapshotOpen, IInv, TypeOK, Run
  <2>4. RunInv'
    BY <1>1, <2>1 DEF SnapshotOpen, IInv, RunInv, Applying, Artifact
  <2>5. CopyInv'
    BY <1>1, <1>3, <2>1, <2>2 DEF SnapshotOpen, IInv, CopyInv, Artifact
  <2>6. SnapInv' /\ LoopInv' /\ StoppedInv'
    BY <1>1, <2>1 DEF SnapshotOpen, SnapInv, LoopInv, StoppedInv
  <2> QED BY <2>3, <2>4, <2>5, <2>6 DEF IInv
<1> QED BY <1>2, <1>3

\* A filled backup holds what is on disk, so the artifacts visited grow by one.
LEMMA SnapshotFillStep == IInv /\ SnapshotFill => IInv'
<1> SUFFICES ASSUME IInv, SnapshotFill PROVE IInv'
  OBVIOUS
<1> USE UpgradeAssumption DEF files, system, history, At
<1>1. run.next \in Artifact /\ run.from \in 0..LastVersion /\ ~ snapped /\ disk = base
  BY DEF SnapshotFill, IInv, RunInv, TypeOK
<1>2. /\ run' \in Run /\ run'.stage = "copy" /\ run'.next = run.next + 1
      /\ run'.to = run.to /\ run'.from = run.from
  BY <1>1, GotoAtKeeps DEF SnapshotFill, IInv, Artifact, Stage
<1>3. /\ backup' \in [0..LastVersion -> [Artifact -> Content]]
      /\ \A a \in Artifact : backup'[run.from][a] =
           IF a = run.next THEN disk[a] ELSE backup[run.from][a]
  BY <1>1 DEF SnapshotFill, IInv, TypeOK
<1>4. TypeOK'
  BY <1>2, <1>3 DEF SnapshotFill, IInv, TypeOK, Run
<1>5. RunInv'
  BY <1>1, <1>2 DEF SnapshotFill, IInv, RunInv, Applying, Artifact
<1>6. CopyInv'
  BY <1>1, <1>2, <1>3 DEF SnapshotFill, IInv, CopyInv, Artifact
<1>7. SnapInv' /\ LoopInv' /\ StoppedInv'
  BY <1>1, <1>2 DEF SnapshotFill, SnapInv, LoopInv, StoppedInv
<1> QED BY <1>4, <1>5, <1>6, <1>7 DEF IInv

\* When every artifact was visited, metadata.yaml makes the snapshot complete:
\* what it covers is backed up as base has it.
LEMMA SnapshotMetadataStep == IInv /\ SnapshotMetadata => IInv'
<1> SUFFICES ASSUME IInv, SnapshotMetadata PROVE IInv'
  OBVIOUS
<1> USE UpgradeAssumption DEF files, system, history, At
<1> DEFINE m == [made |-> TRUE, covers |-> Ships[run.to],
                 present |-> {a \in Ships[run.to] : disk[a] # Absent},
                 vpp |-> run.to \in NeedsVPP]
<1>1. /\ run.from \in 0..LastVersion /\ run.from = journal.from
      /\ run.to \in Version /\ disk = base
      /\ \A a \in Artifact : a < run.next
  BY DEF SnapshotMetadata, IInv, RunInv, TypeOK, Artifact
<1>2. /\ run' \in Run /\ run'.stage = "snapshot_done"
      /\ run'.to = run.to /\ run'.from = run.from
  BY GotoKeeps DEF SnapshotMetadata, IInv, Stage
<1>3. /\ m \in Meta /\ m.made /\ m.covers = Ships[run.to]
      /\ \A a \in Artifact : a \in m.present <=> a \in Ships[run.to] /\ disk[a] # Absent
  BY <1>1 DEF Meta
<1>4. meta' = [meta EXCEPT ![run.from] = m]
  BY DEF SnapshotMetadata
<1>5. meta' \in [0..LastVersion -> Meta] /\ meta'[journal.from] = m
  BY <1>1, <1>3, <1>4 DEF IInv, TypeOK, Meta
<1> HIDE DEF m
<1>6. TypeOK'
  BY <1>2, <1>5 DEF SnapshotMetadata, IInv, TypeOK, Run, Meta
<1>7. RunInv' /\ CopyInv' /\ LoopInv' /\ StoppedInv'
  BY <1>1, <1>2, <1>3, <1>5
     DEF SnapshotMetadata, RunInv, CopyInv, LoopInv, StoppedInv, Applying
<1>8. SnapInv'
  BY <1>1, <1>3, <1>5 DEF SnapshotMetadata, IInv, CopyInv, SnapInv, Kept
<1> QED BY <1>6, <1>7, <1>8 DEF IInv

\* Recording snapshot_done touches no file.
LEMMA SnapshotDoneStep == IInv /\ SnapshotDone => IInv'
<1> SUFFICES ASSUME IInv, SnapshotDone PROVE IInv'
  OBVIOUS
<1> USE DEF files, system, history, At
<1>1. /\ run' \in Run /\ run'.stage = "pre_hook"
      /\ run'.to = run.to /\ run'.from = run.from
  BY GotoKeeps DEF SnapshotDone, IInv, Stage
<1>2. journal' \in Journal /\ journal'.from = journal.from
  BY SetPhaseKeeps DEF SnapshotDone, IInv, Phase
<1>3. TypeOK'
  BY <1>1, <1>2 DEF SnapshotDone, IInv, TypeOK, Run, Journal
<1>4. RunInv' /\ CopyInv' /\ StoppedInv'
  BY <1>1, <1>2
     DEF SnapshotDone, IInv, RunInv, CopyInv, StoppedInv, Applying
<1>5. SnapInv' /\ LoopInv'
  BY <1>1, <1>2 DEF SnapshotDone, IInv, SnapInv, Kept, LoopInv
<1> QED BY <1>3, <1>4, <1>5 DEF IInv

\* The pre-apply hook touches none of the artifacts.
LEMMA PreHookStep == IInv /\ PreHook => IInv'
<1> SUFFICES ASSUME IInv, PreHook PROVE IInv'
  OBVIOUS
<1> USE DEF files, system, history, At
<1>1. /\ run' \in Run /\ run'.stage = "suspend"
      /\ run'.to = run.to /\ run'.from = run.from
  BY GotoKeeps DEF PreHook, IInv, Stage
<1>2. journal' \in Journal /\ journal'.from = journal.from
  BY SetPhaseKeeps DEF PreHook, IInv, Phase
<1>3. TypeOK'
  BY <1>1, <1>2 DEF PreHook, IInv, TypeOK, Run, Journal
<1>4. RunInv' /\ CopyInv' /\ StoppedInv'
  BY <1>1, <1>2
     DEF PreHook, IInv, RunInv, CopyInv, StoppedInv, Applying
<1>5. SnapInv' /\ LoopInv'
  BY <1>1, <1>2 DEF PreHook, IInv, SnapInv, Kept, LoopInv
<1> QED BY <1>3, <1>4, <1>5 DEF IInv

\* Suspension writes the drop-in before the daemon is stopped.
LEMMA SuspendAutoRestartStep == IInv /\ SuspendAutoRestart => IInv'
<1> SUFFICES ASSUME IInv, SuspendAutoRestart PROVE IInv'
  OBVIOUS
<1> USE DEF files, system, history, At
<1>1. /\ run' \in Run /\ run'.stage = "stop"
      /\ run'.to = run.to /\ run'.from = run.from
  BY GotoKeeps DEF SuspendAutoRestart, IInv, Stage
<1>2. journal' \in Journal /\ journal'.from = journal.from
  BY SetPhaseKeeps DEF SuspendAutoRestart, IInv, Phase
<1>3. TypeOK'
  BY <1>1, <1>2 DEF SuspendAutoRestart, IInv, TypeOK, Run, Journal
<1>4. RunInv' /\ CopyInv' /\ StoppedInv'
  BY <1>1, <1>2
     DEF SuspendAutoRestart, IInv, RunInv, CopyInv, StoppedInv, Applying
<1>5. SnapInv' /\ LoopInv'
  BY <1>1, <1>2 DEF SuspendAutoRestart, IInv, SnapInv, Kept, LoopInv
<1> QED BY <1>3, <1>4, <1>5 DEF IInv

\* The swap loop starts with the unit down, on the disk of base.
LEMMA StopDaemonStep == IInv /\ StopDaemon => IInv'
<1> SUFFICES ASSUME IInv, StopDaemon PROVE IInv'
  OBVIOUS
<1> USE DEF files, system, history, At
<1>1. /\ run' \in Run /\ run'.stage = "swap" /\ run'.next = 1
      /\ run'.to = run.to /\ run'.from = run.from
  BY UpgradeAssumption, GotoAtKeeps DEF StopDaemon, IInv, Stage
<1>2. journal' \in Journal /\ journal'.from = journal.from
  BY SetPhaseKeeps DEF StopDaemon, IInv, Phase
<1>3. TypeOK'
  BY <1>1, <1>2 DEF StopDaemon, IInv, TypeOK, Run, Journal
<1>4. RunInv' /\ CopyInv' /\ StoppedInv'
  BY UpgradeAssumption, <1>1, <1>2
     DEF StopDaemon, IInv, RunInv, CopyInv, StoppedInv, Applying
<1>5. SnapInv' /\ LoopInv'
  BY UpgradeAssumption, <1>1, <1>2 DEF StopDaemon, IInv, SnapInv, Kept, LoopInv, Artifact
<1> QED BY <1>3, <1>4, <1>5 DEF IInv

\* An error before the swap ends the command with the files as they are.
LEMMA FailBeforeSwapStep == IInv /\ FailBeforeSwap => IInv'
<1> SUFFICES ASSUME IInv, FailBeforeSwap PROVE IInv'
  OBVIOUS
<1>1. count' \in Counts
  BY Counted DEF FailBeforeSwap, IInv
<1>2. journal' \in Journal /\ journal'.from = journal.from
  BY DEF FailBeforeSwap, IInv, TypeOK, Journal
<1>3. unit' \in {"active", "inactive", "failed"} /\ dropin' \in BOOLEAN
  BY DEF FailBeforeSwap, IInv, TypeOK, system, At
<1> QED BY <1>1, <1>2, <1>3, EndKeeps DEF FailBeforeSwap

\* A swap replaces one artifact of the manifest, which the snapshot covers.
LEMMA SwapArtifactStep == IInv /\ SwapArtifact => IInv'
<1> SUFFICES ASSUME IInv, SwapArtifact PROVE IInv'
  OBVIOUS
<1> USE UpgradeAssumption DEF files, system, history, At
<1>1. /\ run.next \in Artifact /\ run.to \in Version /\ snapped
      /\ meta[journal.from].covers = Ships[run.to]
  BY DEF SwapArtifact, IInv, RunInv, Applying
<1>2. /\ run' \in Run /\ run'.stage = "swap" /\ run'.next = run.next + 1
      /\ run'.to = run.to /\ run'.from = run.from
  BY <1>1, GotoAtKeeps DEF SwapArtifact, IInv, Artifact, Stage
<1>3. journal' \in Journal /\ journal'.from = journal.from
  BY SetPhaseKeeps DEF SwapArtifact, IInv, Phase
<1>4. run.to \in Content
  BY <1>1 DEF Content, Torn, Version
<1>5. /\ disk' \in [Artifact -> Content]
      /\ \A a \in Artifact : disk'[a] = IF a \in Ships[run.to] /\ a = run.next
                                        THEN run.to ELSE disk[a]
  BY <1>1, <1>4 DEF SwapArtifact, IInv, TypeOK
<1>6. TypeOK'
  BY <1>2, <1>3, <1>5 DEF SwapArtifact, IInv, TypeOK, Run, Journal
<1>7. RunInv' /\ CopyInv' /\ StoppedInv'
  BY <1>1, <1>2, <1>3
     DEF SwapArtifact, IInv, RunInv, CopyInv, StoppedInv, Applying, Artifact
<1>8. SnapInv'
  BY <1>1, <1>3, <1>5 DEF SwapArtifact, IInv, SnapInv, Kept
<1>9. LoopInv'
  BY <1>1, <1>2, <1>5 DEF SwapArtifact, IInv, LoopInv, Artifact
<1> QED BY <1>6, <1>7, <1>8, <1>9 DEF IInv

\* After the last swap the disk is the new version over base.
LEMMA SwapDoneStep == IInv /\ SwapDone => IInv'
<1> SUFFICES ASSUME IInv, SwapDone PROVE IInv'
  OBVIOUS
<1> USE UpgradeAssumption DEF files, system, history, At
<1>1. \A a \in Artifact : a < run.next
  BY DEF SwapDone, IInv, RunInv, Artifact
<1>2. /\ run' \in Run /\ run'.stage \in {"vpp", "start"}
      /\ run'.to = run.to /\ run'.from = run.from
  BY GotoKeeps DEF SwapDone, IInv, Stage
<1>3. TypeOK'
  BY <1>2 DEF SwapDone, IInv, TypeOK, Run
<1>4. RunInv' /\ CopyInv' /\ SnapInv' /\ StoppedInv'
  BY <1>2 DEF SwapDone, IInv, RunInv, CopyInv, SnapInv, Kept, StoppedInv, Applying
<1>5. LoopInv'
  BY <1>1, <1>2 DEF SwapDone, IInv, LoopInv
<1> QED BY <1>3, <1>4, <1>5 DEF IInv

\* The VPP restart touches no file.
LEMMA RestartVPPStep == IInv /\ RestartVPP => IInv'
<1> SUFFICES ASSUME IInv, RestartVPP PROVE IInv'
  OBVIOUS
<1> USE DEF files, system, history, At
<1>1. /\ run' \in Run /\ run'.stage = "start"
      /\ run'.to = run.to /\ run'.from = run.from
  BY GotoKeeps DEF RestartVPP, IInv, Stage
<1>2. TypeOK'
  BY <1>1 DEF RestartVPP, IInv, TypeOK, Run
<1>3. RunInv' /\ CopyInv' /\ StoppedInv'
  BY <1>1
     DEF RestartVPP, IInv, RunInv, CopyInv, StoppedInv, Applying
<1>4. SnapInv' /\ LoopInv'
  BY <1>1 DEF RestartVPP, IInv, SnapInv, Kept, LoopInv
<1> QED BY <1>2, <1>3, <1>4 DEF IInv

\* The daemon starts after the loop, so the unit may be up from here on.
LEMMA StartDaemonStep == IInv /\ StartDaemon => IInv'
<1> SUFFICES ASSUME IInv, StartDaemon PROVE IInv'
  OBVIOUS
<1> USE DEF files, system, history, At
<1>1. /\ run' \in Run /\ run'.stage = "health"
      /\ run'.to = run.to /\ run'.from = run.from
  BY GotoKeeps DEF StartDaemon, IInv, Stage
<1>2. journal' \in Journal /\ journal'.from = journal.from
  BY SetPhaseKeeps DEF StartDaemon, IInv, Phase
<1>3. TypeOK'
  BY <1>1, <1>2 DEF StartDaemon, IInv, TypeOK, Run, Journal
<1>4. RunInv' /\ CopyInv' /\ StoppedInv'
  BY <1>1, <1>2
     DEF StartDaemon, IInv, RunInv, CopyInv, StoppedInv, Applying
<1>5. SnapInv' /\ LoopInv'
  BY <1>1, <1>2 DEF StartDaemon, IInv, SnapInv, Kept, LoopInv
<1> QED BY <1>3, <1>4, <1>5 DEF IInv

\* A failure after the stop goes on as a rollback of the journalled apply: its
\* snapshot is complete.
LEMMA FailAfterStopStep == IInv /\ FailAfterStop => IInv'
<1> SUFFICES ASSUME IInv, FailAfterStop PROVE IInv'
  OBVIOUS
<1> USE UpgradeAssumption DEF files, system, history, At
<1>1. count' \in Counts
  BY Counted DEF FailAfterStop, IInv
<1>2. run.from = journal.from /\ meta[journal.from].made
  BY DEF FailAfterStop, IInv, RunInv, SnapInv, Applying
<1>3. journal' \in Journal /\ journal'.from = journal.from
  BY <1>2, SetPhaseKeeps DEF FailAfterStop, StartRollback, IInv, Phase
<1>4. /\ run' \in Run /\ run'.stage = "r_suspend"
      /\ run'.to = run.to /\ run'.from = run.from
  <2>1. run' = [run EXCEPT !.stage = "r_suspend", !.auto = TRUE]
    BY <1>2 DEF FailAfterStop, StartRollback
  <2> QED BY <2>1 DEF IInv, TypeOK, Run, Stage
<1>5. TypeOK'
  BY <1>1, <1>3, <1>4 DEF FailAfterStop, IInv, TypeOK, Run, Journal, Counts
<1>6. RunInv' /\ CopyInv' /\ LoopInv' /\ StoppedInv'
  BY <1>2, <1>3, <1>4
     DEF FailAfterStop, RunInv, CopyInv, LoopInv, StoppedInv, Applying
<1>7. SnapInv'
  BY <1>3 DEF FailAfterStop, IInv, SnapInv, Kept
<1> QED BY <1>5, <1>6, <1>7 DEF IInv

\* A healthy daemon changes no file.
LEMMA HealthOKStep == IInv /\ HealthOK => IInv'
<1> SUFFICES ASSUME IInv, HealthOK PROVE IInv'
  OBVIOUS
<1> USE DEF files, system, history, At
<1>1. /\ run' \in Run /\ run'.stage = "manifest"
      /\ run'.to = run.to /\ run'.from = run.from
  BY GotoKeeps DEF HealthOK, IInv, Stage
<1>2. TypeOK'
  BY <1>1 DEF HealthOK, IInv, TypeOK, Run
<1>3. RunInv' /\ CopyInv' /\ StoppedInv'
  BY <1>1
     DEF HealthOK, IInv, RunInv, CopyInv, StoppedInv, Applying
<1>4. SnapInv' /\ LoopInv'
  BY <1>1 DEF HealthOK, IInv, SnapInv, Kept, LoopInv
<1> QED BY <1>2, <1>3, <1>4 DEF IInv

\* Recording the version leaves artifacts and snapshots alone.
LEMMA WriteCurrentManifestStep == IInv /\ WriteCurrentManifest => IInv'
<1> SUFFICES ASSUME IInv, WriteCurrentManifest PROVE IInv'
  OBVIOUS
<1> USE DEF files, system, history, At
<1>1. /\ run' \in Run /\ run'.stage = "complete"
      /\ run'.to = run.to /\ run'.from = run.from
  BY GotoKeeps DEF WriteCurrentManifest, IInv, Stage
<1>2. TypeOK'
  BY <1>1 DEF WriteCurrentManifest, IInv, TypeOK, RunInv, Applying, Version, Run
<1>3. RunInv' /\ CopyInv' /\ StoppedInv'
  BY <1>1
     DEF WriteCurrentManifest, IInv, RunInv, CopyInv, StoppedInv, Applying
<1>4. SnapInv' /\ LoopInv'
  BY <1>1 DEF WriteCurrentManifest, IInv, SnapInv, Kept, LoopInv
<1> QED BY <1>2, <1>3, <1>4 DEF IInv

\* Recording completed leaves artifacts and snapshots alone.
LEMMA CompleteStep == IInv /\ Complete => IInv'
<1> SUFFICES ASSUME IInv, Complete PROVE IInv'
  OBVIOUS
<1> USE DEF files, system, history, At
<1>1. /\ run' \in Run /\ run'.stage = "prune"
      /\ run'.to = run.to /\ run'.from = run.from
  BY GotoKeeps DEF Complete, IInv, Stage
<1>2. journal' \in Journal /\ journal'.from = journal.from
  BY SetPhaseKeeps DEF Complete, IInv, Phase
<1>3. TypeOK'
  BY <1>1, <1>2 DEF Complete, IInv, TypeOK, Run, Journal
<1>4. RunInv' /\ CopyInv' /\ StoppedInv'
  BY <1>1, <1>2
     DEF Complete, IInv, RunInv, CopyInv, StoppedInv, Applying
<1>5. SnapInv' /\ LoopInv'
  BY <1>1, <1>2 DEF Complete, IInv, SnapInv, Kept, LoopInv
<1> QED BY <1>3, <1>4, <1>5 DEF IInv

\* Pruning keeps the snapshot the journal names.
LEMMA PruneSnapshotsStep == IInv /\ PruneSnapshots => IInv'
<1> SUFFICES ASSUME IInv, PruneSnapshots PROVE IInv'
  OBVIOUS
<1> USE UpgradeAssumption DEF files, system, history, At
<1>1. run' \in Run /\ run'.stage = "idle"
  BY ExitKeeps DEF PruneSnapshots
<1>2. run.from = journal.from /\ journal.from \in 0..LastVersion
  BY DEF PruneSnapshots, IInv, RunInv, TypeOK
<1>3. NoMeta \in Meta
  BY DEF NoMeta, Meta
<1>4. meta' \in [0..LastVersion -> Meta] /\ meta'[journal.from] = meta[journal.from]
  BY <1>2, <1>3 DEF PruneSnapshots, IInv, TypeOK, Meta
<1>5. /\ backup' \in [0..LastVersion -> [Artifact -> Content]]
      /\ backup'[journal.from] = backup[journal.from]
  <2>1. Absent \in Content
    BY DEF Content, Absent, Torn
  <2>2. [a \in Artifact |-> Absent] \in [Artifact -> Content]
    BY <2>1
  <2>3. backup \in [0..LastVersion -> [Artifact -> Content]]
    BY DEF IInv, TypeOK
  <2> QED
    BY <1>2, <2>2, <2>3 DEF PruneSnapshots
<1>6. TypeOK'
  BY <1>1, <1>4, <1>5 DEF PruneSnapshots, IInv, TypeOK, Run, Meta
<1>7. RunInv' /\ CopyInv' /\ LoopInv' /\ StoppedInv'
  BY <1>1 DEF RunInv, CopyInv, LoopInv, StoppedInv, Applying
<1>8. SnapInv'
  BY <1>4, <1>5 DEF PruneSnapshots, IInv, SnapInv, Kept
<1> QED BY <1>6, <1>7, <1>8 DEF IInv

\* An error after the start ends the command with the files as they are.
LEMMA FailCommitStep == IInv /\ FailCommit => IInv'
<1> SUFFICES ASSUME IInv, FailCommit PROVE IInv'
  OBVIOUS
<1>1. count' \in Counts
  BY Counted DEF FailCommit, IInv
<1>2. journal' \in Journal /\ journal'.from = journal.from
  BY DEF FailCommit, IInv, TypeOK, Journal
<1>3. unit' \in {"active", "inactive", "failed"} /\ dropin' \in BOOLEAN
  BY DEF FailCommit, IInv, TypeOK, system, At
<1> QED BY <1>1, <1>2, <1>3, EndKeeps DEF FailCommit

-----------------------------------------------------------------------------
(* Every step of Rollback, a kill and a power loss keep the invariant.     *)

\* A rollback begins on the journalled versions.
LEMMA BeginRollbackStep == IInv /\ BeginRollback => IInv'
<1> SUFFICES ASSUME IInv, BeginRollback PROVE IInv'
  OBVIOUS
<1> USE UpgradeAssumption DEF files, system, history, At
<1>1. count' \in Counts
  BY Counted DEF BeginRollback, IInv
<1>2. run' \in Run /\ run'.stage = "r_suspend" /\ run'.from = journal.from
  BY DEF BeginRollback, IInv, TypeOK, Run, Stage
<1>3. TypeOK'
  BY <1>1, <1>2 DEF BeginRollback, IInv, TypeOK, Run, Counts
<1>4. RunInv' /\ CopyInv' /\ LoopInv' /\ StoppedInv'
  BY <1>2 DEF BeginRollback, RunInv, CopyInv, LoopInv, StoppedInv, Applying
<1>5. SnapInv'
  BY DEF BeginRollback, IInv, SnapInv, Kept
<1> QED BY <1>3, <1>4, <1>5 DEF IInv

\* A rollback writes the drop-in before it stops the daemon.
LEMMA RollbackSuspendStep == IInv /\ RollbackSuspend => IInv'
<1> SUFFICES ASSUME IInv, RollbackSuspend PROVE IInv'
  OBVIOUS
<1> USE DEF files, system, history, At
<1>1. /\ run' \in Run /\ run'.stage = "r_stop"
      /\ run'.to = run.to /\ run'.from = run.from
  BY GotoKeeps DEF RollbackSuspend, IInv, Stage
<1>2. TypeOK'
  BY <1>1 DEF RollbackSuspend, IInv, TypeOK, Run
<1>3. RunInv' /\ CopyInv' /\ StoppedInv'
  BY <1>1
     DEF RollbackSuspend, IInv, RunInv, CopyInv, StoppedInv, Applying
<1>4. SnapInv' /\ LoopInv'
  BY <1>1 DEF RollbackSuspend, IInv, SnapInv, Kept, LoopInv
<1> QED BY <1>2, <1>3, <1>4 DEF IInv

\* The restore loop starts with the unit down, at the last artifact.
LEMMA RollbackStopStep == IInv /\ RollbackStop => IInv'
<1> SUFFICES ASSUME IInv, RollbackStop PROVE IInv'
  OBVIOUS
<1> USE DEF files, system, history, At
<1>1. /\ run' \in Run /\ run'.stage = "r_restore" /\ run'.next = LastArtifact
      /\ run'.to = run.to /\ run'.from = run.from
  BY UpgradeAssumption, GotoAtKeeps DEF RollbackStop, IInv, Stage
<1>2. TypeOK'
  BY <1>1 DEF RollbackStop, IInv, TypeOK, Run
<1>3. RunInv' /\ CopyInv' /\ StoppedInv'
  <2>1. LastArtifact \in 0..LastArtifact
    BY UpgradeAssumption
  <2>2. RunInv'
    BY <1>1, <2>1 DEF RollbackStop, IInv, RunInv, Applying
  <2>3. CopyInv' /\ StoppedInv'
    BY <1>1 DEF RollbackStop, IInv, CopyInv, StoppedInv
  <2> QED
    BY <2>2, <2>3
<1>4. SnapInv' /\ LoopInv'
  BY UpgradeAssumption, <1>1 DEF RollbackStop, IInv, SnapInv, Kept, LoopInv, Artifact
<1> QED BY <1>2, <1>3, <1>4 DEF IInv

\* A restore puts back one covered artifact as base has it.
LEMMA RestoreArtifactStep == IInv /\ RestoreArtifact => IInv'
<1> SUFFICES ASSUME IInv, RestoreArtifact PROVE IInv'
  OBVIOUS
<1> USE UpgradeAssumption DEF files, system, history, At
<1>1. /\ run.next \in Artifact /\ run.from = journal.from
      /\ journal.from \in 0..LastVersion
  BY DEF RestoreArtifact, IInv, RunInv, TypeOK
<1>2. /\ run' \in Run /\ run'.stage = "r_restore" /\ run'.next = run.next - 1
      /\ run'.to = run.to /\ run'.from = run.from
  <2>1. run.next - 1 \in 0..(LastArtifact + 1)
    BY <1>1 DEF Artifact
  <2> QED
    BY <2>1, GotoAtKeeps DEF RestoreArtifact, IInv, Stage
<1>3. Restored(disk, run.from, run.next)[run.next] =
        IF run.next \in meta[journal.from].covers THEN Kept(run.next) ELSE disk[run.next]
  BY <1>1 DEF Restored, Kept, Artifact
<1>4. Restored(disk, run.from, run.next)[run.next] \in Content
  <2>1. Absent \in Content
    BY DEF Content, Absent, Torn
  <2>2. disk[run.next] \in Content /\ backup[journal.from][run.next] \in Content
    BY <1>1 DEF IInv, TypeOK
  <2> QED
    BY <1>3, <2>1, <2>2 DEF Kept
<1>5. /\ disk' \in [Artifact -> Content]
      /\ \A a \in Artifact : disk'[a] =
           IF a = run.next /\ a \in meta[journal.from].covers THEN Kept(a) ELSE disk[a]
  BY <1>1, <1>3, <1>4 DEF RestoreArtifact, IInv, TypeOK
<1>6. TypeOK'
  BY <1>2, <1>5 DEF RestoreArtifact, IInv, TypeOK, Run
<1>7. RunInv' /\ CopyInv' /\ StoppedInv'
  BY <1>1, <1>2
     DEF RestoreArtifact, IInv, RunInv, CopyInv, StoppedInv, Applying, Artifact
<1>8. SnapInv'
  BY <1>5 DEF RestoreArtifact, IInv, SnapInv, Kept
<1>9. LoopInv'
  BY <1>1, <1>2, <1>5 DEF RestoreArtifact, IInv, LoopInv, SnapInv, Artifact
<1> QED BY <1>6, <1>7, <1>8, <1>9 DEF IInv

\* After the last restore from a complete snapshot the disk is base.
LEMMA RestoreDoneStep == IInv /\ RestoreDone => IInv'
<1> SUFFICES ASSUME IInv, RestoreDone PROVE IInv'
  OBVIOUS
<1> USE UpgradeAssumption DEF files, system, history, At
<1>1. /\ run' \in Run /\ run'.stage \in {"r_vpp", "r_start"}
      /\ run'.to = run.to /\ run'.from = run.from
  BY GotoKeeps DEF RestoreDone, IInv, Stage
<1>2. TypeOK'
  BY <1>1 DEF RestoreDone, IInv, TypeOK, Run
<1>3. RunInv' /\ CopyInv' /\ SnapInv' /\ StoppedInv'
  BY <1>1 DEF RestoreDone, IInv, RunInv, CopyInv, SnapInv, Kept, StoppedInv, Applying
<1>4. snapped => disk = base
  BY DEF RestoreDone, IInv, LoopInv, TypeOK, Artifact
<1>5. LoopInv'
  BY <1>1, <1>4 DEF RestoreDone, LoopInv
<1> QED BY <1>2, <1>3, <1>5 DEF IInv

\* The VPP restart of a rollback touches no file.
LEMMA RollbackVPPStep == IInv /\ RollbackVPP => IInv'
<1> SUFFICES ASSUME IInv, RollbackVPP PROVE IInv'
  OBVIOUS
<1> USE DEF files, system, history, At
<1>1. /\ run' \in Run /\ run'.stage = "r_start"
      /\ run'.to = run.to /\ run'.from = run.from
  BY GotoKeeps DEF RollbackVPP, IInv, Stage
<1>2. TypeOK'
  BY <1>1 DEF RollbackVPP, IInv, TypeOK, Run
<1>3. RunInv' /\ CopyInv' /\ StoppedInv'
  BY <1>1
     DEF RollbackVPP, IInv, RunInv, CopyInv, StoppedInv, Applying
<1>4. SnapInv' /\ LoopInv'
  BY <1>1 DEF RollbackVPP, IInv, SnapInv, Kept, LoopInv
<1> QED BY <1>2, <1>3, <1>4 DEF IInv

\* The daemon starts after the restore loop.
LEMMA RollbackStartStep == IInv /\ RollbackStart => IInv'
<1> SUFFICES ASSUME IInv, RollbackStart PROVE IInv'
  OBVIOUS
<1> USE DEF files, system, history, At
<1>1. /\ run' \in Run /\ run'.stage = "r_health"
      /\ run'.to = run.to /\ run'.from = run.from
  BY GotoKeeps DEF RollbackStart, IInv, Stage
<1>2. TypeOK'
  BY <1>1 DEF RollbackStart, IInv, TypeOK, Run
<1>3. RunInv' /\ CopyInv' /\ StoppedInv'
  BY <1>1
     DEF RollbackStart, IInv, RunInv, CopyInv, StoppedInv, Applying
<1>4. SnapInv' /\ LoopInv'
  BY <1>1 DEF RollbackStart, IInv, SnapInv, Kept, LoopInv
<1> QED BY <1>2, <1>3, <1>4 DEF IInv

\* A rollback that ends leaves the files as they are.
LEMMA RollbackDoneStep == IInv /\ RollbackDone => IInv'
<1> SUFFICES ASSUME IInv, RollbackDone PROVE IInv'
  OBVIOUS
<1>1. count' \in Counts
  BY Counted DEF RollbackDone, IInv, TypeOK, Counts
<1>2. journal' \in Journal /\ journal'.from = journal.from
  BY SetPhaseKeeps DEF RollbackDone, IInv, TypeOK, Journal, Phase
<1>3. unit' \in {"active", "inactive", "failed"} /\ dropin' \in BOOLEAN
  BY DEF RollbackDone, IInv, TypeOK, system, At
<1> QED BY <1>1, <1>2, <1>3, EndKeeps DEF RollbackDone

\* A rollback that fails leaves the files as they are.
LEMMA RollbackFailStep == IInv /\ RollbackFail => IInv'
<1> SUFFICES ASSUME IInv, RollbackFail PROVE IInv'
  OBVIOUS
<1>1. count' \in Counts
  BY Counted DEF RollbackFail, IInv
<1>2. journal' \in Journal /\ journal'.from = journal.from
  BY SetPhaseKeeps DEF RollbackFail, IInv, TypeOK, Journal, Phase
<1>3. unit' \in {"active", "inactive", "failed"} /\ dropin' \in BOOLEAN
  BY DEF RollbackFail, IInv, TypeOK, system, At
<1> QED BY <1>1, <1>2, <1>3, EndKeeps DEF RollbackFail

\* A kill leaves files, journal and unit as they are.
LEMMA KillStep == IInv /\ Kill => IInv'
<1> SUFFICES ASSUME IInv, Kill PROVE IInv'
  OBVIOUS
<1>1. count' \in Counts
  BY Counted DEF Kill, IInv
<1>2. journal' \in Journal /\ journal'.from = journal.from
  BY DEF Kill, IInv, TypeOK, Journal
<1>3. unit' \in {"active", "inactive", "failed"} /\ dropin' \in BOOLEAN
  BY DEF Kill, IInv, TypeOK, system, At
<1> QED BY <1>1, <1>2, <1>3, EndKeeps DEF Kill

\* A power loss keeps the files and the journal and loses the drop-in.
LEMMA PowerLossStep == IInv /\ PowerLoss => IInv'
<1> SUFFICES ASSUME IInv, PowerLoss PROVE IInv'
  OBVIOUS
<1>1. count' \in Counts
  BY Counted DEF PowerLoss, IInv
<1>2. journal' \in Journal /\ journal'.from = journal.from
  BY DEF PowerLoss, IInv, TypeOK, Journal
<1>3. unit' \in {"active", "inactive", "failed"} /\ dropin' \in BOOLEAN
  BY DEF PowerLoss, IInv, TypeOK, system, At
<1> QED BY <1>1, <1>2, <1>3, EndKeeps DEF PowerLoss

-----------------------------------------------------------------------------
(* The theorems.                                                            *)

\* The image installs version 1 and nothing was ever upgraded.
LEMMA InitIInv == Init => IInv
<1> SUFFICES ASSUME Init PROVE IInv
  OBVIOUS
<1> USE UpgradeAssumption DEF Init
<1>1. disk \in [Artifact -> Content] /\ base = disk
  BY DEF Content, Torn, Absent
<1>2. backup \in [0..LastVersion -> [Artifact -> Content]]
  BY DEF Content, Torn, Absent
<1>3. meta \in [0..LastVersion -> Meta]
  BY DEF Meta, NoMeta
<1>4. run \in Run /\ run.stage = "idle"
  BY DEF Run, Idle, Stage
<1>5. journal \in Journal
  BY DEF Journal, Phase
<1>6. count \in Counts
  <2>1. /\ MaxApplies \in Nat /\ MaxRollbacks \in Nat
        /\ MaxKills \in Nat /\ MaxFailures \in Nat
    BY UpgradeBounds
  <2> QED BY <2>1 DEF Counts
<1>7. TypeOK
  BY <1>1, <1>2, <1>3, <1>4, <1>5, <1>6 DEF TypeOK, Run, Journal, Counts, Meta
<1>8. RunInv /\ CopyInv /\ SnapInv /\ LoopInv /\ StoppedInv
  BY <1>4 DEF RunInv, CopyInv, SnapInv, LoopInv, StoppedInv, Applying
<1> QED BY <1>7, <1>8 DEF IInv

\* Every step of the runner, of a kill and of a power loss keeps the invariant.
LEMMA StepIInv == IInv /\ [Next]_vars => IInv'
<1> SUFFICES ASSUME IInv, [Next]_vars PROVE IInv'
  OBVIOUS
<1>1. CASE Apply
  BY <1>1, BeginApplyStep, SnapshotOpenStep, SnapshotFillStep,
     SnapshotMetadataStep, SnapshotDoneStep, PreHookStep,
     SuspendAutoRestartStep, StopDaemonStep, FailBeforeSwapStep,
     SwapArtifactStep, SwapDoneStep, RestartVPPStep, StartDaemonStep,
     FailAfterStopStep, HealthOKStep, WriteCurrentManifestStep, CompleteStep,
     PruneSnapshotsStep, FailCommitStep DEF Apply
<1>2. CASE Rollback
  BY <1>2, BeginRollbackStep, RollbackSuspendStep, RollbackStopStep,
     RestoreArtifactStep, RestoreDoneStep, RollbackVPPStep, RollbackStartStep,
     RollbackDoneStep, RollbackFailStep
     DEF Rollback
<1>3. CASE Kill \/ PowerLoss
  BY <1>3, KillStep, PowerLossStep
<1>4. CASE UNCHANGED vars
  <2>1. TypeOK' /\ RunInv' /\ CopyInv'
    BY <1>4 DEF vars, IInv, TypeOK, RunInv, CopyInv
  <2>2. SnapInv' /\ LoopInv' /\ StoppedInv'
    BY <1>4 DEF vars, IInv, SnapInv, Kept, LoopInv, StoppedInv
  <2> QED
    BY <2>1, <2>2 DEF IInv
<1> QED BY <1>1, <1>2, <1>3, <1>4 DEF Next

\* The invariant holds throughout.
LEMMA IInvHolds == Spec => []IInv
BY InitIInv, StepIInv, PTL DEF Spec

\* Types: files, journal, unit and command keep their ranges.
THEOREM TypeCorrect == Spec => []TypeOK
<1>1. IInv => TypeOK
  BY DEF IInv
<1> QED BY <1>1, IInvHolds, PTL

\* A complete snapshot always restores what the apply found (Snapshot,
\* swapArtifacts, restoreFromSnapshot and PruneSnapshots together), whatever
\* failed, was killed or lost power since.
THEOREM RollbackCorrect == Spec => []RollbackPossible
<1>1. IInv => RollbackPossible
  <2> SUFFICES ASSUME IInv, snapped
               PROVE  meta[journal.from].made /\ Restored(disk, journal.from, 1) = base
    BY DEF RollbackPossible
  <2>1. \A a \in Artifact : Restored(disk, journal.from, 1)[a] = base[a]
    BY UpgradeAssumption DEF IInv, SnapInv, Kept, Restored, Artifact
  <2>2. Restored(disk, journal.from, 1) = base
    BY <2>1 DEF Restored, IInv, TypeOK
  <2> QED BY <2>2 DEF IInv, SnapInv
<1> QED BY <1>1, IInvHolds, PTL

\* ApplyOne and Rollback replace artifacts only under a stopped, suspended
\* unit, and start the daemon only on a whole installation.
THEOREM StartCorrect == Spec => []StartsWhole
<1>1. IInv => StartsWhole
  <2> SUFFICES ASSUME IInv PROVE StartsWhole
    OBVIOUS
  <2>1. At("start") => disk = Upgraded(base, run.to)
    BY DEF IInv, LoopInv, TypeOK, At, Upgraded
  <2> QED BY <2>1 DEF StartsWhole, At, IInv, LoopInv, StoppedInv
<1> QED BY <1>1, IInvHolds, PTL
=============================================================================
