--------------------------- MODULE RecoveryProofs ---------------------------
(***************************************************************************)
(* Proofs about the configuration manager under recoveries (Recovery), for *)
(* any paths, handlers and dependencies, and any number of sessions,       *)
(* changes, faults, crashes and losses of the dataplane.  What the folds   *)
(* over a commit's changes compute is not needed: the lock, the startup    *)
(* file and the version numbers do not depend on it.                       *)
(***************************************************************************)
EXTENDS Recovery, FiniteSetTheorems, TLAPS

\* Identifiers are given out once, and a stopped daemon runs no commit.
IdInv ==
  /\ nextSessionID \in Nat
  /\ lockOwner \in 0..nextSessionID /\ shared \in 0..nextSessionID
  /\ op = [pc |-> op.pc, id |-> op.id, order |-> op.order, done |-> op.done,
           boot |-> op.boot]
  /\ op.pc \in {"idle", "apply", "save", "version"} /\ op.boot \in BOOLEAN
  /\ ~up => op = Idle /\ shared = NoLock

\* The lock is held exactly by the one session there is.
EditorInv == DOMAIN sessions = {lockOwner} \ {NoLock}

\* The commit under way is that of the session holding the lock, which is
\* gone when the version is written; one of the bootstrap belongs to it.
OpInv ==
  /\ op.pc \in {"apply", "save"} => op.id = lockOwner /\ lockOwner # NoLock
  /\ op.pc = "version" => op.id \in 1..nextSessionID /\ lockOwner # op.id
  /\ op.pc # "idle" /\ op.boot => rec = "commit"

\* Which object is the running configuration, and what the file holds.
SaveInv ==
  /\ op.pc = "save" => running = startup /\ shared = op.id
  /\ op.pc = "version" => shared = NoLock
  /\ ~unsaved =>
       /\ op.pc = "idle" \/ (op.pc = "apply" /\ ~op.boot) => shared = NoLock
       /\ op.pc = "apply" => shared \in {NoLock, op.id}
       /\ up /\ op.pc # "save" => file = startup
       /\ up /\ rec \notin {"start", "reset"} => running = startup

\* The version files are numbered without a gap, the next number is free,
\* and no file records a session that may still commit.
HistInv ==
  /\ Range(versionDir) \subseteq 0..nextSessionID
  /\ lockOwner # NoLock => lockOwner \notin Range(versionDir)
  /\ op.pc = "version" => op.id \notin Range(versionDir)
  /\ ~gap =>
       /\ TornVersion \notin Range(versionDir)
       /\ \E n \in Nat :
            /\ DOMAIN versionDir = 1..n
            /\ up => versions \in Seq(Range(versions)) /\ Len(versions) = n

IInv == IdInv /\ EditorInv /\ OpInv /\ SaveInv /\ HistInv
-----------------------------------------------------------------------------
\* Writing an entry adds at most its value to what a map holds.
LEMMA PutRange ==
  ASSUME NEW f, NEW k, NEW v
  PROVE  Range(Put(f, k, v)) \subseteq Range(f) \cup {v}
BY DEF Put, Range

\* Writing a new entry leaves the others.
LEMMA PutOthers ==
  ASSUME NEW f, NEW k, NEW v, k \notin DOMAIN f, NEW x \in DOMAIN f
  PROVE  Put(f, k, v)[x] = f[x]
BY DEF Put

\* A sequence is one over what it holds.
LEMMA SeqOfItsRange ==
  ASSUME NEW S, NEW t \in Seq(S)
  PROVE  t \in Seq(Range(t))
<1>1. PICK n \in Nat : n = Len(t)
  OBVIOUS
<1>2. \A i \in 1..n : t[i] \in Range(t)
  BY <1>1 DEF Range
<1>3. ASSUME NEW R, \A i \in 1..n : t[i] \in R
      PROVE  t \in Seq(R)
  BY <1>1, <1>3
<1> QED
  BY <1>2, <1>3

\* Appending to the history lengthens it by one.
LEMMA AppendGrows ==
  ASSUME NEW s, s \in Seq(Range(s)), NEW x
  PROVE  /\ Append(s, x) \in Seq(Range(Append(s, x)))
         /\ Len(Append(s, x)) = Len(s) + 1
<1>1. s \in Seq(Range(s) \cup {x})
  OBVIOUS
<1>2. /\ Append(s, x) \in Seq(Range(s) \cup {x})
      /\ Len(Append(s, x)) = Len(s) + 1
  BY <1>1
<1> QED
  BY <1>2, SeqOfItsRange
-----------------------------------------------------------------------------

\* A session is created: its id is new, and the candidate is a copy.
LEMMA CreateKeeps ==
  IInv /\ CreateCandidateSession => IInv'
<1> SUFFICES ASSUME IInv, CreateCandidateSession PROVE IInv'
  OBVIOUS
<1>1. IdInv'
  BY DEF IInv, IdInv, CreateCandidateSession, AddSession, Free, NoLock
<1>2. EditorInv'
  BY DEF IInv, IdInv, EditorInv, CreateCandidateSession, AddSession, Put,
          NoLock
<1>3. OpInv'
  BY DEF IInv, IdInv, OpInv, CreateCandidateSession, AddSession, Free, NoLock
<1>4. SaveInv'
  BY DEF IInv, IdInv, OpInv, SaveInv, CreateCandidateSession, AddSession,
          Free, disk, NoLock
<1>5. HistInv'
  <2>1. UNCHANGED <<versions, versionDir, gap, up, op>>
    BY DEF CreateCandidateSession, disk
  <2>2. /\ nextSessionID' = nextSessionID + 1 /\ lockOwner' = nextSessionID + 1
        /\ op.pc = "idle" /\ nextSessionID \in Nat
    BY DEF IInv, IdInv, CreateCandidateSession, AddSession, Free
  <2>3. Range(versionDir) \subseteq 0..nextSessionID
    BY DEF IInv, HistInv
  <2>4. /\ Range(versionDir) \subseteq 0..(nextSessionID + 1)
        /\ nextSessionID + 1 \notin Range(versionDir)
    BY <2>2, <2>3
  <2> QED
    BY <2>1, <2>2, <2>4 DEF IInv, HistInv
<1> QED
  BY <1>1, <1>2, <1>3, <1>4, <1>5 DEF IInv

\* A session is closed and the lock goes with it.
LEMMA CloseKeeps ==
  ASSUME NEW id \in DOMAIN sessions,
         IInv, CloseCandidateSession(id)
  PROVE  IInv'
<1>1. IdInv'
  BY DEF IInv, IdInv, CloseCandidateSession, DropSession, Free, NoLock
<1>2. EditorInv'
  BY DEF IInv, IdInv, EditorInv, CloseCandidateSession, DropSession, Restrict,
          NoLock
<1>3. OpInv'
  BY DEF IInv, IdInv, OpInv, CloseCandidateSession, DropSession, Free, NoLock
<1>4. SaveInv'
  BY DEF IInv, IdInv, OpInv, SaveInv, CloseCandidateSession, DropSession,
          Free, disk, NoLock
<1>5. HistInv'
  BY DEF IInv, IdInv, HistInv, CloseCandidateSession, DropSession, Free, disk,
          NoLock
<1> QED
  BY <1>1, <1>2, <1>3, <1>4, <1>5 DEF IInv

\* An idle session is dropped.
LEMMA ExpireKeeps ==
  ASSUME NEW id \in DOMAIN sessions,
         IInv, expireIdleSessionsUnlocked(id)
  PROVE  IInv'
<1>1. IdInv'
  BY DEF IInv, IdInv, expireIdleSessionsUnlocked, DropSession, Free, NoLock
<1>2. EditorInv'
  BY DEF IInv, IdInv, EditorInv, expireIdleSessionsUnlocked, DropSession,
          Restrict, NoLock
<1>3. OpInv'
  BY DEF IInv, IdInv, OpInv, expireIdleSessionsUnlocked, DropSession, Free,
          NoLock
<1>4. SaveInv'
  BY DEF IInv, IdInv, OpInv, SaveInv, expireIdleSessionsUnlocked, DropSession,
          Free, disk, NoLock
<1>5. HistInv'
  BY DEF IInv, IdInv, HistInv, expireIdleSessionsUnlocked, DropSession, Free,
          disk, NoLock
<1> QED
  BY <1>1, <1>2, <1>3, <1>4, <1>5 DEF IInv

\* A candidate is edited; the running configuration is another object
\* unless a save has failed.
LEMMA SetKeeps ==
  ASSUME NEW id \in DOMAIN sessions, NEW p, NEW v,
         IInv, Set(id, p, v)
  PROVE  IInv'
<1>1. IdInv'
  BY DEF IInv, IdInv, Set, Free, NoLock
<1>2. EditorInv'
  BY DEF IInv, IdInv, EditorInv, Set, NoLock
<1>3. OpInv'
  BY DEF IInv, IdInv, OpInv, Set, Free, NoLock
<1>4. SaveInv'
  BY DEF IInv, EditorInv, SaveInv, Set, Free, disk, NoLock
<1>5. HistInv'
  BY DEF IInv, IdInv, HistInv, Set, Free, disk, NoLock
<1> QED
  BY <1>1, <1>2, <1>3, <1>4, <1>5 DEF IInv

\* A commit begins.
LEMMA CommitKeeps ==
  ASSUME NEW id \in DOMAIN sessions,
         IInv, Commit(id)
  PROVE  IInv'
<1>1. IdInv'
  BY DEF IInv, IdInv, Commit, BeginCommit, Free, NoLock
<1>2. EditorInv'
  BY DEF IInv, IdInv, EditorInv, Commit, BeginCommit, NoLock
<1>3. OpInv'
  BY DEF IInv, EditorInv, OpInv, Commit, BeginCommit, Free, NoLock
<1>4. SaveInv'
  BY DEF IInv, IdInv, OpInv, SaveInv, Commit, BeginCommit, Free, disk, NoLock
<1>5. HistInv'
  BY DEF IInv, IdInv, HistInv, Commit, BeginCommit, Free, disk, NoLock
<1> QED
  BY <1>1, <1>2, <1>3, <1>4, <1>5 DEF IInv

\* A handler applies a change.
LEMMA ApplyChangeKeeps ==
  IInv /\ ApplyChange => IInv'
<1> SUFFICES ASSUME IInv, ApplyChange PROVE IInv'
  OBVIOUS
<1>1. IdInv'
  BY DEF IInv, IdInv, ApplyChange, NoLock
<1>2. EditorInv'
  BY DEF IInv, IdInv, EditorInv, ApplyChange, NoLock
<1>3. OpInv'
  BY DEF IInv, IdInv, OpInv, ApplyChange, NoLock
<1>4. SaveInv'
  BY DEF IInv, IdInv, OpInv, SaveInv, ApplyChange, disk, NoLock
<1>5. HistInv'
  BY DEF IInv, IdInv, HistInv, ApplyChange, disk, NoLock
<1> QED
  BY <1>1, <1>2, <1>3, <1>4, <1>5 DEF IInv

\* A commit fails and is rolled back; only the bootstrap drops its session.
LEMMA CommitFailsKeeps ==
  IInv /\ CommitFails => IInv'
<1> SUFFICES ASSUME IInv, CommitFails PROVE IInv'
  OBVIOUS
<1>1. IdInv'
  BY DEF IInv, IdInv, CommitFails, ReturnError, DropSession, Idle, NoLock
<1>2. EditorInv'
  BY DEF IInv, IdInv, EditorInv, CommitFails, ReturnError, DropSession, Idle,
          Restrict, NoLock
<1>3. OpInv'
  BY DEF IInv, IdInv, OpInv, CommitFails, ReturnError, DropSession, Idle,
          NoLock
<1>4. SaveInv'
  BY DEF IInv, IdInv, OpInv, SaveInv, CommitFails, ReturnError, DropSession,
          Idle, disk, NoLock
<1>5. HistInv'
  BY DEF IInv, IdInv, HistInv, CommitFails, ReturnError, DropSession, Idle,
          disk, NoLock
<1> QED
  BY <1>1, <1>2, <1>3, <1>4, <1>5 DEF IInv

\* The candidate becomes the running and the startup configuration.
LEMMA PublishKeeps ==
  IInv /\ Publish => IInv'
<1> SUFFICES ASSUME IInv, Publish PROVE IInv'
  OBVIOUS
<1>1. IdInv'
  BY DEF IInv, IdInv, OpInv, Publish, NoLock
<1>2. EditorInv'
  BY DEF IInv, IdInv, EditorInv, Publish, NoLock
<1>3. OpInv'
  BY DEF IInv, IdInv, OpInv, Publish, NoLock
<1>4. SaveInv'
  BY DEF IInv, IdInv, OpInv, SaveInv, Publish, disk, NoLock
<1>5. HistInv'
  BY DEF IInv, IdInv, HistInv, Publish, disk, NoLock
<1> QED
  BY <1>1, <1>2, <1>3, <1>4, <1>5 DEF IInv

\* The startup file is written and the session goes.
LEMMA SaveStartupFileKeeps ==
  IInv /\ SaveStartupFile => IInv'
<1> SUFFICES ASSUME IInv, SaveStartupFile PROVE IInv'
  OBVIOUS
<1>0. \/ op' = Idle /\ rec' = Returned("ok")
      \/ op' = [op EXCEPT !.pc = "version"] /\ rec' = rec
  BY DEF SaveStartupFile
<1>a. /\ op'.id \in {op.id, NoLock} /\ op'.pc \in {"idle", "version"}
      /\ op'.pc = "version" => op'.id = op.id /\ op'.boot = op.boot /\ rec' = rec
      /\ op' = [pc |-> op'.pc, id |-> op'.id, order |-> op'.order, done |-> op'.done,
                boot |-> op'.boot]
      /\ op'.boot \in BOOLEAN
  <2>1. CASE op' = Idle /\ rec' = Returned("ok")
    BY <2>1 DEF Idle
  <2>2. CASE op' = [op EXCEPT !.pc = "version"] /\ rec' = rec
    <3>1. op' = [pc |-> "version", id |-> op.id, order |-> op.order, done |-> op.done,
                 boot |-> op.boot]
      BY <2>2 DEF IInv, IdInv
    <3> QED
      BY <2>2, <3>1 DEF IInv, IdInv
  <2> QED
    BY <1>0, <2>1, <2>2
<1>b. /\ UNCHANGED <<up, running, startup, versions, nextSessionID, versionDir, gap>>
      /\ DropSession(op.id) /\ op.pc = "save" /\ file' = startup /\ up
      /\ rec' \in {rec, "ok"}
  BY <1>0 DEF SaveStartupFile, Returned
<1>1. IdInv'
  BY <1>a, <1>b DEF IInv, IdInv, NoLock, DropSession
<1>2. EditorInv'
  BY <1>b DEF DropSession, IInv, EditorInv, Restrict, OpInv
<1>3. OpInv'
  BY <1>a, <1>b DEF OpInv, IInv, IdInv, DropSession, NoLock
<1>4. SaveInv'
  <2>1. running = startup /\ shared = op.id
    BY <1>b DEF IInv, SaveInv
  <2> QED BY <2>1, <1>a, <1>b DEF SaveInv, DropSession, NoLock
<1>5. HistInv'
  <2>1. lockOwner = op.id /\ lockOwner' = NoLock /\ op.id \notin Range(versionDir)
    BY <1>b DEF IInv, OpInv, HistInv, DropSession
  <2> QED
    BY <2>1, <1>a, <1>b DEF IInv, HistInv
<1> QED
  BY <1>1, <1>2, <1>3, <1>4, <1>5 DEF IInv

\* The startup file is not written; the candidate stays the running object.
LEMMA SaveFailsKeeps ==
  IInv /\ SaveFails => IInv'
<1> SUFFICES ASSUME IInv, SaveFails PROVE IInv'
  OBVIOUS
<1>1. IdInv'
  BY DEF IInv, IdInv, SaveFails, ReturnError, DropSession, Idle, NoLock
<1>2. EditorInv'
  BY DEF IInv, IdInv, EditorInv, SaveFails, ReturnError, DropSession, Idle,
          Restrict, NoLock
<1>3. OpInv'
  BY DEF IInv, IdInv, OpInv, SaveFails, ReturnError, DropSession, Idle, NoLock
<1>4. SaveInv'
  BY DEF IInv, IdInv, OpInv, SaveInv, SaveFails, ReturnError, DropSession,
          Idle, NoLock
<1>5. HistInv'
  BY DEF IInv, IdInv, HistInv, SaveFails, ReturnError, DropSession, Idle,
          NoLock
<1> QED
  BY <1>1, <1>2, <1>3, <1>4, <1>5 DEF IInv

\* The version joins the history under the next free number.
LEMMA SaveVersionKeeps ==
  ASSUME NEW fails \in BOOLEAN,
         IInv, saveVersion(fails)
  PROVE  IInv'
<1>1. IdInv'
  BY DEF IInv, IdInv, saveVersion, Returned, Idle, NoLock
<1>2. EditorInv'
  BY DEF IInv, IdInv, EditorInv, saveVersion, Returned, Idle, NoLock
<1>3. OpInv'
  BY DEF IInv, IdInv, OpInv, saveVersion, Returned, Idle, NoLock
<1>4. SaveInv'
  BY DEF IInv, IdInv, OpInv, SaveInv, saveVersion, Returned, Idle, NoLock
<1>5. HistInv'
  <2>1. /\ op.pc = "version" /\ up /\ op'.pc = "idle" /\ versions' = Append(versions, op.id)
        /\ UNCHANGED <<up, lockOwner, nextSessionID>>
        /\ gap' = (gap \/ fails)
    BY DEF saveVersion, Idle
  <2>2. /\ nextSessionID \in Nat /\ op.id \in 1..nextSessionID /\ lockOwner # op.id
        /\ Range(versionDir) \subseteq 0..nextSessionID
        /\ lockOwner # NoLock => lockOwner \notin Range(versionDir)
    BY <2>1 DEF IInv, IdInv, OpInv, HistInv
  <2>4. PICK w \in {op.id, TornVersion} :
          /\ versionDir' = versionDir \/ versionDir' = Put(versionDir, NextVersion, w)
          /\ ~fails => w = op.id /\ versionDir' = Put(versionDir, NextVersion, w)
    BY DEF saveVersion
  <2>5. Range(versionDir') \subseteq Range(versionDir) \cup {w}
    BY <2>4, PutRange
  <2>6. op.id # TornVersion
    BY <2>2 DEF TornVersion
  <2>7. ~gap' => TornVersion \notin Range(versionDir')
    BY <2>1, <2>4, <2>5, <2>6 DEF IInv, HistInv
  <2>8. ASSUME ~gap'
        PROVE  \E n \in Nat : /\ DOMAIN versionDir' = 1..n
                              /\ versions' \in Seq(Range(versions')) /\ Len(versions') = n
    <3>1. PICK n \in Nat : /\ DOMAIN versionDir = 1..n
                           /\ versions \in Seq(Range(versions)) /\ Len(versions) = n
      BY <2>1, <2>8 DEF IInv, HistInv
    <3>2. NextVersion = n + 1
      BY <3>1 DEF NextVersion
    <3>3. DOMAIN versionDir' = 1..n \cup {n + 1}
      <4>1. versionDir' = Put(versionDir, n + 1, w)
        BY <2>1, <2>4, <2>8, <3>2
      <4> QED
        BY <3>1, <4>1 DEF Put
    <3>4. 1..n \cup {n + 1} = 1..(n + 1)
      BY <3>1
    <3>5. versions' \in Seq(Range(versions')) /\ Len(versions') = n + 1
      BY <2>1, <3>1, AppendGrows
    <3> QED
      BY <3>1, <3>3, <3>4, <3>5
  <2>9. /\ Range(versionDir') \subseteq 0..nextSessionID
        /\ lockOwner # NoLock => lockOwner \notin Range(versionDir')
    BY <2>2, <2>4, <2>5 DEF TornVersion, NoLock
  <2> QED
    BY <2>1, <2>7, <2>8, <2>9 DEF HistInv
<1> QED
  BY <1>1, <1>2, <1>3, <1>4, <1>5 DEF IInv

\* A recovery drops the session there is.
LEMMA ResetKeeps ==
  IInv /\ ResetForRecovery => IInv'
<1> SUFFICES ASSUME IInv, ResetForRecovery PROVE IInv'
  OBVIOUS
<1>1. IdInv'
  BY DEF IInv, IdInv, ResetForRecovery, Free, NoLock
<1>2. EditorInv'
  BY DEF IInv, IdInv, EditorInv, ResetForRecovery, NoLock
<1>3. OpInv'
  BY DEF IInv, IdInv, OpInv, ResetForRecovery, Free, NoLock
<1>4. SaveInv'
  BY DEF IInv, IdInv, OpInv, SaveInv, ResetForRecovery, Free, disk, NoLock
<1>5. HistInv'
  BY DEF IInv, IdInv, HistInv, ResetForRecovery, Free, disk, NoLock
<1> QED
  BY <1>1, <1>2, <1>3, <1>4, <1>5 DEF IInv

\* The bootstrap publishes the startup configuration.
LEMMA PublishStartupKeeps ==
  IInv /\ PublishStartup => IInv'
<1> SUFFICES ASSUME IInv, PublishStartup PROVE IInv'
  OBVIOUS
<1>1. IdInv'
  BY DEF IInv, IdInv, PublishStartup, Free, NoLock
<1>2. EditorInv'
  BY DEF IInv, IdInv, EditorInv, PublishStartup, NoLock
<1>3. OpInv'
  BY DEF IInv, IdInv, OpInv, PublishStartup, Free, NoLock
<1>4. SaveInv'
  BY DEF IInv, IdInv, OpInv, SaveInv, PublishStartup, Free, disk, NoLock
<1>5. HistInv'
  BY DEF IInv, IdInv, HistInv, PublishStartup, Free, disk, NoLock
<1> QED
  BY <1>1, <1>2, <1>3, <1>4, <1>5 DEF IInv

\* The bootstrap commits a session of its own.
LEMMA ApplyLoadedKeeps ==
  IInv /\ ApplyLoadedConfig => IInv'
<1> SUFFICES ASSUME IInv, ApplyLoadedConfig PROVE IInv'
  OBVIOUS
<1>1. IdInv'
  BY DEF IInv, IdInv, ApplyLoadedConfig, AddSession, BeginCommit, Free, NoLock
<1>2. EditorInv'
  BY DEF IInv, IdInv, EditorInv, ApplyLoadedConfig, AddSession, BeginCommit,
          Put, NoLock
<1>3. OpInv'
  BY DEF IInv, IdInv, OpInv, ApplyLoadedConfig, AddSession, BeginCommit, Free,
          NoLock
<1>4. SaveInv'
  BY DEF IInv, IdInv, OpInv, SaveInv, ApplyLoadedConfig, AddSession,
          BeginCommit, Free, disk, NoLock
<1>5. HistInv'
  BY DEF IInv, IdInv, HistInv, ApplyLoadedConfig, AddSession, BeginCommit,
          Free, disk, NoLock
<1> QED
  BY <1>1, <1>2, <1>3, <1>4, <1>5 DEF IInv

\* The bootstrap finds the lock taken.
LEMMA LockedKeeps ==
  IInv /\ ApplyLoadedConfigLocked => IInv'
<1> SUFFICES ASSUME IInv, ApplyLoadedConfigLocked PROVE IInv'
  OBVIOUS
<1>1. IdInv'
  BY DEF IInv, IdInv, ApplyLoadedConfigLocked, Free, NoLock
<1>2. EditorInv'
  BY DEF IInv, IdInv, EditorInv, ApplyLoadedConfigLocked, NoLock
<1>3. OpInv'
  BY DEF IInv, IdInv, OpInv, ApplyLoadedConfigLocked, Free, NoLock
<1>4. SaveInv'
  BY DEF IInv, IdInv, OpInv, SaveInv, ApplyLoadedConfigLocked, Free, disk,
          NoLock
<1>5. HistInv'
  BY DEF IInv, IdInv, HistInv, ApplyLoadedConfigLocked, Free, disk, NoLock
<1> QED
  BY <1>1, <1>2, <1>3, <1>4, <1>5 DEF IInv

\* The daemon crashes, perhaps while it writes a file.
LEMMA CrashKeeps ==
  IInv /\ Crash => IInv'
<1> SUFFICES ASSUME IInv, Crash PROVE IInv'
  OBVIOUS
<1>1. IdInv'
  BY DEF IInv, IdInv, Crash, ForgetMemory, Idle, NoLock
<1>2. EditorInv'
  BY DEF IInv, IdInv, EditorInv, Crash, ForgetMemory, Idle, NoLock
<1>3. OpInv'
  BY DEF IInv, IdInv, OpInv, Crash, ForgetMemory, Idle, NoLock
<1>4. SaveInv'
  BY DEF IInv, IdInv, OpInv, SaveInv, Crash, ForgetMemory, Idle, NoLock
<1>5. HistInv'
  <2>1. /\ versions' = <<>> /\ op'.pc = "idle" /\ lockOwner' = NoLock /\ ~up' /\ up
        /\ nextSessionID' = nextSessionID
        /\ gap' = (gap \/ (op.pc = "version" /\ op.id \notin Range(versionDir')))
    BY DEF Crash, ForgetMemory, Idle
  <2>2. PICK w \in {op.id, TornVersion} :
          \/ versionDir' = versionDir
          \/ op.pc = "version" /\ versionDir' = Put(versionDir, NextVersion, w)
    BY DEF Crash
  <2>3. Range(versionDir') \subseteq Range(versionDir) \cup {w}
    BY <2>2, PutRange
  <2>4. versionDir' # versionDir =>
          op.id \in 1..nextSessionID /\ op.id \notin Range(versionDir)
    BY <2>2 DEF IInv, OpInv, HistInv
  <2>5. Range(versionDir) \subseteq 0..nextSessionID /\ nextSessionID \in Nat
    BY DEF IInv, IdInv, HistInv
  <2>6. Range(versionDir') \subseteq 0..nextSessionID
    BY <2>3, <2>4, <2>5 DEF TornVersion
  <2>7. ~gap' /\ versionDir' # versionDir => w = op.id
    BY <2>1, <2>2, <2>3, <2>4
  <2>8. ~gap' => TornVersion \notin Range(versionDir')
    <3>1. versionDir' # versionDir => op.id # TornVersion
      BY <2>4, <2>5 DEF TornVersion
    <3> QED
      BY <2>1, <2>3, <2>7, <3>1 DEF IInv, HistInv
  <2>9. ASSUME ~gap' PROVE \E n \in Nat : DOMAIN versionDir' = 1..n
    <3>1. PICK n \in Nat : DOMAIN versionDir = 1..n /\ Len(versions) = n
      BY <2>1, <2>9 DEF IInv, HistInv
    <3>2. NextVersion = n + 1
      BY <3>1 DEF NextVersion
    <3>3. DOMAIN versionDir' = 1..n \/ DOMAIN versionDir' = 1..n \cup {n + 1}
      <4>1. versionDir' = versionDir \/ versionDir' = Put(versionDir, n + 1, w)
        BY <2>2, <3>2
      <4> QED
        BY <3>1, <4>1 DEF Put
    <3>4. 1..n \cup {n + 1} = 1..(n + 1) /\ n + 1 \in Nat
      BY <3>1
    <3>5. \E m \in {n, n + 1} : DOMAIN versionDir' = 1..m
      BY <3>3, <3>4
    <3> QED
      BY <3>4, <3>5
  <2> QED
    BY <2>1, <2>6, <2>8, <2>9 DEF HistInv, NoLock
<1> QED
  BY <1>1, <1>2, <1>3, <1>4, <1>5 DEF IInv

\* The daemon exits because its bootstrap failed.
LEMMA ExitKeeps ==
  IInv /\ ExitOnBootError => IInv'
<1> SUFFICES ASSUME IInv, ExitOnBootError PROVE IInv'
  OBVIOUS
<1>1. IdInv'
  BY DEF IInv, IdInv, ExitOnBootError, ForgetMemory, Idle, NoLock
<1>2. EditorInv'
  BY DEF IInv, IdInv, EditorInv, ExitOnBootError, ForgetMemory, Idle, NoLock
<1>3. OpInv'
  BY DEF IInv, IdInv, OpInv, ExitOnBootError, ForgetMemory, Idle, NoLock
<1>4. SaveInv'
  BY DEF IInv, IdInv, OpInv, SaveInv, ExitOnBootError, ForgetMemory, Idle,
          disk, NoLock
<1>5. HistInv'
  BY DEF IInv, IdInv, HistInv, ExitOnBootError, ForgetMemory, Idle, disk,
          NoLock
<1> QED
  BY <1>1, <1>2, <1>3, <1>4, <1>5 DEF IInv

\* The daemon starts from its files: the history has the length of the
\* directory, so the next number is free.
LEMMA BootKeeps ==
  IInv /\ Boot => IInv'
<1> SUFFICES ASSUME IInv, Boot PROVE IInv'
  OBVIOUS
<1>1. IdInv'
  BY DEF IInv, IdInv, Boot, Idle, NoLock
<1>2. EditorInv'
  BY DEF IInv, IdInv, EditorInv, Boot, Idle, NoLock
<1>3. OpInv'
  BY DEF IInv, IdInv, OpInv, Boot, Idle, NoLock
<1>4. SaveInv'
  <2>1. op.pc = "idle"
    BY DEF IInv, IdInv, Boot, Idle
  <2>2. shared' = NoLock
    BY DEF IInv, IdInv, Boot
  <2> QED
  BY <2>1, <2>2 DEF SaveInv, Boot, disk
<1>5. HistInv'
  <2> DEFINE k == Cardinality(DOMAIN versionDir)
             sorted == SetToSortSeq(DOMAIN versionDir, <)
             all == [i \in 1..k |-> versionDir[sorted[i]]]
  <2>1. versions' = all \/ (versions' = <<>> /\ TornVersion \in Range(versionDir))
    BY DEF Boot, LoadVersions
  <2> HIDE DEF sorted, k
  <2>2. k \in Nat => all \in Seq(Range(all)) /\ Len(all) = k
    BY DEF Range
  <2>4. ASSUME NEW n \in Nat, DOMAIN versionDir = 1..n PROVE k = n
    BY <2>4, FS_Interval DEF k
  <2>5. UNCHANGED <<versionDir, lockOwner, nextSessionID, gap, op>>
    BY DEF Boot, disk
  <2> HIDE DEF all
  <2>6. ASSUME ~gap
        PROVE  \E n \in Nat : /\ DOMAIN versionDir = 1..n
                              /\ versions' \in Seq(Range(versions')) /\ Len(versions') = n
    <3>1. PICK n \in Nat : DOMAIN versionDir = 1..n
      BY <2>6 DEF IInv, HistInv
    <3>2. versions' = all
      BY <2>1, <2>6 DEF IInv, HistInv
    <3> QED
      BY <2>2, <2>4, <3>1, <3>2
  <2> QED
    BY <2>5, <2>6 DEF IInv, HistInv
<1> QED
  BY <1>1, <1>2, <1>3, <1>4, <1>5 DEF IInv

\* Losing the connection and the dataplane's state touches none of it.
LEMMA DataplaneKeeps ==
  IInv /\ UNCHANGED <<up, memory, nextSessionID, disk, unsaved, gap>> => IInv'
BY DEF IInv, IdInv, EditorInv, OpInv, SaveInv, HistInv, memory, disk

\* A recovery begins: the bootstrap runs only if the dataplane is empty.
LEMMA OnRecoverKeeps ==
  IInv /\ OnRecover => IInv'
<1> SUFFICES ASSUME IInv, OnRecover PROVE IInv'
  OBVIOUS
<1>1. UNCHANGED <<up, running, startup, sessions, lockOwner, shared, op, versions,
                  nextSessionID, file, versionDir, unsaved, gap>>
  BY DEF OnRecover, disk
<1>2. rec = "none" /\ rec' \in {"start", "ok"}
  BY DEF OnRecover
<1>3. IdInv' /\ EditorInv' /\ HistInv'
  BY <1>1 DEF IInv, IdInv, EditorInv, HistInv
<1>4. OpInv' /\ SaveInv'
  BY <1>1, <1>2 DEF IInv, OpInv, SaveInv
<1> QED
  BY <1>3, <1>4 DEF IInv

\* The bootstrap's result is taken by whoever started it.
LEMMA ResultKeeps ==
  IInv /\ rec \in {"ok", "error"} /\ rec' = "none" /\ OnlyRec => IInv'
<1> SUFFICES ASSUME IInv, rec \in {"ok", "error"}, rec' = "none", OnlyRec PROVE IInv'
  OBVIOUS
<1>1. UNCHANGED <<up, running, startup, sessions, lockOwner, shared, op, versions,
                  nextSessionID, file, versionDir, unsaved, gap>>
  BY DEF OnlyRec, disk
<1>2. IdInv' /\ EditorInv' /\ HistInv'
  BY <1>1 DEF IInv, IdInv, EditorInv, HistInv
<1>3. OpInv' /\ SaveInv'
  BY <1>1 DEF IInv, OpInv, SaveInv
<1> QED
  BY <1>2, <1>3 DEF IInv

\* It holds of the daemon that has not started yet.
LEMMA InitOK == Init => IInv
<1> SUFFICES ASSUME Init PROVE IInv
  OBVIOUS
<1>1. IdInv /\ EditorInv /\ OpInv /\ SaveInv
  BY DEF Init, ConfigInit, IdInv, EditorInv, OpInv, SaveInv, Idle, NoLock
<1>2. HistInv
  <2>1. DOMAIN versionDir = 1..0 /\ Range(versionDir) = {}
    BY DEF Init, ConfigInit, Range
  <2> QED
    BY <2>1 DEF Init, ConfigInit, HistInv, Idle, NoLock
<1> QED
  BY <1>1, <1>2 DEF IInv

\* One step per action of Next.
LEMMA NextOK == IInv /\ [Next]_vars => IInv'
<1> SUFFICES ASSUME IInv, [Next]_vars PROVE IInv'
  OBVIOUS
<1>1. CASE Operators
  BY <1>1, CreateKeeps, CloseKeeps, ExpireKeeps, SetKeeps, CommitKeeps
     DEF Operators, OperatorNext
<1>2. CASE Committing
  BY <1>2, ApplyChangeKeeps, CommitFailsKeeps, PublishKeeps, SaveStartupFileKeeps,
     SaveFailsKeeps, SaveVersionKeeps DEF Committing, CommitNext
<1>3. CASE Bootstrap
  BY <1>3, ResetKeeps, PublishStartupKeeps, ApplyLoadedKeeps, LockedKeeps
     DEF Bootstrap, BootstrapNext
<1>4. CASE CheckGood \/ CheckBad \/ Restart \/ Reach \/ ReconnectFails
           \/ UNCHANGED vars \/ VPPStarts
  <2>1. UNCHANGED configVars
    BY <1>4 DEF CheckGood, CheckBad, Restart, Reach, ReconnectFails, vars, VPPStarts
  <2> QED
    BY <2>1, DataplaneKeeps DEF configVars
<1>5. CASE Exhausted \/ VPPGoesDown
  BY <1>5, DataplaneKeeps DEF Exhausted, VPPGoesDown
<1>6. CASE OnRecover
  BY <1>6, OnRecoverKeeps
<1>7. CASE RecoverReturns \/ StartComponents
  BY <1>7, ResultKeeps DEF RecoverReturns, StartComponents
<1>8. CASE Start
  BY <1>8, BootKeeps DEF Start
<1>9. CASE Stop
  BY <1>9, CrashKeeps, ExitKeeps DEF Stop
<1> QED
  BY <1>1, <1>2, <1>3, <1>4, <1>5, <1>6, <1>7, <1>8, <1>9 DEF Next, WatchdogNext

\* The inductive invariant holds throughout.
LEMMA Inductive == Spec => []IInv
  BY InitOK, NextOK, PTL DEF Spec
-----------------------------------------------------------------------------
\* There is at most one candidate session and it is the one that owns the
\* lock (CreateCandidateSession, CloseCandidateSession, Commit,
\* ResetForRecovery and the idle timeout in pkg/configmgr/conf.go), whatever
\* fails or crashes in between.
THEOREM EditorCorrect == Spec => []OneEditor
<1>1. IInv => OneEditor
  <2> SUFFICES ASSUME IInv PROVE OneEditor
    OBVIOUS
  <2>1. DOMAIN sessions = {} \/ DOMAIN sessions = {lockOwner}
    BY DEF IInv, EditorInv
  <2>2. Cardinality({}) = 0 /\ Cardinality({lockOwner}) = 1
    BY FS_EmptySet, FS_Singleton
  <2>3. Cardinality(DOMAIN sessions) =< 1
    BY <2>1, <2>2
  <2> QED
    BY <2>3 DEF IInv, EditorInv, OneEditor
<1> QED
  BY <1>1, Inductive, PTL

\* Between two calls the startup file holds the running configuration unless
\* the last save failed (Commit, SaveYAML, ApplyLoadedConfig): no interleaving
\* of commits, failed commits, recoveries and restarts leaves a running
\* configuration that a restart would not bring back.
THEOREM SavedCorrect == Spec => []RunningIsSaved
<1>1. IInv => RunningIsSaved
  BY DEF IInv, SaveInv, RunningIsSaved, Free
<1> QED
  BY <1>1, Inductive, PTL

\* As long as no version file was lost or cut short, a version file that is
\* there keeps its contents (saveVersion, LoadVersions): the number the next
\* commit takes is free, after restarts too.
THEOREM HistoryCorrect == Spec => HistoryKept
<1> DEFINE Kept == ~gap => \A n \in DOMAIN versionDir : versionDir'[n] = versionDir[n]
<1>1. IInv /\ [Next]_vars => [Kept]_vars
  <2> SUFFICES ASSUME IInv, [Next]_vars, ~gap, NEW n \in DOMAIN versionDir
               PROVE  versionDir'[n] = versionDir[n]
    OBVIOUS
  <2>1. \/ versionDir' = versionDir
        \/ up /\ \E v : versionDir' = Put(versionDir, NextVersion, v)
    <3>1. CASE Committing
      BY <3>1 DEF Committing, CommitNext, ApplyChange, CommitFails, Publish,
                  SaveStartupFile, SaveFails, saveVersion, disk
    <3>2. CASE Stop
      BY <3>2 DEF Stop, Crash, ExitOnBootError, disk
    <3>3. CASE ~Committing /\ ~Stop
      BY <3>3 DEF Next, Operators, OperatorNext, CreateCandidateSession,
                  CloseCandidateSession, expireIdleSessionsUnlocked, Set, Commit,
                  Bootstrap, BootstrapNext, ResetForRecovery, PublishStartup,
                  ApplyLoadedConfig, ApplyLoadedConfigLocked, WatchdogNext, CheckGood,
                  CheckBad, Restart, Reach, Exhausted, OnRecover, ReconnectFails,
                  RecoverReturns, StartComponents, OnlyRec, Start, Boot, VPPGoesDown,
                  VPPStarts, configVars, vars, disk
    <3> QED
      BY <3>1, <3>2, <3>3
  <2>2. up => NextVersion \notin DOMAIN versionDir
    BY DEF IInv, HistInv, NextVersion
  <2> QED
    BY <2>1, <2>2, PutOthers
<1> QED
  BY <1>1, Inductive, PTL DEF Spec, HistoryKept
=============================================================================
