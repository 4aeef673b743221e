--------------------------- MODULE MigrateProofs ---------------------------
(***************************************************************************)
(* Safety of the start-up for any number of processes, releases and files: *)
(* IInv (Migrate) is inductive and implies the invariants the run checks.  *)
(***************************************************************************)
EXTENDS Migrate, TLAPS

ProcRecords == [at: Phases, seen: SUBSET Files, reason: Reasons, next: 1..(Latest + 1)]

\* A process outside migrate() is a process.
LEMMA PlainIsProc == \A phase \in Phases : Plain(phase) \in ProcRecords
<1>1. 1 \in 1..(Latest + 1)
  BY MigrateAssumption
<1>. QED
  BY <1>1 DEF Plain, ProcRecords, Reasons

\* A process in the loop is a process.
LEMMA LoopsIsProc ==
    \A seen \in SUBSET Files, reason \in Reasons, next \in 1..(Latest + 1) : Loops(seen, reason, next) \in ProcRecords
BY DEF Loops, ProcRecords, Phases

\* The initial database, whatever earlier releases left, satisfies the invariant.
LEMMA InitIInv == Init => IInv
<1>. SUFFICES ASSUME Init PROVE IInv
  OBVIOUS
<1>. USE MigrateAssumption DEF Init, Files
<1>1. PICK n \in 0..Latest : applied = 1..n
  OBVIOUS
<1>2. TypeOK
  <2>1. applied \subseteq Files
    BY <1>1
  <2>2. proc \in [Procs -> ProcRecords]
    BY PlainIsProc DEF Phases
  <2>3. /\ backup \in [at: {"idle", "read", "dumped"}, applied: SUBSET Files, contents: SUBSET Files]
        /\ marker \in [applied: SUBSET Files, here: BOOLEAN, good: BOOLEAN]
    <3>1. marker = NoMarker \/ marker = [applied |-> applied, here |-> FALSE, good |-> TRUE]
      OBVIOUS
    <3>2. backup = NoBackup
      OBVIOUS
    <3>3. backup \in [at: {"idle", "read", "dumped"}, applied: SUBSET Files, contents: SUBSET Files]
      BY ONLY <3>2 DEF NoBackup
    <3>4. marker \in [applied: SUBSET Files, here: BOOLEAN, good: BOOLEAN]
      <4>1. CASE marker = NoMarker
        BY ONLY <4>1 DEF NoMarker
      <4>2. CASE marker = [applied |-> applied, here |-> FALSE, good |-> TRUE]
        BY ONLY <2>1, <4>2
      <4>. QED
        BY <3>1, <4>1, <4>2
    <3>. QED
      BY <3>3, <3>4
  <2>. QED
    BY <2>1, <2>2, <2>3 DEF TypeOK, ProcRecords
<1>3. Prefix
  BY <1>1 DEF Prefix
<1>4. Locked /\ Behind /\ Justified
  BY DEF Locked, Behind, Justified, Plain
<1>5. Saved
  BY DEF Saved, NoBackup, NoMarker
<1>. QED
  BY <1>2, <1>3, <1>4, <1>5 DEF IInv

\* Every step of a process keeps the types.
LEMMA ProcTypes ==
    ASSUME TypeOK, Locked, NEW p \in Procs, Start(p) \/ RunFiles(p) \/ Finish(p) \/ Crash(p)
    PROVE  TypeOK'
<1>. USE MigrateAssumption, PlainIsProc DEF TypeOK, ProcRecords, Goes, Known, Files
<1>1. CASE ReadStatus(p)
  <2>1. 1 \in 1..(Latest + 1)
    OBVIOUS
  <2>2. [at |-> "guard", seen |-> applied, reason |-> "none", next |-> 1] \in ProcRecords
    BY <2>1 DEF Phases, Reasons
  <2>. QED
    BY <1>1, <2>2 DEF ReadStatus
<1>2. CASE RequireBackup(p)
  <2>1. /\ \E reason \in Reasons : proc' = [proc EXCEPT ![p] = Loops(@.seen, reason, 1)]
        /\ UNCHANGED <<applied, hasTables, hasUser, lock, backup, marker, dumped>>
    BY <1>2 DEF RequireBackup
  <2>2. PICK reason \in Reasons : proc' = [proc EXCEPT ![p] = Loops(@.seen, reason, 1)]
    BY <2>1
  <2>3. Loops(proc[p].seen, reason, 1) \in ProcRecords
    BY LoopsIsProc
  <2>. QED
    BY <2>1, <2>2, <2>3
<1>3. CASE BackupRequired(p)
  BY <1>3 DEF BackupRequired, Phases
<1>4. CASE SkipFile(p)
  <2>1. proc[p].next + 1 \in 1..(Latest + 1)
    BY <1>4 DEF SkipFile, AtFile
  <2>. QED
    BY <1>4, <2>1, LoopsIsProc DEF SkipFile
<1>5. CASE TakeFile(p)
  BY <1>5 DEF TakeFile, Phases
<1>6. CASE CommitFile(p)
  <2>1. proc[p].next \in Files /\ proc[p].next + 1 \in 1..(Latest + 1)
    BY <1>6 DEF CommitFile, Locked
  <2>. QED
    BY <1>6, <2>1, LoopsIsProc DEF CommitFile
<1>7. CASE FileFails(p)
  BY <1>7 DEF FileFails, Phases
<1>11. CASE AllFilesDone(p)
  BY <1>11 DEF AllFilesDone, Phases
<1>8. CASE CountUsers(p)
  BY <1>8 DEF CountUsers, Phases
<1>9. CASE CreateAdmin(p)
  <2>1. PICK phase \in Phases : Goes(p, phase)
    BY <1>9 DEF CreateAdmin, Phases
  <2>. QED
    BY <1>9, <2>1 DEF CreateAdmin
<1>10. CASE Crash(p)
  BY <1>10 DEF Crash, Released, Phases
<1>. QED
  BY <1>1, <1>2, <1>3, <1>4, <1>5, <1>6, <1>7, <1>8, <1>9, <1>10, <1>11 DEF Start, RunFiles, Finish

ProcStep(p) == Start(p) \/ RunFiles(p) \/ Finish(p) \/ Crash(p)

\* A step of one process leaves the other processes and the backups alone, and takes no version and no user away.
LEMMA ProcFrame ==
    ASSUME TypeOK, NEW p \in Procs, ProcStep(p)
    PROVE  /\ \A q \in Procs : q # p => proc'[q] = proc[q]
           /\ UNCHANGED <<backup, marker, dumped>>
           /\ applied \subseteq applied'
           /\ hasUser => hasUser'
<1>. USE DEF TypeOK, Goes
<1>1. CASE Start(p)
  BY <1>1 DEF Start, ReadStatus, RequireBackup, BackupRequired
<1>2. CASE RunFiles(p)
  BY <1>2 DEF RunFiles, SkipFile, TakeFile, CommitFile, FileFails, AllFilesDone
<1>3. CASE Finish(p)
  BY <1>3 DEF Finish, CountUsers, CreateAdmin
<1>4. CASE Crash(p)
  BY <1>4 DEF Crash
<1>. QED
  BY <1>1, <1>2, <1>3, <1>4 DEF ProcStep

\* The backup check lets a process into the loop, with a reason it has.
LEMMA GuardPasses ==
    ASSUME TypeOK, NEW p \in Procs, RequireBackup(p)
    PROVE  \E reason \in Reasons :
              /\ proc'[p] = Loops(proc[p].seen, reason, 1)
              /\ reason # "none"
              /\ reason = "nothing pending" => Known(p) \subseteq proc[p].seen
              /\ reason = "backup" => BackedUp(p)
<1>1. PICK reason \in Reasons :
          /\ proc' = [proc EXCEPT ![p] = Loops(@.seen, reason, 1)]
          /\ reason # "none"
          /\ reason = "nothing pending" => Known(p) \subseteq proc[p].seen
          /\ reason = "backup" => BackedUp(p)
  BY DEF RequireBackup
<1>. QED
  BY <1>1 DEF TypeOK

\* It starts at the first file.
LEMMA InTheLoop ==
    ASSUME TypeOK, NEW p \in Procs, RequireBackup(p)
    PROVE  proc'[p].at = "file" /\ proc'[p].next = 1
<1>1. PICK reason : proc'[p] = Loops(proc[p].seen, reason, 1)
  BY GuardPasses
<1>. QED
  BY <1>1 DEF Loops

\* Only a commit changes what is applied, and it adds the file whose predecessors are all there.
LEMMA PrefixStep ==
    ASSUME IInv, NEW p \in Procs, ProcStep(p)
    PROVE  Prefix'
<1>. USE DEF IInv, TypeOK, Prefix, ProcStep
<1>1. CASE CommitFile(p)
  <2>1. applied' = applied \union {proc[p].next}
    BY <1>1 DEF CommitFile
  <2>2. \A f \in Files : f < proc[p].next => f \in applied
    BY <1>1 DEF CommitFile, Behind
  <2>. QED
    BY <2>1, <2>2
<1>2. CASE ~CommitFile(p)
  <2>1. applied' = applied
    BY <1>2 DEF Start, RunFiles, Finish, ReadStatus, RequireBackup, BackupRequired, SkipFile, TakeFile,
                FileFails, AllFilesDone, CountUsers, CreateAdmin, Crash
  <2>. QED
    BY <2>1
<1>. QED
  BY <1>1, <1>2

\* A process that does not run a file after its step leaves the lock to whoever held it, unless it held it itself.
LEMMA LockStep ==
    ASSUME IInv, NEW p \in Procs, ProcStep(p)
    PROVE  Locked'
<1>g. RequireBackup(p) => proc'[p].at = "file"
  BY InTheLoop DEF IInv
<1>. USE DEF IInv, TypeOK, Locked
<1>0. /\ \A q \in Procs : q # p => proc'[q] = proc[q]
      /\ Nobody \notin Procs
  BY ProcFrame, MigrateAssumption
<1>1. CASE TakeFile(p)
  <2>1. lock = Nobody /\ lock' = p /\ applied' = applied /\ proc[p].next \in Known(p) /\ proc[p].next \notin applied
    BY <1>1 DEF TakeFile, AtFile, AlreadyApplied
  <2>2. proc'[p].at = "execute" /\ proc'[p].next = proc[p].next
    BY <1>1 DEF TakeFile
  <2>. QED
    BY <1>0, <2>1, <2>2
<1>2. CASE CommitFile(p)
  <2>1. lock = p /\ lock' = Nobody
    BY <1>2 DEF CommitFile
  <2>2. proc'[p].at = "file"
    BY <1>2 DEF CommitFile, Loops
  <2>. QED
    BY <1>0, <2>1, <2>2
<1>3. CASE FileFails(p) \/ Crash(p)
  <2>1. lock' = (IF lock = p THEN Nobody ELSE lock) /\ applied' = applied
    BY <1>3 DEF FileFails, Crash, Released
  <2>2. proc'[p].at = "down"
    BY <1>3 DEF FileFails, Crash, Goes, Plain
  <2>. QED
    BY <1>0, <2>1, <2>2
<1>4. CASE Start(p) \/ SkipFile(p) \/ AllFilesDone(p) \/ Finish(p)
  <2>1. lock' = lock /\ applied' = applied
    BY <1>4 DEF Start, Finish, ReadStatus, RequireBackup, BackupRequired, SkipFile, AllFilesDone, CountUsers, CreateAdmin
  <2>2. proc[p].at # "execute"
    BY <1>4 DEF Start, Finish, ReadStatus, RequireBackup, BackupRequired, SkipFile, AtFile, AllFilesDone, CountUsers,
                CreateAdmin
  <2>3. proc'[p].at # "execute"
    BY <1>4, <1>g, <2>2 DEF Start, Finish, ReadStatus, BackupRequired, SkipFile, AllFilesDone, CountUsers,
                CreateAdmin, Goes, Plain, Loops
  <2>. QED
    BY <1>0, <2>1, <2>2, <2>3
<1>. QED
  BY <1>1, <1>2, <1>3, <1>4 DEF ProcStep, RunFiles

\* What lies behind the loop of a process stays applied, and the loop moves on only over applied files.
LEMMA BehindStep ==
    ASSUME IInv, NEW p \in Procs, ProcStep(p)
    PROVE  Behind'
<1>g. RequireBackup(p) => proc'[p].at = "file" /\ proc'[p].next = 1
  BY InTheLoop DEF IInv
<1>. USE MigrateAssumption DEF IInv, TypeOK, Known, Files
<1>0. /\ \A q \in Procs : q # p => proc'[q] = proc[q]
      /\ applied \subseteq applied' /\ (hasUser => hasUser')
  BY ProcFrame
<1>. DEFINE Mine ==
        /\ proc[p].at \in {"file", "execute"} => \A f \in Files : f < proc[p].next => f \in applied
        /\ proc[p].at \in {"file", "execute"} => proc[p].next <= Release[p] + 1
        /\ proc[p].at \in {"migrated", "create", "serving"} => Known(p) \subseteq applied
        /\ proc[p].at = "serving" => hasUser
<1>1. Mine
  BY DEF Behind
<1>2. ASSUME Mine' PROVE Behind'
  BY <1>0, <1>2 DEF Behind
<1>3. CASE ReadStatus(p) \/ BackupRequired(p) \/ FileFails(p) \/ Crash(p)
  BY <1>2, <1>3 DEF ReadStatus, BackupRequired, FileFails, Crash, Goes, Plain
<1>4. CASE RequireBackup(p)
  <2>1. proc'[p].at = "file" /\ proc'[p].next = 1
    BY <1>4, <1>g
  <2>2. Release[p] \in Nat
    OBVIOUS
  <2>. QED
    BY <1>2, <2>1, <2>2
<1>5. CASE SkipFile(p) \/ CommitFile(p)
  <2>1. proc'[p].at = "file" /\ proc'[p].next = proc[p].next + 1 /\ proc[p].next \in applied'
    BY <1>5 DEF SkipFile, AlreadyApplied, CommitFile, AtFile, Loops
  <2>2. proc[p].next \in Known(p) /\ proc[p].at \in {"file", "execute"}
    BY <1>5 DEF SkipFile, CommitFile, AtFile, Locked
  <2>3. \A f \in Files : f < proc'[p].next => f < proc[p].next \/ f = proc[p].next
    <3>1. proc[p].next \in Nat
      OBVIOUS
    <3>. QED
      BY <2>1, <3>1
  <2>4. proc'[p].next <= Release[p] + 1
    BY <2>1, <2>2
  <2>. QED
    BY <1>0, <1>1, <1>2, <2>1, <2>2, <2>3, <2>4
<1>6. CASE TakeFile(p)
  BY <1>0, <1>1, <1>2, <1>6 DEF TakeFile, AtFile
<1>7. CASE AllFilesDone(p)
  <2>1. proc'[p].at = "migrated" /\ proc[p].at = "file" /\ proc[p].next = Release[p] + 1
    BY <1>1, <1>7 DEF AllFilesDone, Goes, Plain
  <2>2. \A f \in Known(p) : f \in Files /\ f < proc[p].next
    BY <2>1
  <2>. QED
    BY <1>0, <1>1, <1>2, <2>1, <2>2
<1>8. CASE Finish(p)
  <2>1. proc[p].at \in {"migrated", "create"} /\ proc'[p].at \in {"create", "serving", "down"}
    BY <1>8 DEF Finish, CountUsers, CreateAdmin, Goes, Plain
  <2>2. proc'[p].at = "serving" => hasUser'
    BY <1>8 DEF Finish, CountUsers, CreateAdmin, Goes, Plain
  <2>. QED
    BY <1>0, <1>1, <1>2, <2>1, <2>2
<1>. QED
  BY <1>3, <1>4, <1>5, <1>6, <1>7, <1>8 DEF ProcStep, Start, RunFiles

\* What a process found stays found, and the dump that covers it is not taken away.
LEMMA JustifiedStep ==
    ASSUME IInv, NEW p \in Procs, ProcStep(p)
    PROVE  Justified'
<1>g. RequireBackup(p) => \E reason \in Reasons :
          /\ proc'[p] = Loops(proc[p].seen, reason, 1)
          /\ reason # "none"
          /\ reason = "nothing pending" => Known(p) \subseteq proc[p].seen
          /\ reason = "backup" => BackedUp(p)
  BY GuardPasses DEF IInv
<1>. USE DEF IInv, TypeOK
<1>0. /\ \A q \in Procs : q # p => proc'[q] = proc[q]
      /\ applied \subseteq applied' /\ UNCHANGED <<marker, dumped>>
  BY ProcFrame
<1>. DEFINE Mine ==
        /\ proc[p].at # "down" => proc[p].seen \subseteq applied
        /\ proc[p].at \in {"file", "execute"} =>
            /\ proc[p].reason # "none"
            /\ proc[p].reason = "nothing pending" => Known(p) \subseteq proc[p].seen
            /\ proc[p].reason = "backup" => \E d \in dumped : proc[p].seen \subseteq d
<1>1. Mine
  BY DEF Justified
<1>2. ASSUME Mine' PROVE Justified'
  BY <1>0, <1>2 DEF Justified
<1>3. CASE ReadStatus(p)
  BY <1>0, <1>2, <1>3 DEF ReadStatus
<1>4. CASE RequireBackup(p)
  <2>1. PICK why \in Reasons :
            /\ proc'[p] = Loops(proc[p].seen, why, 1)
            /\ why # "none"
            /\ why = "nothing pending" => Known(p) \subseteq proc[p].seen
            /\ why = "backup" => BackedUp(p)
    BY <1>4, <1>g
  <2>3. BackedUp(p) => \E d \in dumped : proc[p].seen \subseteq d
    BY DEF BackedUp, Saved
  <2>4. proc[p].at # "down"
    BY <1>4 DEF RequireBackup
  <2>5. proc'[p].seen = proc[p].seen /\ proc'[p].reason = why
    <3>1. proc'[p] = Loops(proc[p].seen, why, 1)
      BY <2>1
    <3>. QED
      BY ONLY <3>1 DEF Loops
  <2>6. why = "backup" => \E d \in dumped : proc[p].seen \subseteq d
    BY <2>1, <2>3
  <2>7. proc[p].seen \subseteq applied'
    BY <1>0, <1>1, <2>4
  <2>. QED
    BY <1>0, <1>2, <2>1, <2>5, <2>6, <2>7
<1>5. CASE SkipFile(p) \/ TakeFile(p) \/ CommitFile(p)
  <2>1. /\ proc[p].at \in {"file", "execute"}
        /\ proc'[p].seen = proc[p].seen /\ proc'[p].reason = proc[p].reason
    BY <1>5 DEF SkipFile, TakeFile, CommitFile, AtFile, Loops
  <2>. QED
    BY <1>0, <1>1, <1>2, <2>1
<1>6. CASE BackupRequired(p) \/ FileFails(p) \/ AllFilesDone(p) \/ Finish(p) \/ Crash(p)
  <2>1. proc'[p].seen = {} /\ proc'[p].at \notin {"file", "execute"}
    BY <1>6 DEF BackupRequired, FileFails, AllFilesDone, Finish, CountUsers, CreateAdmin, Crash, Goes, Plain
  <2>. QED
    BY <1>2, <2>1
<1>. QED
  BY <1>3, <1>4, <1>5, <1>6 DEF ProcStep, Start, RunFiles

\* Backups read the past and never take a dump away.
LEMMA BackupStep ==
    ASSUME IInv, BackupReads \/ BackupDumps \/ BackupMarks \/ BackupFails \/ MarkerExpires
    PROVE  IInv'
<1>0. UNCHANGED <<applied, hasTables, hasUser, lock, proc>> /\ dumped \subseteq dumped'
  BY DEF BackupReads, BackupDumps, BackupMarks, BackupFails, MarkerExpires
<1>1. Prefix' /\ Locked' /\ Behind' /\ Justified'
  BY <1>0 DEF IInv, Prefix, Locked, Behind, Justified
<1>. USE DEF IInv, TypeOK, Saved
<1>2. CASE BackupReads
  BY <1>0, <1>1, <1>2 DEF BackupReads, NoBackup
<1>3. CASE BackupDumps
  BY <1>0, <1>1, <1>3 DEF BackupDumps
<1>4. CASE BackupMarks
  BY <1>0, <1>1, <1>4 DEF BackupMarks, NoBackup
<1>5. CASE BackupFails
  BY <1>0, <1>1, <1>5 DEF BackupFails, NoBackup
<1>6. CASE MarkerExpires
  BY <1>0, <1>1, <1>6 DEF MarkerExpires
<1>. QED
  BY <1>2, <1>3, <1>4, <1>5, <1>6

\* The invariant holds in every reachable state.
THEOREM MigrateInvariance == Spec => []IInv
<1>1. IInv /\ [Next]_vars => IInv'
  <2>. SUFFICES ASSUME IInv, [Next]_vars PROVE IInv'
    OBVIOUS
  <2>1. ASSUME NEW p \in Procs, ProcStep(p) PROVE IInv'
    <3>1. TypeOK'
      BY <2>1, ProcTypes DEF IInv, ProcStep
    <3>2. Saved'
      BY <2>1, ProcFrame DEF IInv, Saved
    <3>. QED
      BY <2>1, <3>1, <3>2, PrefixStep, LockStep, BehindStep, JustifiedStep DEF IInv
  <2>2. CASE UNCHANGED vars
    BY <2>2 DEF vars, IInv, TypeOK, Prefix, Locked, Behind, Saved, Justified
  <2>. QED
    BY <2>1, <2>2, BackupStep DEF Next, ProcStep
<1>. QED
  BY InitIInv, <1>1, PTL DEF Spec

\* Types hold in every reachable state.
THEOREM MigrateTypes == Spec => []TypeOK
BY MigrateInvariance, PTL DEF IInv

\* A file runs on exactly the schema it was written for, whatever processes and releases start at once.
THEOREM OwnSchema == Spec => []OnItsOwnSchema
<1>1. IInv => OnItsOwnSchema
  <2>. SUFFICES ASSUME IInv, NEW p \in Procs, proc[p].at = "execute"
                PROVE  applied = {f \in Files : f < proc[p].next}
    BY DEF OnItsOwnSchema
  <2>1. proc[p].next \in Files /\ proc[p].next \notin applied
    BY MigrateAssumption DEF IInv, Locked, Known, Files
  <2>2. \A f \in applied : f < proc[p].next
    BY <2>1 DEF IInv, Prefix, TypeOK, Files
  <2>3. \A f \in Files : f < proc[p].next => f \in applied
    BY DEF IInv, Behind
  <2>. QED
    BY <2>2, <2>3 DEF IInv, TypeOK
<1>. QED
  BY MigrateInvariance, <1>1, PTL

\* A file that runs over data has a dump that lacks nothing but this file and later ones.
THEOREM Dumped == Spec => []DumpBeforeChange
<1>1. IInv => DumpBeforeChange
  <2>. SUFFICES ASSUME IInv, NEW p \in Procs, proc[p].at = "execute",
                       proc[p].reason \notin {"fresh install", "waived"}
                PROVE  \E d \in dumped : proc[p].seen \subseteq d /\ proc[p].next \notin d
    BY DEF DumpBeforeChange
  <2>1. proc[p].next \in Known(p) /\ proc[p].next \notin applied
    BY DEF IInv, Locked
  <2>2. proc[p].reason = "backup"
    BY <2>1 DEF IInv, Justified, TypeOK, Reasons
  <2>. QED
    BY <2>1, <2>2 DEF IInv, Justified, Saved
<1>. QED
  BY MigrateInvariance, <1>1, PTL

\* A process that serves has every file of its release and an account.
THEOREM Serves == Spec => []ServesComplete
<1>1. IInv => ServesComplete
  BY DEF IInv, Behind, ServesComplete
<1>. QED
  BY MigrateInvariance, <1>1, PTL
-----------------------------------------------------------------------------
(* The abstract specification.                                             *)

\* Without gaps, a file that is not applied while all before it are is the one after the last.
LEMMA AfterTheLast ==
    ASSUME IInv, NEW n \in Files, n \notin applied, \A f \in Files : f < n => f \in applied
    PROVE  applied = 1..(n - 1) /\ applied \union {n} = 1..n
<1>1. Latest \in Nat /\ applied \subseteq Files
  BY MigrateAssumption DEF IInv, TypeOK
<1>2. \A f \in applied : f < n
  <2>. SUFFICES ASSUME NEW f \in applied, ~(f < n) PROVE FALSE
    OBVIOUS
  <2>1. n \in Nat /\ f \in Nat /\ f # n
    BY <1>1 DEF Files
  <2>2. n < f
    BY <2>1
  <2>. QED
    BY <1>1, <2>2 DEF IInv, Prefix
<1>3. n \in 1..Latest
  BY DEF Files
<1>4. \A f \in applied : f \in 1..(n - 1)
  BY <1>1, <1>2, <1>3 DEF Files
<1>5. \A f \in 1..(n - 1) : f \in applied
  <2>. SUFFICES ASSUME NEW f \in 1..(n - 1) PROVE f \in applied
    OBVIOUS
  <2>1. f \in Files /\ f < n
    BY <1>1, <1>3 DEF Files
  <2>. QED
    BY <2>1
<1>6. 1..(n - 1) \union {n} = 1..n
  BY <1>1, <1>3
<1>. QED
  BY <1>4, <1>5, <1>6

\* The file that a process runs, or is about to run.
LEMMA NextFile ==
    ASSUME IInv, NEW p \in Procs, proc[p].at = "execute" \/ (AtFile(p) /\ ~AlreadyApplied(p))
    PROVE  /\ proc[p].next \in 1..Release[p]
           /\ applied = 1..(proc[p].next - 1)
           /\ applied \union {proc[p].next} = 1..proc[p].next
<1>1. /\ proc[p].next \in 1..Release[p] /\ proc[p].next \notin applied
      /\ \A f \in Files : f < proc[p].next => f \in applied
  BY DEF IInv, Locked, Behind, Known, AtFile, AlreadyApplied
<1>2. proc[p].next \in Files
  BY <1>1, MigrateAssumption DEF Files
<1>. QED
  BY <1>1, <1>2, AfterTheLast

\* The part of the state SchemaHistory sees changes only in these ways.
LEMMA HistoryStep ==
    ASSUME IInv, [Next]_vars
    PROVE  [History!Next]_(History!vars)
<1>. DEFINE Up == {q \in Procs : proc[q].at = "serving"}
<1>1. ASSUME applied' = applied, lock' = lock, Up' = Up, hasUser' = hasUser
      PROVE  [History!Next]_(History!vars)
  BY <1>1 DEF History!vars
<1>2. ASSUME NEW p \in Procs, ProcStep(p), lock' = lock, applied' = applied, hasUser' = hasUser, proc'[p].at # "serving"
      PROVE  [History!Next]_(History!vars)
  <2>1. Up' = Up \ {p}
    BY <1>2, ProcFrame DEF IInv
  <2>2. History!Stop(p)
    BY <1>2, <2>1 DEF History!Stop
  <2>. QED
    BY <1>2, <2>2 DEF History!Next
<1>3. ASSUME NEW p \in Procs, TakeFile(p)
      PROVE  [History!Next]_(History!vars)
  <2>1. proc[p].at = "file" /\ lock = Nobody /\ lock' = p /\ applied' = applied /\ hasUser' = hasUser
    BY <1>3 DEF TakeFile, AtFile
  <2>2. proc'[p].at = "execute" /\ proc'[p].next = proc[p].next /\ \A q \in Procs : q # p => proc'[q] = proc[q]
    BY <1>3 DEF TakeFile, IInv, TypeOK
  <2>3. Up' = Up
    BY <2>1, <2>2
  <2>4. \E f \in 1..Release[p] : applied = 1..(f - 1)
    BY <1>3, NextFile DEF TakeFile
  <2>5. p \notin Up
    BY <2>1
  <2>6. History!Begin(p)
    BY <2>1, <2>3, <2>4, <2>5 DEF History!Begin
  <2>. QED
    BY <2>1, <2>6 DEF History!Next
<1>4. ASSUME NEW p \in Procs, CommitFile(p)
      PROVE  [History!Next]_(History!vars)
  <2>1. /\ proc[p].at = "execute" /\ applied' = applied \union {proc[p].next} /\ lock' = Nobody /\ hasUser' = hasUser
        /\ lock = p
    BY <1>4 DEF CommitFile, IInv, Locked
  <2>2. proc'[p].at = "file" /\ \A q \in Procs : q # p => proc'[q] = proc[q]
    BY <1>4 DEF CommitFile, Loops, IInv, TypeOK
  <2>3. Up' = Up
    BY <2>1, <2>2
  <2>4. \E f \in 1..Release[lock] : applied = 1..(f - 1) /\ applied' = 1..f
    BY <2>1, NextFile
  <2>5. lock # Nobody
    BY <2>1, MigrateAssumption
  <2>6. History!Complete
    BY <2>1, <2>3, <2>4, <2>5 DEF History!Complete
  <2>. QED
    BY <2>6 DEF History!Next
<1>5. ASSUME NEW p \in Procs, FileFails(p) \/ (Crash(p) /\ lock = p)
      PROVE  [History!Next]_(History!vars)
  <2>1. proc[p].at = "execute" /\ lock = p /\ lock' = Nobody /\ applied' = applied /\ hasUser' = hasUser
    BY <1>5 DEF FileFails, Crash, Released, IInv, Locked
  <2>2. proc'[p].at = "down" /\ \A q \in Procs : q # p => proc'[q] = proc[q]
    BY <1>5 DEF FileFails, Crash, Goes, Plain, IInv, TypeOK
  <2>3. Up' = Up
    BY <2>1, <2>2
  <2>4. lock # Nobody
    BY <2>1, MigrateAssumption
  <2>5. History!Fail
    BY <2>1, <2>3, <2>4 DEF History!Fail
  <2>. QED
    BY <2>1, <2>5 DEF History!Next
<1>6. ASSUME NEW p \in Procs, Finish(p), proc'[p].at = "serving"
      PROVE  [History!Next]_(History!vars)
  <2>1. proc[p].at \in {"migrated", "create"} /\ lock' = lock /\ applied' = applied /\ hasUser' = TRUE
    BY <1>6 DEF Finish, CountUsers, CreateAdmin, Goes, Plain, IInv, TypeOK
  <2>2. \A q \in Procs : q # p => proc'[q] = proc[q]
    BY <1>6, ProcFrame DEF IInv, ProcStep
  <2>3. Up' = Up \union {p}
    BY <1>6, <2>2
  <2>4. p # lock
    BY <2>1 DEF IInv, Locked
  <2>5. 1..Release[p] \subseteq applied
    BY <2>1 DEF IInv, Behind, Known
  <2>6. History!Serve(p)
    BY <2>1, <2>3, <2>4, <2>5 DEF History!Serve
  <2>. QED
    BY <2>1, <2>6 DEF History!Next
<1>7. ASSUME NEW p \in Procs, Finish(p), proc'[p].at # "serving"
      PROVE  [History!Next]_(History!vars)
  <2>1. lock' = lock /\ applied' = applied
    BY <1>7 DEF Finish, CountUsers, CreateAdmin
  <2>2. CreateAdmin(p) => hasUser /\ hasUser'
    BY <1>7 DEF CreateAdmin, Goes, Plain, IInv, TypeOK
  <2>3. hasUser \in BOOLEAN /\ (CountUsers(p) => hasUser' = hasUser) /\ (CreateAdmin(p) => hasUser' = TRUE)
    BY DEF CountUsers, CreateAdmin, IInv, TypeOK
  <2>4. hasUser' = hasUser
    BY <1>7, <2>2, <2>3, Zenon DEF Finish
  <2>. QED
    BY <1>2, <1>7, <2>1, <2>4 DEF ProcStep
<1>8. ASSUME NEW p \in Procs, Start(p) \/ SkipFile(p) \/ AllFilesDone(p) \/ (Crash(p) /\ lock # p)
      PROVE  [History!Next]_(History!vars)
  <2>1. lock' = lock /\ applied' = applied /\ hasUser' = hasUser
    BY <1>8 DEF Start, ReadStatus, RequireBackup, BackupRequired, SkipFile, AllFilesDone, Crash, Released
  <2>2. RequireBackup(p) => proc'[p].at # "serving"
    BY InTheLoop DEF IInv
  <2>3. proc'[p].at # "serving"
    BY <1>8, <2>2 DEF Start, ReadStatus, BackupRequired, SkipFile, AllFilesDone, Crash, Goes, Plain, Loops, IInv, TypeOK
  <2>. QED
    BY <1>2, <1>8, <2>1, <2>3 DEF ProcStep, RunFiles
<1>9. CASE BackupReads \/ BackupDumps \/ BackupMarks \/ BackupFails \/ MarkerExpires \/ UNCHANGED vars
  <2>1. applied' = applied /\ lock' = lock /\ hasUser' = hasUser /\ proc' = proc
    BY <1>9 DEF BackupReads, BackupDumps, BackupMarks, BackupFails, MarkerExpires, vars
  <2>. QED
    BY <1>1, <2>1
<1>10. CASE \E p \in Procs : ProcStep(p)
  <2>1. PICK p \in Procs : ProcStep(p)
    BY <1>10
  <2>. HIDE DEF Up
  <2>. QED
    BY <1>3, <1>4, <1>5, <1>6, <1>7, <1>8, <2>1 DEF ProcStep, RunFiles
<1>. QED
  BY <1>9, <1>10 DEF Next, ProcStep

\* However many processes of whatever releases start, fail and crash, the schema has the history SchemaHistory allows.
THEOREM OneHistory == Spec => KeepsHistory
<1>1. Init => History!Init
  BY DEF Init, History!Init, Plain
<1>. QED
  BY <1>1, HistoryStep, MigrateInvariance, PTL DEF Spec, KeepsHistory, History!Spec

-----------------------------------------------------------------------------
(* Start-ups are bounded.                                                  *)

\* How far a start-up is: a number that no release exceeds by much.
Progress(q) ==
    CASE q.at = "guard" -> 0
      [] q.at = "file" -> 2 * q.next - 1
      [] q.at = "execute" -> 2 * q.next
      [] q.at = "migrated" -> 2 * Latest + 2
      [] q.at = "create" -> 2 * Latest + 3

\* Every step of a process that starts ends the start-up or brings it nearer to its end, of which it is at most so many
\* steps away: no start-up goes round in circles, whatever the other processes do to the database meanwhile.
StartupAdvances ==
    [][\A p \in Procs :
          (proc[p].at \notin {"down", "serving"} /\ proc'[p] # proc[p]) =>
              \/ proc'[p].at \in {"down", "serving"}
              \/ Progress(proc[p]) < Progress(proc'[p]) /\ Progress(proc'[p]) <= 2 * Latest + 3]_proc

\* What each phase counts.
LEMMA ProgressAt ==
    ASSUME NEW q
    PROVE  /\ q.at = "guard" => Progress(q) = 0
           /\ q.at = "file" => Progress(q) = 2 * q.next - 1
           /\ q.at = "execute" => Progress(q) = 2 * q.next
           /\ q.at = "migrated" => Progress(q) = 2 * Latest + 2
           /\ q.at = "create" => Progress(q) = 2 * Latest + 3
BY DEF Progress

\* One step of a process that starts.
LEMMA AdvanceStep ==
    ASSUME IInv, NEW p \in Procs, ProcStep(p), proc[p].at \notin {"down", "serving"},
           proc'[p].at \notin {"down", "serving"}
    PROVE  Progress(proc[p]) < Progress(proc'[p]) /\ Progress(proc'[p]) <= 2 * Latest + 3
<1>1. /\ proc[p].next \in Nat /\ Release[p] \in 1..Latest /\ Latest \in Nat
      /\ proc[p].at \in {"file", "execute"} => proc[p].next <= Release[p] + 1
  BY MigrateAssumption DEF IInv, TypeOK, Behind
<1>2. CASE RequireBackup(p)
  <2>1. proc[p].at = "guard" /\ proc'[p].at = "file" /\ proc'[p].next = 1
    BY <1>2, InTheLoop DEF RequireBackup, IInv
  <2>. QED
    BY <1>1, <2>1, ProgressAt
<1>3. CASE SkipFile(p) \/ CommitFile(p)
  <2>1. /\ proc[p].at \in {"file", "execute"} /\ proc'[p].at = "file" /\ proc'[p].next = proc[p].next + 1
        /\ proc[p].next \in 1..Release[p]
    BY <1>3 DEF SkipFile, AtFile, CommitFile, Loops, IInv, TypeOK, Locked, Known
  <2>2. /\ Progress(proc'[p]) = 2 * (proc[p].next + 1) - 1
        /\ Progress(proc[p]) = 2 * proc[p].next - 1 \/ Progress(proc[p]) = 2 * proc[p].next
    BY <1>1, <2>1, ProgressAt
  <2>. QED
    BY <1>1, <2>1, <2>2
<1>4. CASE TakeFile(p)
  <2>1. /\ proc[p].at = "file" /\ proc'[p].at = "execute" /\ proc'[p].next = proc[p].next
        /\ proc[p].next \in 1..Release[p]
    BY <1>4 DEF TakeFile, AtFile, IInv, TypeOK, Known
  <2>2. Progress(proc[p]) = 2 * proc[p].next - 1 /\ Progress(proc'[p]) = 2 * proc[p].next
    BY <2>1, ProgressAt
  <2>. QED
    BY <1>1, <2>1, <2>2
<1>5. CASE AllFilesDone(p)
  <2>1. proc[p].at = "file" /\ proc'[p].at = "migrated"
    BY <1>5 DEF AllFilesDone, Goes, Plain, IInv, TypeOK
  <2>2. Progress(proc[p]) = 2 * proc[p].next - 1 /\ Progress(proc'[p]) = 2 * Latest + 2
    BY <2>1, ProgressAt
  <2>3. proc[p].next <= Latest + 1
    BY <1>1, <2>1
  <2>. QED
    BY <1>1, <2>2, <2>3
<1>6. CASE Finish(p)
  <2>1. proc[p].at = "migrated" /\ proc'[p].at = "create"
    BY <1>6 DEF Finish, CountUsers, CreateAdmin, Goes, Plain, IInv, TypeOK
  <2>. QED
    BY <1>1, <2>1, ProgressAt
<1>7. ~ReadStatus(p) /\ ~BackupRequired(p) /\ ~FileFails(p) /\ ~Crash(p)
  BY DEF ReadStatus, BackupRequired, FileFails, Crash, Goes, Plain, IInv, TypeOK
<1>. QED
  BY <1>2, <1>3, <1>4, <1>5, <1>6, <1>7 DEF ProcStep, Start, RunFiles

\* No start-up takes more than 2 * Latest + 5 steps of its own.
THEOREM BoundedStartup == Spec => StartupAdvances
<1>1. ASSUME IInv, [Next]_vars, NEW p \in Procs, proc[p].at \notin {"down", "serving"}, proc'[p] # proc[p]
      PROVE  \/ proc'[p].at \in {"down", "serving"}
             \/ Progress(proc[p]) < Progress(proc'[p]) /\ Progress(proc'[p]) <= 2 * Latest + 3
  <2>1. ~UNCHANGED proc
    BY <1>1
  <2>2. PICK q \in Procs : ProcStep(q)
    BY <1>1, <2>1 DEF Next, ProcStep, BackupReads, BackupDumps, BackupMarks, BackupFails, MarkerExpires, vars
  <2>3. q = p
    BY <1>1, <2>2, ProcFrame DEF IInv
  <2>. QED
    BY <1>1, <2>2, <2>3, AdvanceStep
<1>2. IInv /\ [Next]_vars =>
        [\A p \in Procs :
          (proc[p].at \notin {"down", "serving"} /\ proc'[p] # proc[p]) =>
              \/ proc'[p].at \in {"down", "serving"}
              \/ Progress(proc[p]) < Progress(proc'[p]) /\ Progress(proc'[p]) <= 2 * Latest + 3]_proc
  BY <1>1
<1>. QED
  BY <1>2, MigrateInvariance, PTL DEF Spec, StartupAdvances

=============================================================================
