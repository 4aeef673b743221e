------------------------------ MODULE Migrate ------------------------------
(***************************************************************************)
(* Start-up of backend processes that share one database: the migration    *)
(* runner (backend/db/migrate.py), the part of main.py's lifespan that     *)
(* waits for it, and the backup script that writes the marker the runner   *)
(* asks for (scripts/backup.sh).                                           *)
(*                                                                         *)
(* Migration files are numbered from 1; a release of the app carries a     *)
(* prefix of them.  A process that dies at any point loses its connection, *)
(* and with it the open transaction and the advisory lock.                 *)
(***************************************************************************)
EXTENDS Naturals

CONSTANTS
    Procs,    \* backend processes
    Latest,   \* number of the last migration file of any release
    Release   \* the last file each process carries

Nobody == "nobody"

ASSUME MigrateAssumption == Latest \in Nat /\ Release \in [Procs -> 1..Latest] /\ Nobody \notin Procs

VARIABLES
    applied,    \* the versions in schema_migrations
    hasTables,  \* the database has user tables
    hasUser,    \* the users table has a row
    lock,       \* holder of pg_advisory_xact_lock(LOCK_KEY)
    proc,       \* per process: where it is, the applied versions status() read, why it may migrate, the next file
    backup,     \* the backup script under way: what it read and what its dump holds
    marker,     \* last-backup.json: of this database?  good: its dump is intact and less than 24 h old
    dumped      \* the applied versions in every complete dump made (history)

vars == <<applied, hasTables, hasUser, lock, proc, backup, marker, dumped>>

Files == 1..Latest
Known(p) == 1..Release[p]

\* "file": between two files of the loop; "execute": inside the transaction of the next one.
Phases == {"down", "guard", "file", "execute", "migrated", "create", "serving"}
Reasons == {"none", "nothing pending", "fresh install", "waived", "backup"}

NoMarker == [applied |-> {}, here |-> FALSE, good |-> FALSE]
NoBackup == [at |-> "idle", applied |-> {}, contents |-> {}]

\* A process that is not inside migrate(), whose local variables are gone.
Plain(phase) == [at |-> phase, seen |-> {}, reason |-> "none", next |-> 1]

\* In the loop over the files, about to look at the next one.
Loops(seen, reason, next) == [at |-> "file", seen |-> seen, reason |-> reason, next |-> next]

\* Any database that earlier releases left, an empty one, one older than schema_migrations, and a marker that
\* may have been copied from another server.
Init ==
    /\ applied \in {1..n : n \in 0..Latest}
    /\ hasTables \in {b \in BOOLEAN : applied # {} => b}
    /\ hasUser \in {b \in BOOLEAN : b => hasTables}
    /\ lock = Nobody
    /\ proc = [p \in Procs |-> Plain("down")]
    /\ backup = NoBackup
    /\ marker \in {NoMarker, [applied |-> applied, here |-> FALSE, good |-> TRUE]}
    /\ dumped = {}

Goes(p, phase) == proc' = [proc EXCEPT ![p] = Plain(phase)]

-----------------------------------------------------------------------------
(* migrate().                                                              *)

\* status(): refuses a database with a version this release does not know.
ReadStatus(p) ==
    /\ proc[p].at = "down"
    /\ applied \subseteq Known(p)
    /\ proc' = [proc EXCEPT ![p] = [at |-> "guard", seen |-> applied, reason |-> "none", next |-> 1]]
    /\ UNCHANGED <<applied, hasTables, hasUser, lock, backup, marker, dumped>>

\* Mutant of BackedUp: any recent dump of this database will do.
BackedUpOnce(p) == marker.here /\ marker.good

\* The marker shows an intact, recent backup of this database with the versions status() read.
BackedUp(p) == marker.here /\ marker.good /\ marker.applied = proc[p].seen

\* _require_backup(), with what status() read earlier.
RequireBackup(p) ==
    /\ proc[p].at = "guard"
    /\ \E reason \in Reasons :
        /\ \/ reason = "nothing pending" /\ Known(p) \subseteq proc[p].seen
           \/ reason = "fresh install" /\ ~hasTables
           \/ reason = "waived"
           \/ reason = "backup" /\ BackedUp(p)
        /\ proc' = [proc EXCEPT ![p] = Loops(@.seen, reason, 1)]
    /\ UNCHANGED <<applied, hasTables, hasUser, lock, backup, marker, dumped>>

BackupRequired(p) ==
    /\ proc[p].at = "guard"
    /\ hasTables /\ ~BackedUp(p) /\ ~(Known(p) \subseteq proc[p].seen)
    /\ Goes(p, "down")
    /\ UNCHANGED <<applied, hasTables, hasUser, lock, backup, marker, dumped>>

\* Mutant of AtFile: the loop runs one file too far.
AtFileBeyond(p) == proc[p].at = "file" /\ proc[p].next <= Release[p] + 1

\* In the loop over the files this release carries.
AtFile(p) == proc[p].at = "file" /\ proc[p].next \in Known(p)

\* Mutant of AlreadyApplied: the recheck under the lock is left out; what status() read decides.
AlreadySeen(p) == proc[p].next \in proc[p].seen

\* The recheck under the lock.
AlreadyApplied(p) == proc[p].next \in applied

\* A file another process applied meanwhile: the transaction ends without a change.
SkipFile(p) ==
    /\ AtFile(p) /\ lock = Nobody /\ AlreadyApplied(p)
    /\ proc' = [proc EXCEPT ![p] = Loops(@.seen, @.reason, @.next + 1)]
    /\ UNCHANGED <<applied, hasTables, hasUser, lock, backup, marker, dumped>>

\* The file's transaction begins: lock, recheck, lock_timeout, and its SQL starts to run.
TakeFile(p) ==
    /\ AtFile(p) /\ lock = Nobody /\ ~AlreadyApplied(p)
    /\ lock' = p
    /\ proc' = [proc EXCEPT ![p].at = "execute"]
    /\ UNCHANGED <<applied, hasTables, hasUser, backup, marker, dumped>>

\* The SQL and its row in schema_migrations commit together, and the lock goes with the transaction.
CommitFile(p) ==
    /\ proc[p].at = "execute"
    /\ applied' = applied \union {proc[p].next}
    /\ hasTables' = TRUE
    /\ lock' = Nobody
    /\ proc' = [proc EXCEPT ![p] = Loops(@.seen, @.reason, @.next + 1)]
    /\ UNCHANGED <<hasUser, backup, marker, dumped>>

\* Mutant of FileFails: a failing file is logged and the loop goes on with the next one.
FileFailsOnly(p) ==
    /\ proc[p].at = "execute"
    /\ lock' = Nobody
    /\ proc' = [proc EXCEPT ![p] = Loops(@.seen, @.reason, @.next + 1)]
    /\ UNCHANGED <<applied, hasTables, hasUser, backup, marker, dumped>>

\* The file fails or does not get a table lock in time: rolled back, and the start-up ends.
FileFails(p) ==
    /\ proc[p].at = "execute"
    /\ lock' = Nobody
    /\ Goes(p, "down")
    /\ UNCHANGED <<applied, hasTables, hasUser, backup, marker, dumped>>

AllFilesDone(p) ==
    /\ proc[p].at = "file" /\ proc[p].next \notin Known(p)
    /\ Goes(p, "migrated")
    /\ UNCHANGED <<applied, hasTables, hasUser, lock, backup, marker, dumped>>

-----------------------------------------------------------------------------
(* The rest of lifespan().                                                 *)

\* _ensure_default_admin(): the count ...
CountUsers(p) ==
    /\ proc[p].at = "migrated"
    /\ \/ hasUser /\ Goes(p, "serving")
       \/ ~hasUser /\ Goes(p, "create")
    /\ UNCHANGED <<applied, hasTables, hasUser, lock, backup, marker, dumped>>

\* ... and the insert, which fails the start-up when another process has created "admin" since.
CreateAdmin(p) ==
    /\ proc[p].at = "create"
    /\ \/ hasUser /\ Goes(p, "down")
       \/ ~hasUser /\ Goes(p, "serving")
    /\ hasUser' = TRUE
    /\ UNCHANGED <<applied, hasTables, lock, backup, marker, dumped>>

\* Mutant of Released: the lock belongs to the session and outlives the transaction that failed.
Kept(p) == lock

\* What remains of the lock when the connection of p is gone.
Released(p) == IF lock = p THEN Nobody ELSE lock

\* The process stops or is killed.
Crash(p) ==
    /\ proc[p].at # "down"
    /\ lock' = Released(p)
    /\ Goes(p, "down")
    /\ UNCHANGED <<applied, hasTables, hasUser, backup, marker, dumped>>

-----------------------------------------------------------------------------
(* backup.sh, run by start.sh when files are pending, or by hand.          *)

\* The versions, read before the dump is taken.
BackupReads ==
    /\ backup.at = "idle"
    /\ backup' = [NoBackup EXCEPT !.at = "read", !.applied = applied]
    /\ UNCHANGED <<applied, hasTables, hasUser, lock, proc, marker, dumped>>

\* pg_dump, validated and renamed: from here on the dump exists.
BackupDumps ==
    /\ backup.at = "read"
    /\ backup' = [backup EXCEPT !.at = "dumped", !.contents = applied]
    /\ dumped' = dumped \union {applied}
    /\ UNCHANGED <<applied, hasTables, hasUser, lock, proc, marker>>

\* The marker is replaced last.
BackupMarks ==
    /\ backup.at = "dumped"
    /\ marker' = [applied |-> backup.applied, here |-> TRUE, good |-> TRUE]
    /\ backup' = NoBackup
    /\ UNCHANGED <<applied, hasTables, hasUser, lock, proc, dumped>>

BackupFails ==
    /\ backup.at # "idle"
    /\ backup' = NoBackup
    /\ UNCHANGED <<applied, hasTables, hasUser, lock, proc, marker, dumped>>

\* A day passes, or the dump is moved away or damaged.
MarkerExpires ==
    /\ marker.good
    /\ marker' = [marker EXCEPT !.good = FALSE]
    /\ UNCHANGED <<applied, hasTables, hasUser, lock, proc, backup, dumped>>
-----------------------------------------------------------------------------
Start(p) == ReadStatus(p) \/ RequireBackup(p) \/ BackupRequired(p)
RunFiles(p) == SkipFile(p) \/ TakeFile(p) \/ CommitFile(p) \/ FileFails(p) \/ AllFilesDone(p)
Finish(p) == CountUsers(p) \/ CreateAdmin(p)

Next ==
    \/ \E p \in Procs : Start(p) \/ RunFiles(p) \/ Finish(p) \/ Crash(p)
    \/ BackupReads \/ BackupDumps \/ BackupMarks \/ BackupFails \/ MarkerExpires

Spec == Init /\ [][Next]_vars

\* A process that runs keeps running: statements return, and PostgreSQL serves the waiters of an advisory lock in
\* the order they came, so a process that asks again and again does not keep another from it.
Fairness ==
    \A p \in Procs :
        /\ WF_vars(RequireBackup(p) \/ BackupRequired(p) \/ AllFilesDone(p) \/ Finish(p))
        /\ WF_vars(CommitFile(p) \/ FileFails(p))
        /\ SF_vars(SkipFile(p) \/ TakeFile(p))

LiveSpec == Spec /\ Fairness

-----------------------------------------------------------------------------
(* Properties.                                                             *)

\* Types.
TypeOK ==
    /\ applied \subseteq Files /\ hasTables \in BOOLEAN /\ hasUser \in BOOLEAN
    /\ lock \in Procs \union {Nobody}
    /\ proc \in [Procs -> [at: Phases, seen: SUBSET Files, reason: Reasons, next: 1..(Latest + 1)]]
    /\ backup \in [at: {"idle", "read", "dumped"}, applied: SUBSET Files, contents: SUBSET Files]
    /\ marker \in [applied: SUBSET Files, here: BOOLEAN, good: BOOLEAN]
    /\ dumped \subseteq SUBSET Files

\* However many processes of whatever releases start at once, crash and start again, the SQL of a file runs on
\* exactly the schema it was written for: all files before it are applied, and neither it nor a later one is.
OnItsOwnSchema ==
    \A p \in Procs : proc[p].at = "execute" => applied = {f \in Files : f < proc[p].next}

\* A file runs over existing data, unless the operator waived it or the database was empty when the runner looked,
\* only while a complete dump exists that holds every version the runner found, and not yet this file.
DumpBeforeChange ==
    \A p \in Procs :
        proc[p].at = "execute" =>
            \/ proc[p].reason \in {"fresh install", "waived"}
            \/ \E d \in dumped : proc[p].seen \subseteq d /\ proc[p].next \notin d

\* No process serves before every file of its release is applied and somebody can log in.
ServesComplete ==
    \A p \in Procs : proc[p].at = "serving" => Known(p) \subseteq applied /\ hasUser

\* A start-up ends: the process serves or is down again; nobody waits for the lock for ever.
StartupEnds ==
    \A p \in Procs : proc[p].at = "guard" ~> proc[p].at \in {"serving", "down"}

History == INSTANCE SchemaHistory
    WITH schema <- applied, runner <- lock, up <- {p \in Procs : proc[p].at = "serving"}, account <- hasUser

\* "Two backend processes starting at once apply every file exactly once" (migrate.py:5-7), and more: whatever processes
\* of whatever releases start, fail and crash, one at a time moves the schema, by one file, towards its release and
\* never back; and a process begins to serve only when the schema has reached its release and there is an account.
KeepsHistory == History!Spec

-----------------------------------------------------------------------------
(* The inductive invariant behind them.                                    *)

\* No gaps: a version is recorded only after all before it.
Prefix == \A f \in applied : \A g \in Files : g < f => g \in applied

\* The lock is held exactly by the process that runs a file, which is not applied and belongs to its release.
Locked == \A p \in Procs :
    /\ lock = p <=> proc[p].at = "execute"
    /\ proc[p].at = "execute" => proc[p].next \in Known(p) /\ proc[p].next \notin applied

\* What the loop has behind it is applied.
Behind == \A p \in Procs :
    /\ proc[p].at \in {"file", "execute"} => \A f \in Files : f < proc[p].next => f \in applied
    /\ proc[p].at \in {"file", "execute"} => proc[p].next <= Release[p] + 1
    /\ proc[p].at \in {"migrated", "create", "serving"} => Known(p) \subseteq applied
    /\ proc[p].at = "serving" => hasUser

\* Dumps and notes are of the past; a marker that counts names a dump that holds what it says.
Saved ==
    /\ \A d \in dumped : d \subseteq applied
    /\ backup.at # "idle" => backup.applied \subseteq applied
    /\ backup.at = "dumped" => backup.contents \in dumped /\ backup.applied \subseteq backup.contents
    /\ marker.here => \E d \in dumped : marker.applied \subseteq d

\* Why a process may run files.
Justified == \A p \in Procs :
    /\ proc[p].at # "down" => proc[p].seen \subseteq applied
    /\ proc[p].at \in {"file", "execute"} =>
        /\ proc[p].reason # "none"
        /\ proc[p].reason = "nothing pending" => Known(p) \subseteq proc[p].seen
        /\ proc[p].reason = "backup" => \E d \in dumped : proc[p].seen \subseteq d

IInv == TypeOK /\ Prefix /\ Locked /\ Behind /\ Saved /\ Justified
=============================================================================
