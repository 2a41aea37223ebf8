------------------------ MODULE RocksDBBackupEngine ------------------------
(***************************************************************************)
(* A backup engine (RocksDBBackupEngine.mm) and checkpoints                *)
(* (RocksDBCheckpoint.mm) of a database that is being written to.  A call  *)
(* of the engine takes several steps: writes may come between them, the    *)
(* process may stop between them, and any of them may fail.                *)
(*                                                                         *)
(* Every method reports failure in the same way: it fills the error it is  *)
(* handed, if that is there and empty, and only then returns NO.           *)
(*                                                                         *)
(* Writes are numbered; a backup is the set of writes it contains.         *)
(***************************************************************************)
EXTENDS Naturals, Sequences, FiniteSets

CONSTANTS
  Operation,     \* the operations the application uses
  ErrorArgument, \* what it passes as error:
  Path,          \* paths of checkpoints
  Idle,          \* the engine is in no call
  MaxWrites,     \* bounds on the writes ...
  MaxBackups     \* ... and on the ids of backups

ASSUME OperationAssumption ==
  Operation \subseteq {"create", "restore", "delete", "purge", "checkpoint"}
\* No pointer, a pointer to nil, a pointer to an earlier error.
ASSUME ErrorAssumption == ErrorArgument \subseteq {"NULL", "nil", "set"}
ASSUME BoundAssumption == MaxWrites \in Nat /\ MaxBackups \in Nat

VARIABLES
  log,      \* for every write to the database, whether it was logged
  flushed,  \* the memtables are on the disk up to this write
  lost,     \* the writes that crashes took with the memtables
  engine,   \* _backupEngine is open
  backups,  \* the backups of the engine, by id
  latest,   \* the id the engine gave last, or found when it was opened
  garbage,  \* there are files that belong to no backup
  dest,     \* what is in the directory backups are restored to
  checkpoints, \* what is in the directory of every checkpoint
  call,     \* the call in progress
  answer,   \* the last call, and what it returned
  promise   \* the writes the last backup that was answered YES must hold

dbVars     == <<log, flushed, lost>>
engineVars == <<engine, backups, latest, garbage>>
vars == <<dbVars, engineVars, dest, checkpoints, call, answer, promise>>

Writes   == (1..Len(log)) \ lost
BackupId == 1..MaxBackups
Ids      == DOMAIN backups

\* What is in a directory: nothing, some of the files, or a whole database.
Whole(W) == [state |-> "whole", writes |-> W]
Nothing  == [state |-> "empty", writes |-> {}]
Partial  == [state |-> "partial", writes |-> {}]
WriteSet == SUBSET (1..MaxWrites)
Content  == {Nothing, Partial} \cup {Whole(W) : W \in WriteSet}

Call ==
  [op : {"create"}, error : ErrorArgument, flush : BOOLEAN,
   due : WriteSet, content : Content]
  \cup [op : {"restore", "delete"}, error : ErrorArgument, id : BackupId]
  \cup [op : {"purge"}, error : ErrorArgument, keep : 0..MaxBackups]
  \cup [op : {"checkpoint"}, error : ErrorArgument, path : Path,
        due : WriteSet]

ASSUME IdleAssumption == Idle \notin Call \cup [call : Call, yes : BOOLEAN]

TypeOK ==
  /\ log \in Seq(BOOLEAN) /\ Len(log) <= MaxWrites /\ flushed \in 0..Len(log)
  /\ lost \subseteq 1..Len(log)
  /\ engine \in BOOLEAN /\ garbage \in BOOLEAN
  /\ Ids \subseteq 1..latest /\ latest \in 0..MaxBackups
  /\ \A b \in Ids : backups[b] \in Content /\ backups[b].state = "whole"
  /\ dest \in Content
  /\ checkpoints \in [Path -> Content]
  /\ call # Idle => call \in Call
  /\ answer # Idle => answer.call \in Call /\ answer.yes \in BOOLEAN
  /\ promise \subseteq 1..Len(log)

Init ==
  /\ log = <<>> /\ flushed = 0 /\ lost = {}
  /\ engine = FALSE /\ backups = <<>> /\ latest = 0 /\ garbage = FALSE
  /\ dest = Nothing /\ checkpoints = [p \in Path |-> Nothing]
  /\ call = Idle /\ answer = Idle /\ promise = {}

-----------------------------------------------------------------------------
(* The database, in other threads.                                         *)

WriteDb(logged) ==
  /\ Len(log) < MaxWrites
  /\ log' = Append(log, logged)
  /\ UNCHANGED <<flushed, lost, engineVars, dest, checkpoints, call, answer, promise>>

FlushDb ==
  /\ flushed' = Len(log)
  /\ UNCHANGED <<log, lost, engineVars, dest, checkpoints, call, answer, promise>>

\* What a copy of the table files and of the logs holds.
Copy == Whole({i \in Writes : i <= flushed \/ log[i]})

-----------------------------------------------------------------------------
(* Calls.                                                                  *)

LargestOf(S) == IF S = {} THEN 0 ELSE CHOOSE i \in S : \A j \in S : j <= i

InitWithPathAtNothing ==  \* mutant: counts from 0 although there are backups
  /\ ~engine /\ call = Idle
  /\ engine' = TRUE /\ latest' = 0
  /\ UNCHANGED <<dbVars, backups, garbage, dest, checkpoints, call, answer, promise>>

\* RocksDB wants one engine at a time to write to a directory: the application
\* opens none while a call of an earlier one is going on.
InitWithPath ==
  /\ ~engine /\ call = Idle
  /\ engine' = TRUE /\ latest' = LargestOf(Ids)
  /\ UNCHANGED <<dbVars, backups, garbage, dest, checkpoints, call, answer, promise>>

\* -close waits for nobody: a call that is going on in another thread is left
\* with a deleted engine.  It goes on, it fails, or the process stops.
Close ==
  /\ engine
  /\ engine' = FALSE
  /\ UNCHANGED <<dbVars, backups, latest, garbage, dest, checkpoints, call, answer, promise>>

\* A call of an open engine; CallOnClosed is that of one that is not.
Begin(c) ==
  /\ call = Idle /\ c.op \in Operation
  /\ engine \/ c.op = "checkpoint"
  /\ call' = c /\ answer' = Idle

AnswersAlwaysYes(ok, error) == TRUE  \* mutant: forgets to return NO

\* if (!status.ok()) { if (error && *error == nil) { ...; return NO; } }
\* return YES;
Answers(ok, error) == ok \/ error # "nil"

Return(ok) ==
  /\ call' = Idle
  /\ answer' = [call |-> call, yes |-> Answers(ok, call.error)]

\* An I/O error, or nothing to work on; files may be left behind.
Fails(op) ==
  /\ call # Idle /\ call.op = op
  /\ Return(FALSE)
  /\ garbage' \in {garbage, garbage \/ op \in {"create", "delete", "purge"}}
  /\ UNCHANGED <<dbVars, engine, backups, latest>>

-----------------------------------------------------------------------------
(* -createBackupForDatabase:metadata:flushBeforeBackup:error:.             *)

\* Logged and flushed writes are due; a flush makes all of them so.
BeginCreate(flush, error) ==
  /\ latest < MaxBackups
  /\ flushed' = IF flush THEN Len(log) ELSE flushed
  /\ Begin([op |-> "create", error |-> error, flush |-> flush, content |-> Nothing,
            due |-> IF flush THEN Writes ELSE Copy.writes])
  /\ UNCHANGED <<log, lost, engineVars, dest, checkpoints, promise>>

CopyFilesWithoutLogs ==  \* mutant: only the table files are copied
  /\ call # Idle /\ call.op = "create" /\ call.content = Nothing
  /\ call' = [call EXCEPT !.content = Whole(1..flushed)]
  /\ UNCHANGED <<dbVars, engineVars, dest, checkpoints, answer, promise>>

CopyFiles ==
  /\ call # Idle /\ call.op = "create" /\ call.content = Nothing
  /\ call' = [call EXCEPT !.content = Copy]
  /\ UNCHANGED <<dbVars, engineVars, dest, checkpoints, answer, promise>>

\* The file that lists the backup's files is written last.
AddBackup(id) ==
  /\ call # Idle /\ call.op = "create" /\ call.content # Nothing
  /\ backups' = [b \in Ids \cup {id} |-> IF b = id THEN call.content ELSE backups[b]]
  /\ latest' = id
  /\ promise' = call.due
  /\ Return(TRUE)
  /\ UNCHANGED <<dbVars, engine, garbage, dest, checkpoints>>

CreateBackupInPlace ==  \* mutant: the new backup takes the place of the last
  AddBackup(IF latest = 0 THEN 1 ELSE latest)

CreateBackup == AddBackup(latest + 1)

CreateFails ==
  /\ Fails("create")
  /\ promise' = IF answer'.yes THEN call.due ELSE promise
  /\ UNCHANGED <<dest, checkpoints>>

-----------------------------------------------------------------------------
(* The four methods that restore a backup, the latest or by id.            *)

\* The directory is emptied first.
BeginRestore(id, error) ==
  /\ Begin([op |-> "restore", error |-> error, id |-> id])
  /\ dest' = IF id \in Ids THEN Partial ELSE dest
  /\ UNCHANGED <<dbVars, engineVars, checkpoints, promise>>

BeginRestoreLatest(error) == Ids # {} /\ BeginRestore(LargestOf(Ids), error)

Restore ==
  /\ call # Idle /\ call.op = "restore" /\ call.id \in Ids
  /\ dest' = backups[call.id]
  /\ Return(TRUE)
  /\ UNCHANGED <<dbVars, engineVars, checkpoints, promise>>

RestoreFails == Fails("restore") /\ UNCHANGED <<dest, checkpoints, promise>>

-----------------------------------------------------------------------------
(* Deleting.                                                               *)

Remove(id) == backups' = [b \in Ids \ {id} |-> backups[b]] /\ garbage' = TRUE

BeginDelete(id, error) ==
  /\ Begin([op |-> "delete", error |-> error, id |-> id])
  /\ UNCHANGED <<dbVars, engineVars, dest, checkpoints, promise>>

\* Deleting the newest backup takes back what was promised of it.
DeleteBackup ==
  /\ call # Idle /\ call.op = "delete" /\ call.id \in Ids
  /\ Remove(call.id)
  /\ promise' = IF call.id = LargestOf(Ids) THEN {} ELSE promise
  /\ Return(TRUE)
  /\ UNCHANGED <<dbVars, engine, latest, dest, checkpoints>>

DeleteFails == Fails("delete") /\ UNCHANGED <<dest, checkpoints, promise>>

BeginPurge(keep, error) ==
  /\ Begin([op |-> "purge", error |-> error, keep |-> keep])
  /\ UNCHANGED <<dbVars, engineVars, dest, checkpoints, promise>>

\* The oldest backup goes first, one at a time.
PurgeOldest ==
  /\ call # Idle /\ call.op = "purge" /\ Cardinality(Ids) > call.keep
  /\ Remove(CHOOSE b \in Ids : \A c \in Ids : b <= c)
  /\ promise' = IF call.keep = 0 THEN {} ELSE promise
  /\ UNCHANGED <<dbVars, engine, latest, dest, checkpoints, call, answer>>

EndPurge ==
  /\ call # Idle /\ call.op = "purge" /\ Cardinality(Ids) <= call.keep
  /\ Return(TRUE)
  /\ UNCHANGED <<dbVars, engineVars, dest, checkpoints, promise>>

PurgeFails == Fails("purge") /\ UNCHANGED <<dest, checkpoints, promise>>

\* -garbageCollect:, which may fail.
GarbageCollect ==
  /\ engine /\ call = Idle
  /\ garbage' \in {FALSE, garbage}
  /\ UNCHANGED <<dbVars, engine, backups, latest, dest, checkpoints, call, answer, promise>>

-----------------------------------------------------------------------------
(* -[RocksDBCheckpoint createCheckpointAtPath:error:].  It flushes; the    *)
(* path must not exist.                                                    *)

BeginCheckpoint(p, error) ==
  /\ Begin([op |-> "checkpoint", error |-> error, path |-> p, due |-> Writes])
  /\ flushed' = Len(log)
  /\ UNCHANGED <<log, lost, engineVars, dest, checkpoints, promise>>

CreateCheckpoint ==
  /\ call # Idle /\ call.op = "checkpoint" /\ checkpoints[call.path] = Nothing
  /\ checkpoints' = [checkpoints EXCEPT ![call.path] = Copy]
  /\ Return(TRUE)
  /\ UNCHANGED <<dbVars, engineVars, dest, promise>>

CheckpointFails == Fails("checkpoint") /\ UNCHANGED <<dest, checkpoints, promise>>

-----------------------------------------------------------------------------
\* The process stops: the call in progress never returns, and writes go that
\* are in the memtables only.
Crash ==
  /\ engine' = FALSE
  /\ garbage' = (garbage \/ (call # Idle /\ call.op = "create"))
  /\ call' = Idle /\ answer' = Idle
  /\ lost' = lost \cup (Writes \ Copy.writes)
  /\ UNCHANGED <<log, flushed, backups, latest, dest, checkpoints, promise>>

\* After -close, _backupEngine is NULL, and no method looks.
CallOnClosed == ~engine /\ call = Idle /\ ~(Operation \subseteq {"checkpoint"}) /\ Crash

Next ==
  \/ \E logged \in BOOLEAN : WriteDb(logged)
  \/ FlushDb \/ InitWithPath \/ Close \/ GarbageCollect \/ Crash \/ CallOnClosed
  \/ \E e \in ErrorArgument :
       \/ \E flush \in BOOLEAN : BeginCreate(flush, e)
       \/ \E id \in BackupId : BeginRestore(id, e) \/ BeginDelete(id, e)
       \/ BeginRestoreLatest(e)
       \/ \E keep \in 0..MaxBackups : BeginPurge(keep, e)
       \/ \E p \in Path : BeginCheckpoint(p, e)
  \/ CopyFiles \/ CreateBackup \/ CreateFails
  \/ Restore \/ RestoreFails
  \/ DeleteBackup \/ DeleteFails
  \/ PurgeOldest \/ EndPurge \/ PurgeFails
  \/ CreateCheckpoint \/ CheckpointFails

Spec == Init /\ [][Next]_vars

-----------------------------------------------------------------------------
(* Properties.                                                             *)

\* After a backup was answered YES, some backup holds every write that was in
\* the database, and was logged or flushed, when it was asked for: through
\* failed backups, crashes and purges that keep any backup at all.
BackupPromise ==
  promise = {} \/ \E b \in Ids : promise \subseteq backups[b].writes

\* "YES if the ... succeeded, NO otherwise": what a call was asked to do is
\* there as soon as it has answered YES.
YesMeansDone ==
  answer # Idle /\ answer.yes =>
    LET c == answer.call IN
    CASE c.op = "create"     -> \E b \in Ids : c.due \subseteq backups[b].writes
      [] c.op = "restore"    -> c.id \in Ids /\ dest = backups[c.id]
      [] c.op = "delete"     -> c.id \notin Ids
      [] c.op = "purge"      -> Cardinality(Ids) <= c.keep
      [] c.op = "checkpoint" -> /\ checkpoints[c.path].state = "whole"
                                /\ c.due \subseteq checkpoints[c.path].writes

Archive == INSTANCE BackupArchive WITH
  Copies <- {Whole(W) : W \in WriteSet}, Absent <- Nothing, Torn <- Partial,
  restored <- dest,
  told <- IF answer # Idle /\ answer.yes THEN answer.call.op ELSE "nothing"

\* Failures and crashes between the steps of a call never show: a backup or a
\* checkpoint is there as a whole or not at all and stays as it was made, ids
\* grow, a purge takes the oldest, and YES is answered at the step that did it.
IsArchive == Archive!ArchiveSpec
=============================================================================
