--------------------------- MODULE BackupArchive ---------------------------
(***************************************************************************)
(* What the headers promise of a backup engine and of checkpoints: an      *)
(* archive of whole copies of a database.  Each call takes effect at one   *)
(* moment, the one at which it is answered YES; a call that is answered NO *)
(* or never returns leaves the archive as it was, but for a purge, which   *)
(* may have taken some of the oldest backups, and for the directory that a *)
(* restore was writing to.                                                 *)
(***************************************************************************)
EXTENDS Naturals

CONSTANTS
  BackupId,  \* the ids the engine gives
  Path,      \* where checkpoints may be
  Copies,    \* the whole copies of a database there may be
  Absent,    \* no files at all
  Torn       \* some files of a copy

VARIABLES
  backups,      \* a copy for the id of every backup
  restored,     \* what is in the directory that backups are restored to
  checkpoints,  \* what is at every path
  told          \* the call that has just been answered YES, or "nothing"

Init ==
  /\ backups = <<>> /\ restored = Absent
  /\ checkpoints = [p \in Path |-> Absent] /\ told = "nothing"

BackupInfo == DOMAIN backups
Oldest == CHOOSE id \in BackupInfo : \A b \in BackupInfo : id <= b
Without(id) == [b \in BackupInfo \ {id} |-> backups[b]]

\* A backup gets an id above those there are, and is not changed later on.
CreateBackupForDatabase ==
  /\ \E copy \in Copies, id \in BackupId :
       /\ \A b \in BackupInfo : b < id
       /\ backups' = [b \in BackupInfo \cup {id} |-> IF b = id THEN copy ELSE backups[b]]
  /\ told' = "create"
  /\ UNCHANGED <<restored, checkpoints>>

\* A restore rewrites the directory, whatever was in it ...
BeginRestore ==
  /\ BackupInfo # {}
  /\ restored' = Torn /\ told' = "nothing"
  /\ UNCHANGED <<backups, checkpoints>>

\* ... and is answered YES when the directory is the backup it was asked for.
RestoreBackupWithId(id) ==
  /\ restored' = backups[id] /\ told' = "restore"
  /\ UNCHANGED <<backups, checkpoints>>

DeleteBackupWithId(id) ==
  /\ backups' = Without(id) /\ told' = "delete"
  /\ UNCHANGED <<restored, checkpoints>>

\* purgeOldBackupsKeepingLast: the oldest backup goes, one after the other.
PurgeOldest ==
  /\ BackupInfo # {}
  /\ backups' = Without(Oldest) /\ told' = "nothing"
  /\ UNCHANGED <<restored, checkpoints>>

\* A checkpoint is made where there is nothing, and not written to again.
CreateCheckpointAtPath(p) ==
  /\ checkpoints[p] = Absent
  /\ \E copy \in Copies : checkpoints' = [checkpoints EXCEPT ![p] = copy]
  /\ told' = "checkpoint"
  /\ UNCHANGED <<backups, restored>>

\* A purge has come to its end; any call is made, answered NO or cut short.
Answer ==
  /\ told' \in {"purge", "nothing"}
  /\ UNCHANGED <<backups, restored, checkpoints>>

Next ==
  \/ CreateBackupForDatabase \/ BeginRestore \/ PurgeOldest \/ Answer
  \/ \E id \in BackupInfo : RestoreBackupWithId(id) \/ DeleteBackupWithId(id)
  \/ \E p \in Path : CreateCheckpointAtPath(p)

ArchiveSpec == Init /\ [][Next]_<<backups, restored, checkpoints, told>>
=============================================================================
