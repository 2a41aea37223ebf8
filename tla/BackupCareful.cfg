CONSTANTS
  Operation = {"create", "restore", "delete", "purge", "checkpoint"}
  ErrorArgument = {"nil"}
  Path = {p1}
  Idle = Idle
  MaxWrites = 2
  MaxBackups = 2
SPECIFICATION Spec
INVARIANTS TypeOK BackupPromise YesMeansDone
PROPERTIES IsArchive
