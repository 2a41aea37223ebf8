CONSTANTS
  Operation = {"create"}
  ErrorArgument = {"NULL"}
  Path = {}
  Idle = Idle
  MaxWrites = 1
  MaxBackups = 1
SPECIFICATION Spec
INVARIANTS BackupPromise
