CONSTANTS
  Thread = {t1, t2}
  Key = {k1}
  Snapshot = {s1}
  NoSnapshot = NoSnapshot
  Idle = Idle
  WriteMethod <- SomeWrites
  ReadMethod <- SomeReads
  Option <- SomeOptions
  MaxWrites = 2
SPECIFICATION Spec
SYMMETRY Symmetry
INVARIANTS TypeOK PromisedSurvives SnapshotIsolation ReadsOwnWrites
