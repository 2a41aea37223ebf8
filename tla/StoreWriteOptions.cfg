CONSTANTS
  Thread = {t1}
  Key = {k1}
  Snapshot = {}
  NoSnapshot = NoSnapshot
  Idle = Idle
  WriteMethod <- IgnoringWrites
  ReadMethod = {}
  Option <- WriteOptions
  MaxWrites = 1
SPECIFICATION Spec
SYMMETRY Symmetry
INVARIANTS PromisedSurvives
