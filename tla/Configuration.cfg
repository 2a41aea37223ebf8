CONSTANTS
  Comparator = {c1}
  MergeOperator = {m1}
  Factory = {x1}
  Options = {o1, o2}
  Database = {d1}
  Family = {f0, f1}
  DefaultFamily = f0
  Nil = Nil
  Descriptor = Descriptor
  MaxGiven = 2
  Name = {a, b, d}
  Default = d
  MaxDescribed = 3
  MaxFamilies = 3
  Facade = {g1, g2}
  DatabaseOptions = {w1}
  FamilyOptions = {q1, q2}
  Touched = {"maxOpenFiles", "writeBufferSize"}
  None = None
SPECIFICATION MCSpec
SYMMETRY Symmetry
INVARIANTS TypeOK CallbacksReachWrappers NotUsedAfterDeletion FamiliesTypeOK HandlesReachTheirFamily OptionsTypeOK RunsAsConfigured
PROPERTIES BulkDropTells
CHECK_DEADLOCK FALSE
