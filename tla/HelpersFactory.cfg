CONSTANTS
  Comparator = {}
  MergeOperator = {}
  Factory = {x1}
  Options = {o1}
  Database = {d1}
  Family = {f0}
  DefaultFamily = f0
  Nil = Nil
  Descriptor = Descriptor
  MaxGiven = 1
SPECIFICATION Spec
INVARIANTS DeletedAtMostOnce
CHECK_DEADLOCK FALSE
