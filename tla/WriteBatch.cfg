CONSTANTS
  a = a
  b = b
  Nil = Nil
  Corrupt = {b}
  Failure = Failure
  Key = {1, 2}
  Associative = {1}
  RangeEnd = {3}
  Value <- Values
  Limit = {0, 1}
  MaxRecords = 2
  MaxSaves = 2
  MaxOperands = 2
SPECIFICATION Spec
INVARIANTS TypeOK RetryHarmless ReadsAsApplied EntriesTellBatch
PROPERTIES IsBatch
