CONSTANTS
  Key = {1}
  Thread = {}
  Start = {Nil}
  End = {Nil}
  Nil = Nil
  MaxFiles = 2
  MaxPauses = 0
  MaxDisables = 0
SPECIFICATION Spec
INVARIANTS RangeCompacted
