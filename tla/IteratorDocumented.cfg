CONSTANTS
  Key = {11, 12, 21}
  Width = 10
  Bound = {11, 12}
  Descending = FALSE
SPECIFICATION IteratorSpec
INVARIANTS WalksAsDocumented
