CONSTANTS
  Thread = {t1, t2}
  Family = {f1, f2}
  NewFamily = {n1}
  Iterator = {i1}
  Snapshot = {s1}
  NoThread = NoThread
  Nothing = Nothing
  RefusesWhileSnapshots = TRUE
  Careful = TRUE
  Key = {11, 12, 21}
  Width = 10
  Bound = {10, 12, 21}
  Descending = FALSE
SPECIFICATION MCSpec
INVARIANTS TypeOK NoMisuse OneWrapperPerHandle NothingOutlivesDb HandlesDeletedWithDb IteratorTypeOK
PROPERTIES IsDatabaseObject IsWalk EnumerationEnds
CHECK_DEADLOCK FALSE
