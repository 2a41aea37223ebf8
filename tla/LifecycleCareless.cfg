CONSTANTS
  Thread = {t1, t2}
  Family = {f1}
  NewFamily = {}
  Iterator = {}
  Snapshot = {s1}
  NoThread = NoThread
  Nothing = Nothing
  RefusesWhileSnapshots = TRUE
  Careful = FALSE
SPECIFICATION FairSpec
INVARIANTS DeletedOnce ClosedIsFinal
PROPERTIES RetriedCloseSucceeds
CHECK_DEADLOCK FALSE
