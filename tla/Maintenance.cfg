CONSTANTS
  Key = {1, 2}
  Thread = {t1, t2}
  Pauser = {t1}
  Start = {1, Nil}
  End = {1, 2}
  Nil = Nil
  MaxFiles = 3
  FewFiles = 2
  MaxPauses = 2
  MaxDisables = 1
SPECIFICATION MCSpec
INVARIANTS TypeOK RangeCompacted CheckpointWhole QuietWhilePaused
PROPERTIES ObsoleteFilesGo DisabledMeansKept
