---------------------- MODULE RocksDBMaintenanceProofs ----------------------
(* What RocksDBMaintenance says of checkpoints, pauses and ranges holds    *)
(* for any keys, threads, ranges, and any number of files and pauses.      *)
EXTENDS RocksDBMaintenance, FiniteSets, FiniteSetTheorems, TLAPS

\* The bounds hold of what calls in progress have still to count: only a
\* checkpoint disables file deletions once more.
MaintenanceInv ==
  /\ TypeOK
  /\ copying = {} => disabled <= MaxDisables
  /\ \A t \in pausing : pauses[t] < MaxPauses

-----------------------------------------------------------------------------
(* The invariant.                                                          *)

LEMMA MaintenanceInitially == Init => MaintenanceInv
<1> SUFFICES ASSUME Init PROVE MaintenanceInv
  OBVIOUS
<1>1. TypeOK
  <2>1. /\ held \in BOOLEAN /\ undone \in BOOLEAN
        /\ mine \in BOOLEAN /\ quiet \in BOOLEAN
        /\ forced \in BOOLEAN /\ failed \in BOOLEAN
    BY DEF Init
  <2>2. QED
    BY <2>1, BoundAssumption DEF Init, TypeOK
<1>2. QED
  BY <1>1, BoundAssumption DEF Init, MaintenanceInv

\* A file that is written has a number that no file has had, and no file is
\* deleted that is live or obsolete while file deletions are disabled.
LEMMA WriteAdds ==
  ASSUME TypeOK, NEW k \in Key, NEW In \in SUBSET live, NEW r \in BOOLEAN, Write(k, In, r)
  PROVE  /\ named' \in 0..MaxFiles /\ named' = named + 1
         /\ live' \subseteq files' /\ files' \subseteq {f \in File : f.id <= named'}
         /\ \A f \in live' : f \in live \ In \/ f.id = named + 1
         /\ live \ In \subseteq live'
         /\ disabled > 0 => files \subseteq files'
<1> DEFINE new == [id |-> named + 1, key |-> k, raw |-> r]
<1>1. /\ named < MaxFiles /\ named' = named + 1
      /\ live' = (live \ In) \cup {new}
      /\ files' = Purged(files \cup {new}, live', disabled)
  BY DEF Write
<1>2. named \in 0..MaxFiles /\ live \subseteq files /\ files \subseteq {f \in File : f.id <= named}
  BY DEF TypeOK
<1>3. named' \in 0..MaxFiles
  BY <1>1, <1>2, BoundAssumption
<1>4. new \in File /\ new.id = named + 1
  BY <1>1, <1>2, BoundAssumption DEF File
<1>5. \A f \in File : f.id <= named => f.id <= named'
  BY <1>1, <1>2 DEF File
<1>6. files \cup {new} \subseteq {f \in File : f.id <= named'}
  BY <1>1, <1>2, <1>4, <1>5
<1> HIDE DEF new
<1>7. files' = live' \/ files' = files \cup {new}
  BY <1>1 DEF Purged
<1>8. live' \subseteq files'
  BY <1>1, <1>2, <1>7
<1>9. disabled > 0 => files \subseteq files'
  BY <1>1, <1>7 DEF Purged, TypeOK
<1>10. QED
  BY <1>1, <1>2, <1>3, <1>4, <1>6, <1>7, <1>8, <1>9

\* Nor does a purge take a live file away.
LEMMA PurgeKeeps ==
  ASSUME TypeOK, NEW d, files' = Purged(files, live, d), UNCHANGED live
  PROVE  live' \subseteq files' /\ files' \subseteq files
BY DEF TypeOK, Purged

LEMMA MaintenanceStep ==
  ASSUME MaintenanceInv, [Next]_vars
  PROVE  MaintenanceInv'
<1> USE DEF MaintenanceInv, fileVars, jobVars, delVars, pauseVars, copyVars, manualVars
<1>1. CASE UNCHANGED vars
  BY <1>1 DEF vars, TypeOK
<1>2. ASSUME NEW k \in Key, BeginFlush(k) PROVE MaintenanceInv'
  BY <1>2 DEF BeginFlush, TypeOK
<1>3. CASE EndFlush
  <2>1. flush \in Key /\ Write(flush, {}, TRUE)
    BY <1>3 DEF EndFlush, TypeOK
  <2>2. /\ named' \in 0..MaxFiles /\ named' = named + 1
        /\ live' \subseteq files' /\ files' \subseteq {f \in File : f.id <= named'}
        /\ live \subseteq live'
    <3>1. live \ {} = live /\ {} \in SUBSET live
      OBVIOUS
    <3>2. QED
      BY <2>1, <3>1, WriteAdds
  <2>3. \A f \in File : f.id <= named => f.id <= named'
    BY <2>2 DEF File, TypeOK
  <2>4. compaction' \in {Idle} \cup [key : Key, in : SUBSET live', manual : BOOLEAN]
    BY <1>3, <2>2 DEF EndFlush, TypeOK
  <2>5. QED
    BY <1>3, <2>2, <2>3, <2>4 DEF EndFlush, TypeOK
<1>4. ASSUME NEW k \in Key, NEW b \in BOOLEAN, BeginCompaction(k, b) PROVE MaintenanceInv'
  <2>1. compaction' \in [key : Key, in : SUBSET live, manual : BOOLEAN]
    BY <1>4 DEF BeginCompaction, FilesOf
  <2>2. QED
    BY <1>4, <2>1 DEF BeginCompaction, TypeOK
<1>5. CASE EndCompaction
  <2>1. /\ compaction.key \in Key /\ compaction.in \in SUBSET live
        /\ Write(compaction.key, compaction.in, FALSE)
    BY <1>5 DEF EndCompaction, TypeOK
  <2>2. /\ named' \in 0..MaxFiles /\ named' = named + 1
        /\ live' \subseteq files' /\ files' \subseteq {f \in File : f.id <= named'}
    BY <2>1, WriteAdds
  <2>3. \A f \in File : f.id <= named => f.id <= named'
    BY <2>2 DEF File, TypeOK
  <2>4. todo' \subseteq Key
    BY <1>5 DEF EndCompaction, TypeOK
  <2>5. QED
    BY <1>5, <2>2, <2>3, <2>4 DEF EndCompaction, TypeOK
<1>6. ASSUME NEW s \in Start, NEW e \in End, CompactRange(s, e) PROVE MaintenanceInv'
  <2>1. todo' \subseteq Key /\ owed' \subseteq live
    BY <1>6 DEF CompactRange, InSlices
  <2>2. QED
    BY <1>6, <2>1 DEF CompactRange, TypeOK
<1>7. CASE CompactRangeDone
  BY <1>7 DEF CompactRangeDone, TypeOK
<1>8. CASE CompactRangeFails
  BY <1>8 DEF CompactRangeFails, TypeOK
<1>9. CASE DisableFileDeletions
  BY <1>9, BoundAssumption DEF DisableFileDeletions, TypeOK
<1>10. CASE EnableFileDeletions
  <2>1. live' \subseteq files' /\ files' \subseteq files
    BY <1>10, PurgeKeeps DEF EnableFileDeletions
  <2>2. held' \in BOOLEAN /\ undone' \in BOOLEAN /\ forced' \in BOOLEAN /\ disabled' = 0
    BY <1>10 DEF EnableFileDeletions
  <2>3. QED
    BY <1>10, <2>1, <2>2, BoundAssumption DEF EnableFileDeletions, TypeOK
<1>11. ASSUME NEW t \in Thread, CallPauseBackgroundWork(t) PROVE MaintenanceInv'
  BY <1>11 DEF CallPauseBackgroundWork, TypeOK
<1>12. ASSUME NEW t \in Thread, PauseBackgroundWork(t) PROVE MaintenanceInv'
  <2>1. paused' \in Nat /\ quiet' \in BOOLEAN /\ pausing' \subseteq Thread
    BY <1>12, BoundAssumption DEF PauseBackgroundWork, TypeOK
  <2>2. pauses[t] + 1 \in 0..MaxPauses /\ pauses' = [pauses EXCEPT ![t] = pauses[t] + 1]
    BY <1>12, BoundAssumption DEF PauseBackgroundWork, TypeOK
  <2>3. pauses' \in [Thread -> 0..MaxPauses] /\ \A u \in pausing' : pauses'[u] < MaxPauses
    BY <1>12, <2>2 DEF PauseBackgroundWork, TypeOK
  <2>4. QED
    BY <1>12, <2>1, <2>3 DEF PauseBackgroundWork, TypeOK
<1>13. ASSUME NEW t \in Thread, ContinueBackgroundWork(t) PROVE MaintenanceInv'
  <2>1. /\ paused' \in Nat /\ pauses' \in [Thread -> 0..MaxPauses]
        /\ \A u \in pausing' : pauses'[u] < MaxPauses
    BY <1>13, BoundAssumption DEF ContinueBackgroundWork, TypeOK
  <2>2. mine' \in BOOLEAN /\ quiet' \in BOOLEAN
    BY <1>13 DEF ContinueBackgroundWork
  <2>3. QED
    BY <1>13, <2>1, <2>2 DEF ContinueBackgroundWork, TypeOK
<1>14. CASE BeginCheckpoint
  <2>1. disabled' \in 0..MaxDisables + 1 /\ copying' = live /\ copying' # {}
    BY <1>14, BoundAssumption DEF BeginCheckpoint, TypeOK
  <2>2. forced' \in BOOLEAN /\ failed' \in BOOLEAN
    BY <1>14 DEF BeginCheckpoint
  <2>3. QED
    BY <1>14, <2>1, <2>2 DEF BeginCheckpoint, TypeOK
<1>15. ASSUME NEW f \in File, CopyFile(f) PROVE MaintenanceInv'
  <2>1. failed' \in BOOLEAN /\ copying' \subseteq copying /\ copying # {}
    BY <1>15 DEF CopyFile
  <2>2. /\ live' \subseteq files' /\ files' \subseteq files
        /\ disabled' \in 0..MaxDisables + 1 /\ undone' \in BOOLEAN
        /\ copying' = {} => disabled' <= MaxDisables
    <3>1. CASE copying' = {}
      <4>1. EndCheckpoint
        BY <1>15, <3>1 DEF CopyFile
      <4>2. live' \subseteq files' /\ files' \subseteq files
        BY <1>15, <4>1, PurgeKeeps DEF EndCheckpoint, CopyFile
      <4>3. undone' \in BOOLEAN
        BY <4>1 DEF EndCheckpoint
      <4>4. QED
        BY <4>1, <4>2, <4>3, BoundAssumption DEF EndCheckpoint, TypeOK
    <3>2. CASE copying' # {}
      BY <1>15, <3>2 DEF CopyFile, TypeOK
    <3>3. QED
      BY <3>1, <3>2
  <2>3. QED
    BY <1>15, <2>1, <2>2 DEF CopyFile, TypeOK
<1>16. QED
  BY <1>1, <1>2, <1>3, <1>4, <1>5, <1>6, <1>7, <1>8, <1>9, <1>10, <1>11, <1>12, <1>13,
    <1>14, <1>15 DEF Next, Job, Maintain, PauseOrContinue

LEMMA MaintenanceInvariant == Spec => []MaintenanceInv
BY MaintenanceInitially, MaintenanceStep, PTL DEF Spec

\* Files, jobs and counters stay within their types: in particular neither
\* count is taken below 0, in whatever order file deletions and background
\* work are switched off and on.
THEOREM MaintenanceTypes == Spec => []TypeOK
BY MaintenanceInvariant, PTL DEF MaintenanceInv

-----------------------------------------------------------------------------
(* Pauses.                                                                 *)

\* One token for every pause of every thread that it has not ended.
Tokens == {x \in Thread \X (Nat \ {0}) : x[2] <= pauses[x[1]]}

\* RocksDB counts the pauses of all threads together.
PausesCounted == IsFiniteSet(Tokens) /\ Cardinality(Tokens) = paused

\* As long as threads end their own pauses only, the count is of the pauses
\* that last; and whoever paused last is still counted if none was ended since.
QuietInv ==
  /\ mine => PausesCounted
  /\ quiet => paused > 0
  /\ paused > 0 => flush = Empty /\ compaction = Idle

\* A thread that has paused background work keeps it paused.
LEMMA PausedByOne ==
  ASSUME MaintenanceInv, PausesCounted, NEW t \in Thread, pauses[t] > 0
  PROVE  paused > 0
<1>1. <<t, pauses[t]>> \in Tokens
  BY BoundAssumption DEF Tokens, MaintenanceInv, TypeOK
<1>2. Cardinality(Tokens) # 0
  BY <1>1, FS_EmptySet DEF PausesCounted
<1>3. QED
  BY <1>2 DEF MaintenanceInv, PausesCounted, TypeOK

LEMMA PauseCounts ==
  ASSUME MaintenanceInv, PausesCounted, NEW t \in Thread, PauseBackgroundWork(t)
  PROVE  PausesCounted'
<1> DEFINE x == <<t, pauses[t] + 1>>
<1>1. pauses[t] \in Nat /\ pauses' = [pauses EXCEPT ![t] = @ + 1]
  BY BoundAssumption DEF PauseBackgroundWork, MaintenanceInv, TypeOK
<1>2. x \notin Tokens
  BY <1>1 DEF Tokens
<1>3. Tokens' = Tokens \cup {x}
  <2>1. \A y \in Thread \X (Nat \ {0}) :
          y[2] <= pauses'[y[1]] <=> y[2] <= pauses[y[1]] \/ y = x
    BY <1>1 DEF MaintenanceInv, TypeOK
  <2>2. x \in Thread \X (Nat \ {0})
    BY <1>1
  <2>3. QED BY <2>1, <2>2 DEF Tokens
<1>4. IsFiniteSet(Tokens') /\ Cardinality(Tokens') = Cardinality(Tokens) + 1
  BY <1>2, <1>3, FS_AddElement DEF PausesCounted
<1>5. QED
  BY <1>4 DEF PauseBackgroundWork, PausesCounted

LEMMA ContinueCounts ==
  ASSUME MaintenanceInv, PausesCounted, NEW t \in Thread, ContinueBackgroundWork(t), mine'
  PROVE  PausesCounted'
<1> DEFINE x == <<t, pauses[t]>>
<1>0. pauses[t] > 0
  BY DEF ContinueBackgroundWork
<1>1. pauses[t] \in Nat \ {0} /\ pauses' = [pauses EXCEPT ![t] = @ - 1]
  BY <1>0, BoundAssumption DEF ContinueBackgroundWork, MaintenanceInv, TypeOK
<1>2. x \in Tokens
  BY <1>1 DEF Tokens
<1>3. Tokens' = Tokens \ {x}
  <2>1. \A y \in Thread \X (Nat \ {0}) :
          y[2] <= pauses'[y[1]] <=> y[2] <= pauses[y[1]] /\ y # x
    BY <1>1 DEF MaintenanceInv, TypeOK
  <2>2. QED BY <2>1 DEF Tokens
<1>4. IsFiniteSet(Tokens') /\ Cardinality(Tokens') = Cardinality(Tokens) - 1
  BY <1>2, <1>3, FS_RemoveElement DEF PausesCounted
<1>5. QED
  BY <1>4 DEF ContinueBackgroundWork, PausesCounted

LEMMA QuietStep ==
  ASSUME MaintenanceInv, QuietInv, [Next]_vars
  PROVE  QuietInv'
<1> USE DEF fileVars, jobVars, delVars, pauseVars, copyVars, manualVars
<1>1. ASSUME UNCHANGED <<mine, quiet, paused, pauses>>,
             paused > 0 => UNCHANGED <<flush, compaction>>
      PROVE  QuietInv'
  BY <1>1 DEF QuietInv, PausesCounted, Tokens
<1>2. CASE UNCHANGED vars
  BY <1>1, <1>2 DEF vars
<1>3. ASSUME NEW k \in Key, NEW b \in BOOLEAN, BeginFlush(k) \/ BeginCompaction(k, b)
      PROVE  QuietInv'
  BY <1>1, <1>3 DEF BeginFlush, BeginCompaction, MaintenanceInv, TypeOK
<1>4. ASSUME EndFlush \/ EndCompaction \/ CompactRangeFails PROVE QuietInv'
  <2>1. paused > 0 => flush' = Empty /\ compaction' = Idle
    BY <1>4 DEF EndFlush, EndCompaction, CompactRangeFails, QuietInv, Idle
  <2>2. UNCHANGED <<mine, quiet, paused, pauses>>
    BY <1>4 DEF EndFlush, EndCompaction, CompactRangeFails
  <2>3. QED
    BY <1>1, <2>1, <2>2 DEF QuietInv
<1>5. ASSUME NEW t \in Thread, PauseBackgroundWork(t) PROVE QuietInv'
  <2>1. paused' > 0 /\ flush' = Empty /\ compaction' = Idle
    BY <1>5 DEF PauseBackgroundWork, MaintenanceInv, TypeOK
  <2>2. mine' => PausesCounted'
    BY <1>5, PauseCounts DEF PauseBackgroundWork, QuietInv
  <2>3. QED
    BY <2>1, <2>2 DEF QuietInv
<1>6. ASSUME NEW t \in Thread, ContinueBackgroundWork(t) PROVE QuietInv'
  <2>1. mine' => PausesCounted'
    BY <1>6, ContinueCounts DEF ContinueBackgroundWork, QuietInv
  <2>2. ~quiet' /\ UNCHANGED <<flush, compaction>> /\ paused > 0
    BY <1>6 DEF ContinueBackgroundWork
  <2>3. QED
    BY <2>1, <2>2 DEF QuietInv
<1>7. QED
  BY <1>1, <1>2, <1>3, <1>4, <1>5, <1>6 DEF Next, Job, Maintain, PauseOrContinue, CompactRange, CompactRangeDone,
    DisableFileDeletions, EnableFileDeletions, CallPauseBackgroundWork, BeginCheckpoint, CopyFile

\* Once a pause has returned no job runs until a pause is ended; and none runs
\* while a thread has a pause it has not ended, however many others pause and
\* continue meanwhile, unless one of them ends a pause that is not its own.
THEOREM QuietMeansQuiet == Spec => []QuietWhilePaused
<1>1. Init => QuietInv
  <2> SUFFICES ASSUME Init PROVE QuietInv
    OBVIOUS
  <2>1. Tokens = {}
    BY DEF Init, Tokens
  <2>2. QED
    BY <2>1, FS_EmptySet DEF Init, QuietInv, PausesCounted
<1>2. MaintenanceInv /\ QuietInv => QuietWhilePaused
  BY PausedByOne DEF QuietInv, QuietWhilePaused
<1>3. QED
  BY <1>1, <1>2, QuietStep, MaintenanceInvariant, PTL DEF Spec

-----------------------------------------------------------------------------
(* Checkpoints.                                                            *)

\* A checkpoint has file deletions disabled, until they are forced on.
CopyInv == CheckpointWhole /\ (copying # {} /\ ~forced => disabled > 0)

LEMMA CopyStep ==
  ASSUME MaintenanceInv, CopyInv, [Next]_vars
  PROVE  CopyInv'
<1> USE DEF CheckpointWhole, fileVars, jobVars, delVars, pauseVars, copyVars, manualVars
<1>1. ASSUME disabled > 0 => files \subseteq files', UNCHANGED <<disabled, copying, forced, failed>>
      PROVE  CopyInv'
  BY <1>1 DEF CopyInv
<1>2. CASE UNCHANGED vars
  BY <1>1, <1>2 DEF vars
<1>3. ASSUME EndFlush \/ EndCompaction PROVE CopyInv'
  <2>1. PICK k \in Key, In \in SUBSET live, r \in BOOLEAN : Write(k, In, r)
    BY <1>3 DEF EndFlush, EndCompaction, MaintenanceInv, TypeOK
  <2>2. disabled > 0 => files \subseteq files'
    BY <2>1, WriteAdds DEF MaintenanceInv
  <2>3. UNCHANGED <<disabled, copying, forced, failed>>
    BY <1>3 DEF EndFlush, EndCompaction
  <2>4. QED
    BY <1>1, <2>2, <2>3
<1>4. CASE DisableFileDeletions
  BY <1>4 DEF DisableFileDeletions, CopyInv, MaintenanceInv, TypeOK
<1>5. CASE EnableFileDeletions
  BY <1>5 DEF EnableFileDeletions, CopyInv
<1>6. CASE BeginCheckpoint
  <2>1. copying' \subseteq files /\ disabled' > 0
    BY <1>6 DEF BeginCheckpoint, MaintenanceInv, TypeOK
  <2>2. QED
    BY <1>6, <2>1 DEF BeginCheckpoint, CopyInv
<1>7. ASSUME NEW f \in File, CopyFile(f) PROVE CopyInv'
  <2>1. failed' => forced'
    BY <1>7 DEF CopyFile, CopyInv
  <2>2. CASE copying' = {}
    BY <2>1, <2>2 DEF CopyInv
  <2>3. CASE copying' # {}
    BY <1>7, <2>1, <2>3 DEF CopyFile, CopyInv
  <2>4. QED
    BY <2>2, <2>3
<1>8. QED
  BY <1>1, <1>2, <1>3, <1>4, <1>5, <1>6, <1>7 DEF Next, Job, Maintain, PauseOrContinue, BeginFlush, BeginCompaction,
    CompactRange, CompactRangeDone, CompactRangeFails, CallPauseBackgroundWork,
    PauseBackgroundWork, ContinueBackgroundWork

\* A checkpoint finds every file it has to copy, for any keys and files and
\* whatever is compacted, disabled and enabled before: it can fail for a file
\* only if file deletions were forced on while it was copying.
THEOREM CheckpointsWhole == Spec => []CheckpointWhole
<1>1. Init => CopyInv
  BY DEF Init, CopyInv, CheckpointWhole
<1>2. QED
  BY <1>1, CopyStep, MaintenanceInvariant, PTL DEF Spec, CopyInv

\* The disabling of the application is still counted, next to that of a
\* checkpoint, unless one that was forced on has ended since.
KeepInv == held /\ ~undone => disabled > IF copying # {} /\ ~forced THEN 1 ELSE 0

LEMMA KeepStep ==
  ASSUME MaintenanceInv, CopyInv, KeepInv, [Next]_vars
  PROVE  KeepInv' /\ (held /\ held' /\ ~undone' => files \subseteq files')
<1> USE DEF KeepInv, fileVars, jobVars, delVars, pauseVars, copyVars, manualVars
<1>1. disabled \in Nat /\ held \in BOOLEAN /\ undone \in BOOLEAN /\ forced \in BOOLEAN
  BY BoundAssumption DEF MaintenanceInv, TypeOK
<1>2. CASE UNCHANGED <<delVars, copying, forced>> /\ (disabled > 0 => files \subseteq files')
  BY <1>1, <1>2
<1>3. CASE UNCHANGED vars
  BY <1>2, <1>3 DEF vars
<1>4. CASE EndFlush \/ EndCompaction
  <2>1. PICK k \in Key, In \in SUBSET live, r \in BOOLEAN : Write(k, In, r)
    BY <1>4 DEF EndFlush, EndCompaction, MaintenanceInv, TypeOK
  <2>2. disabled > 0 => files \subseteq files'
    BY <2>1, WriteAdds DEF MaintenanceInv
  <2>3. UNCHANGED <<delVars, copying, forced>>
    BY <1>4 DEF EndFlush, EndCompaction
  <2>4. QED
    BY <1>2, <2>2, <2>3
<1>5. CASE DisableFileDeletions
  <2>1. copying # {} /\ ~forced => disabled > 0
    BY DEF CopyInv
  <2>2. QED
    BY <1>1, <1>5, <2>1 DEF DisableFileDeletions
<1>6. CASE EnableFileDeletions
  BY <1>6 DEF EnableFileDeletions
<1>7. CASE BeginCheckpoint
  BY <1>1, <1>7 DEF BeginCheckpoint
<1>8. ASSUME NEW f \in File, CopyFile(f) PROVE KeepInv' /\ (held /\ held' /\ ~undone' => files \subseteq files')
  <2>1. copying # {} /\ UNCHANGED <<live, held, forced>>
    BY <1>8 DEF CopyFile
  <2>2. CASE copying' = {}
    <3>1. EndCheckpoint
      BY <1>8, <2>2 DEF CopyFile
    <3>2. held' /\ ~undone' => held /\ ~undone /\ ~forced
      BY <2>1, <3>1 DEF EndCheckpoint
    <3>3. held' /\ ~undone' => disabled' > 0
      BY <1>1, <2>1, <3>1, <3>2 DEF EndCheckpoint
    <3>4. disabled' > 0 => files' = files
      BY <3>1 DEF EndCheckpoint, Purged
    <3>5. QED
      BY <2>2, <3>3, <3>4
  <2>3. CASE copying' # {}
    BY <1>8, <2>1, <2>3 DEF CopyFile
  <2>4. QED
    BY <2>2, <2>3
<1>9. CASE UNCHANGED <<fileVars, delVars, copying, forced>>
  BY <1>2, <1>9
<1>10. QED
  BY <1>3, <1>4, <1>5, <1>6, <1>7, <1>8, <1>9 DEF Next, Job, Maintain, PauseOrContinue,
    BeginFlush, BeginCompaction, CompactRange, CompactRangeDone, CompactRangeFails,
    CallPauseBackgroundWork, PauseBackgroundWork, ContinueBackgroundWork

\* Between disableFileDeletions: and enableFileDeletions: no obsolete file is
\* deleted, whichever jobs, pauses and checkpoints begin and end: unless one of
\* these has ended in which file deletions were forced on before.
THEOREM DisabledKeeps == Spec => DisabledMeansKept
<1>1. Init => CopyInv /\ KeepInv
  BY DEF Init, CopyInv, KeepInv, CheckpointWhole
<1>2. QED
  BY <1>1, CopyStep, KeepStep, MaintenanceInvariant, PTL DEF Spec, DisabledMeansKept

-----------------------------------------------------------------------------
(* Ranges.                                                                 *)

\* What is still owed of a range is of keys still to compact, and whatever the
\* compaction that runs for it has of its key is part of its input.
RangeInv ==
  /\ manual = "running" => \A f \in owed \cap live : f.key \in todo
  /\ compaction.manual =>
       /\ manual = "running" /\ compaction.key \in todo
       /\ \A f \in owed \cap live : f.key = compaction.key => f \in compaction.in
  /\ todo # {} => manual = "running"
  /\ RangeCompacted

\* What is meant by a range with an end is what its slices say: the empty key
\* is before all keys, as a nil start is meant to be.
LEMMA RangesWithEndMeant ==
  ASSUME NEW s \in Start, NEW e \in End \ {Nil}
  PROVE  InSlices(s, e) = Meant(s, e)
<1>1. Slice(e) = e
  BY DEF Slice
<1>2. \A k \in Key : Slice(s) <= k <=> s = Nil \/ s <= k
  BY KeyAssumption, RangeAssumption DEF Slice, Empty
<1>3. QED
  BY <1>1, <1>2 DEF InSlices, Meant

LEMMA RangeStep ==
  ASSUME Nil \notin End, MaintenanceInv, RangeInv, [Next]_vars
  PROVE  RangeInv'
<1> USE DEF fileVars, jobVars, delVars, pauseVars, copyVars, manualVars
<1>1. ASSUME UNCHANGED <<live, compaction, manual, todo, owed>> PROVE RangeInv'
  BY <1>1 DEF RangeInv, RangeCompacted
<1>2. CASE UNCHANGED vars
  BY <1>1, <1>2 DEF vars
<1>3. ASSUME NEW k \in Key, NEW In \in SUBSET live, NEW r \in BOOLEAN, Write(k, In, r),
             UNCHANGED owed
      PROVE  owed' \cap live' \subseteq (owed \cap live) \ In
  <2>1. \A f \in live' : f \in live \ In \/ f.id = named + 1
    BY <1>3, WriteAdds DEF MaintenanceInv
  <2>2. \A f \in owed : f.id # named + 1
    BY DEF MaintenanceInv, TypeOK, File
  <2>3. QED
    BY <1>3, <2>1, <2>2
<1>4. CASE EndFlush
  <2>1. flush \in Key /\ {} \in SUBSET live /\ Write(flush, {}, TRUE)
    BY <1>4 DEF EndFlush, MaintenanceInv, TypeOK
  <2>2. owed' \cap live' \subseteq owed \cap live
    BY <1>3, <1>4, <2>1 DEF EndFlush
  <2>3. QED
    BY <1>4, <2>2 DEF EndFlush, RangeInv, RangeCompacted
<1>5. CASE EndCompaction
  <2>1. /\ compaction.key \in Key /\ compaction.in \in SUBSET live
        /\ Write(compaction.key, compaction.in, FALSE)
    BY <1>5 DEF EndCompaction, MaintenanceInv, TypeOK
  <2>2. owed' \cap live' \subseteq (owed \cap live) \ compaction.in
    BY <1>3, <1>5, <2>1 DEF EndCompaction
  <2>3. ~compaction'.manual
    BY <1>5 DEF EndCompaction, Idle
  <2>4. manual' = "running" => \A f \in owed' \cap live' : f.key \in todo'
    BY <1>5, <2>2 DEF EndCompaction, RangeInv
  <2>5. QED
    BY <1>5, <2>2, <2>3, <2>4 DEF EndCompaction, RangeInv, RangeCompacted
<1>6. ASSUME NEW k \in Key, NEW b \in BOOLEAN, BeginCompaction(k, b) PROVE RangeInv'
  <2>1. compaction' = [key |-> k, in |-> FilesOf(k), manual |-> b]
    BY <1>6 DEF BeginCompaction
  <2>2. b => k \in todo
    BY <1>6 DEF BeginCompaction
  <2>3. QED
    BY <1>6, <2>1, <2>2 DEF BeginCompaction, FilesOf, RangeInv, RangeCompacted
<1>7. ASSUME NEW s \in Start, NEW e \in End, CompactRange(s, e) PROVE RangeInv'
  <2>1. InSlices(s, e) = Meant(s, e)
    BY RangesWithEndMeant
  <2>2. \A f \in owed' \cap live' : f.key \in todo'
    BY <1>7, <2>1 DEF CompactRange, FilesOf
  <2>3. ~compaction'.manual /\ manual' = "running"
    BY <1>7 DEF CompactRange, RangeInv
  <2>4. QED
    BY <2>2, <2>3 DEF RangeInv, RangeCompacted
<1>8. CASE CompactRangeDone
  BY <1>8 DEF CompactRangeDone, RangeInv, RangeCompacted
<1>9. CASE CompactRangeFails
  BY <1>9 DEF CompactRangeFails, RangeInv, RangeCompacted, Idle
<1>10. QED
  BY <1>1, <1>2, <1>4, <1>5, <1>6, <1>7, <1>8, <1>9 DEF Next, Job, Maintain, PauseOrContinue, BeginFlush,
    DisableFileDeletions, EnableFileDeletions, CallPauseBackgroundWork, PauseBackgroundWork,
    ContinueBackgroundWork, BeginCheckpoint, CopyFile, EndCheckpoint

\* A range that has an end is compacted when compactRange answers YES: its jobs
\* take up all its keys, and each takes up all files its key had at the call,
\* whatever is flushed, compacted, paused or fails between.  (A nil bound becomes
\* the empty key, and with it as the end MaintenanceOpenRange finds the contrary.)
THEOREM RangesCompacted == ASSUME Nil \notin End PROVE Spec => []RangeCompacted
<1>1. Init => RangeInv
  BY DEF Init, RangeInv, RangeCompacted, Idle
<1>2. QED
  BY <1>1, RangeStep, MaintenanceInvariant, PTL DEF Spec, RangeInv
=============================================================================
