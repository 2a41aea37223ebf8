------------------------- MODULE RocksDBMaintenance -------------------------
(***************************************************************************)
(* The maintenance calls of RocksDB.mm: manual compaction of a range,      *)
(* switching file deletions off and on, pausing background work; and the   *)
(* checkpoint that copies the live files while all this goes on.           *)
(*                                                                         *)
(* A flush writes a raw file with data of a key, a compaction puts the     *)
(* files of a key together in a new one and leaves them obsolete.  Both    *)
(* take time: other calls fall between their beginning and their end.      *)
(***************************************************************************)
EXTENDS Naturals

CONSTANTS
  Key,       \* numbers, in the order of the comparator
  Thread,    \* application threads
  Start,     \* the keys a range may start at, or Nil
  End,       \* the keys a range may end at, or Nil
  Nil,       \* a nil bound of a RocksDBKeyRange
  MaxFiles,    \* bounds on the files written ...
  MaxPauses,   \* ... on how deep the pauses of a thread nest ...
  MaxDisables  \* ... and on how often file deletions are disabled

Empty == 0  \* the empty key, before all others

ASSUME KeyAssumption == Key \subseteq Nat \ {Empty}
ASSUME RangeAssumption == Nil \notin Nat /\ Start \subseteq Key \cup {Nil} /\ End \subseteq Key \cup {Nil}
ASSUME BoundAssumption == MaxFiles \in Nat /\ MaxPauses \in Nat /\ MaxDisables \in Nat

VARIABLES
  live,       \* the files that hold the data
  files,      \* the files on the disk, the obsolete ones included
  named,      \* the number of files written so far
  flush,      \* the key being flushed, or Empty
  compaction, \* the compaction that runs, with its input; without input, none
  disabled,   \* how often file deletions were disabled
  held,       \* the application disabled them, and has not enabled them since
  undone,     \* a checkpoint has taken that back, its own disabling being gone
  pausing,    \* the threads that wait in pauseBackgroundWork
  paused,     \* how often background work is paused
  pauses,     \* the pauses of each thread that it has not ended
  mine,       \* no thread has ended a pause that was not its own
  quiet,      \* a pause has returned, and none has been ended since
  copying,    \* the files a checkpoint still has to copy, or {}
  forced,     \* file deletions were enabled during this checkpoint
  failed,     \* this checkpoint came upon a file that was gone
  manual,     \* the last compactRange: "none", "running", "YES" or "NO"
  todo,       \* the keys it still has to compact
  owed        \* the raw files its range held when it was called

fileVars   == <<live, files, named>>
jobVars    == <<flush, compaction>>
delVars    == <<disabled, held, undone>>
pauseVars  == <<pausing, paused, pauses, mine, quiet>>
copyVars   == <<copying, forced, failed>>
manualVars == <<manual, todo, owed>>
vars == <<fileVars, jobVars, delVars, pauseVars, copyVars, manualVars>>

File == [id : 1..MaxFiles, key : Key, raw : BOOLEAN]
Idle == [key |-> Empty, in |-> {}, manual |-> FALSE]

TypeOK ==
  /\ live \subseteq files /\ files \subseteq {f \in File : f.id <= named}
  /\ named \in 0..MaxFiles
  /\ flush \in Key \cup {Empty}
  /\ compaction \in {Idle} \cup [key : Key, in : SUBSET live, manual : BOOLEAN]
  /\ disabled \in 0..MaxDisables + 1 /\ held \in BOOLEAN /\ undone \in BOOLEAN
  /\ pausing \subseteq Thread /\ paused \in Nat
  /\ pauses \in [Thread -> 0..MaxPauses] /\ mine \in BOOLEAN /\ quiet \in BOOLEAN
  /\ copying \subseteq {f \in File : f.id <= named}
  /\ forced \in BOOLEAN /\ failed \in BOOLEAN
  /\ manual \in {"none", "running", "YES", "NO"} /\ todo \subseteq Key
  /\ owed \subseteq {f \in File : f.id <= named}

Init ==
  /\ live = {} /\ files = {} /\ named = 0 /\ flush = Empty /\ compaction = Idle
  /\ disabled = 0 /\ held = FALSE /\ undone = FALSE
  /\ pausing = {} /\ paused = 0 /\ pauses = [t \in Thread |-> 0]
  /\ mine = TRUE /\ quiet = FALSE
  /\ copying = {} /\ forced = FALSE /\ failed = FALSE
  /\ manual = "none" /\ todo = {} /\ owed = {}

-----------------------------------------------------------------------------
(* The database at work.                                                   *)

FilesOf(k) == {f \in live : f.key = k}

PurgedAnyway(F, L, d) == L  \* mutant: does not look at disabled

\* What is left of the files F if those in L are live and file deletions are
\* disabled d times.  RocksDB looks for obsolete files at the end of each job
\* and whenever file deletions are enabled.
Purged(F, L, d) == IF d = 0 THEN L ELSE F

\* A job ends: the files in In give way to a new one.
Write(k, In, isRaw) ==
  LET new == [id |-> named + 1, key |-> k, raw |-> isRaw] IN
  /\ named < MaxFiles
  /\ named' = named + 1
  /\ live' = (live \ In) \cup {new}
  /\ files' = Purged(files \cup {new}, live', disabled)

BeginFlushAnyway(k) ==  \* mutant: does not look at the pauses
  /\ flush = Empty
  /\ flush' = k
  /\ UNCHANGED <<fileVars, compaction, delVars, pauseVars, copyVars, manualVars>>

BeginFlush(k) ==
  /\ paused = 0 /\ flush = Empty
  /\ flush' = k
  /\ UNCHANGED <<fileVars, compaction, delVars, pauseVars, copyVars, manualVars>>

EndFlush ==
  /\ flush # Empty
  /\ Write(flush, {}, TRUE)
  /\ flush' = Empty
  /\ UNCHANGED <<compaction, delVars, pauseVars, copyVars, manualVars>>

\* A compaction does not begin while a thread waits to pause, either.
BeginCompaction(k, byHand) ==
  /\ paused = 0 /\ pausing = {} /\ compaction = Idle
  /\ IF byHand THEN k \in todo ELSE \E f \in FilesOf(k) : f.raw
  /\ compaction' = [key |-> k, in |-> FilesOf(k), manual |-> byHand]
  /\ UNCHANGED <<fileVars, flush, delVars, pauseVars, copyVars, manualVars>>

EndCompaction ==
  /\ compaction # Idle
  /\ Write(compaction.key, compaction.in, FALSE)
  /\ todo' = IF compaction.manual THEN todo \ {compaction.key} ELSE todo
  /\ compaction' = Idle
  /\ UNCHANGED <<flush, delVars, pauseVars, copyVars, manual, owed>>

-----------------------------------------------------------------------------
(* Manual compaction.                                                      *)

\* SliceFromData(nil) is an empty slice.  Its address is what CompactRange
\* gets, never nullptr: a nil bound becomes the empty key.
Slice(bound) == IF bound = Nil THEN Empty ELSE bound

InSlices(s, e) == {k \in Key : Slice(s) <= k /\ k <= Slice(e)}

\* The keys of [start, end], a nil bound being before or after all keys.
Meant(s, e) == {k \in Key : (s = Nil \/ s <= k) /\ (e = Nil \/ k <= e)}

\* It returns when its jobs are done, which wait like any others while
\* background work is paused.
CompactRange(s, e) ==
  /\ manual # "running"
  /\ manual' = "running"
  /\ todo' = {k \in InSlices(s, e) : FilesOf(k) # {}}
  /\ owed' = {f \in live : f.raw /\ f.key \in Meant(s, e)}
  /\ UNCHANGED <<fileVars, jobVars, delVars, pauseVars, copyVars>>

CompactRangeDone ==
  /\ manual = "running" /\ todo = {}
  /\ manual' = "YES"
  /\ UNCHANGED <<fileVars, jobVars, delVars, pauseVars, copyVars, todo, owed>>

CompactRangeFailsQuietly ==  \* mutant: does not look at the status
  /\ manual = "running"
  /\ manual' = "YES" /\ todo' = {}
  /\ compaction' = IF compaction.manual THEN Idle ELSE compaction
  /\ UNCHANGED <<fileVars, flush, delVars, pauseVars, copyVars, owed>>

\* One of its jobs fails, and leaves the files it has read.
CompactRangeFails ==
  /\ manual = "running"
  /\ manual' = "NO" /\ todo' = {}
  /\ compaction' = IF compaction.manual THEN Idle ELSE compaction
  /\ UNCHANGED <<fileVars, flush, delVars, pauseVars, copyVars, owed>>

-----------------------------------------------------------------------------
(* File deletions and background work.                                     *)

DisableFileDeletions ==
  /\ disabled < MaxDisables
  /\ disabled' = disabled + 1 /\ held' = TRUE
  /\ UNCHANGED <<fileVars, jobVars, undone, pauseVars, copyVars, manualVars>>

\* EnableFileDeletions is called with its default, force: however often they
\* were disabled, and by whom.
EnableFileDeletions ==
  /\ disabled' = 0 /\ held' = FALSE /\ undone' = FALSE
  /\ files' = Purged(files, live, 0)
  /\ forced' = (forced \/ copying # {})
  /\ UNCHANGED <<live, named, jobVars, pauseVars, copying, failed, manualVars>>

CallPauseBackgroundWork(t) ==
  /\ t \notin pausing /\ pauses[t] < MaxPauses
  /\ pausing' = pausing \cup {t}
  /\ UNCHANGED <<fileVars, jobVars, delVars, paused, pauses, mine, quiet, copyVars, manualVars>>

\* "This function will wait until all currently running background processes
\* finish."
PauseBackgroundWork(t) ==
  /\ t \in pausing
  /\ flush = Empty /\ compaction = Idle
  /\ pausing' = pausing \ {t} /\ paused' = paused + 1
  /\ pauses' = [pauses EXCEPT ![t] = @ + 1] /\ quiet' = TRUE
  /\ UNCHANGED <<fileVars, jobVars, delVars, mine, copyVars, manualVars>>

\* Any thread can end a pause, its own or another's.  If there is none the
\* answer is NO, and nothing changes.
ContinueBackgroundWork(t) ==
  /\ paused > 0 /\ t \notin pausing
  /\ paused' = paused - 1
  /\ pauses' = [pauses EXCEPT ![t] = IF @ > 0 THEN @ - 1 ELSE @]
  /\ mine' = (mine /\ pauses[t] > 0) /\ quiet' = FALSE
  /\ UNCHANGED <<fileVars, jobVars, delVars, pausing, copyVars, manualVars>>

-----------------------------------------------------------------------------
(* A checkpoint disables file deletions for as long as it copies.          *)

BeginCheckpointUncounted ==  \* mutant: disabling is a flag and not a count
  /\ copying = {} /\ live # {}
  /\ copying' = live /\ forced' = FALSE /\ failed' = FALSE
  /\ disabled' = 1
  /\ UNCHANGED <<fileVars, jobVars, held, undone, pauseVars, manualVars>>

BeginCheckpoint ==
  /\ copying = {} /\ live # {}
  /\ copying' = live /\ forced' = FALSE /\ failed' = FALSE
  /\ disabled' = disabled + 1
  /\ UNCHANGED <<fileVars, jobVars, held, undone, pauseVars, manualVars>>

EndCheckpointBelowZero ==  \* mutant: counts one enable too many
  /\ disabled' = disabled - 1 /\ undone' = (undone \/ (held /\ forced))
  /\ files' = Purged(files, live, disabled')

\* After its last file, or a failure, it enables them again without force.
\* If its own disabling has been taken back already, it is another's that goes.
EndCheckpoint ==
  /\ disabled' = IF disabled > 0 THEN disabled - 1 ELSE disabled
  /\ undone' = (undone \/ (held /\ forced))
  /\ files' = Purged(files, live, disabled')

CopyFileAndForget(f) ==  \* mutant: does not enable file deletions again
  /\ f \in copying
  /\ failed' = (f \notin files)
  /\ copying' = IF failed' THEN {} ELSE copying \ {f}
  /\ UNCHANGED <<fileVars, jobVars, delVars, pauseVars, forced, manualVars>>

CopyFile(f) ==
  /\ f \in copying
  /\ failed' = (f \notin files)
  /\ copying' = IF failed' THEN {} ELSE copying \ {f}
  /\ IF copying' = {} THEN EndCheckpoint ELSE UNCHANGED <<disabled, undone, files>>
  /\ UNCHANGED <<live, named, jobVars, held, pauseVars, forced, manualVars>>

Job ==
  \/ \E k \in Key : BeginFlush(k) \/ \E byHand \in BOOLEAN : BeginCompaction(k, byHand)
  \/ EndFlush \/ EndCompaction

PauseOrContinue(t) ==
  CallPauseBackgroundWork(t) \/ PauseBackgroundWork(t) \/ ContinueBackgroundWork(t)

Maintain ==
  \/ \E s \in Start, e \in End : CompactRange(s, e)
  \/ CompactRangeDone \/ CompactRangeFails
  \/ DisableFileDeletions \/ EnableFileDeletions
  \/ BeginCheckpoint \/ \E f \in File : CopyFile(f)

Next == Job \/ Maintain \/ \E t \in Thread : PauseOrContinue(t)

Spec == Init /\ [][Next]_vars

\* A checkpoint goes on copying.
FairSpec == Spec /\ WF_vars(\E f \in File : CopyFile(f))

-----------------------------------------------------------------------------
(* Properties.                                                             *)

\* A checkpoint finds every file it has to copy, whatever is flushed and
\* compacted meanwhile; it can fail for a file only if a thread has enabled
\* file deletions, which forces them on, while it was copying.
CheckpointWhole ==
  /\ ~forced => copying \subseteq files
  /\ failed => forced

\* "After it returns, no background process will be run until
\* continueBackgroundWork is called."  And if no thread ends the pause of
\* another, none is run as long as a thread has a pause that it has not ended.
QuietWhilePaused ==
  quiet \/ (mine /\ \E t \in Thread : pauses[t] > 0) => flush = Empty /\ compaction = Idle

\* When compactRange answers YES, all data that the range held when it was
\* called has been compacted, whatever was written meanwhile: "a nil start key
\* is treated as a key before all keys, and a nil end key is treated as a key
\* after all keys".
RangeCompacted == manual = "YES" => owed \cap live = {}

\* Obsolete files are deleted in the end, if the application does not keep
\* file deletions disabled: no checkpoint leaves them so.
ObsoleteFilesGo ==
  <>[](~held) => \A n \in 1..MaxFiles :
    []((\E f \in files \ live : f.id = n) => <>(\A f \in files : f.id # n))

\* Once file deletions are disabled "compactions will continue to occur, but no
\* obsolete files will be deleted" until they are enabled, whichever checkpoints
\* begin and end meanwhile.  Only a checkpoint in which they were enabled before,
\* which is forced and took back its own disabling, takes back a later one of
\* the application when it ends.
DisabledMeansKept == [][held /\ held' /\ ~undone' => files \subseteq files']_vars
=============================================================================
