---------------------- MODULE RocksDBBackupEngineProofs ----------------------
(* What a careful application is told by a backup engine is true, and the  *)
(* engine is an archive of whole copies: for any number of writes, backups *)
(* and checkpoints.  Careful means that every error: points to nil.        *)
EXTENDS RocksDBBackupEngine, FiniteSetTheorems, FirstOrderInduction

Careful == ErrorArgument \subseteq {"nil"}

\* What the files due to the call in progress must hold is in the database
\* and can no longer be lost; once copied, it is in the copy.
CallInv ==
  call # Idle =>
    /\ answer = Idle
    /\ call.op = "create" =>
         /\ latest < MaxBackups /\ call.due \subseteq Writes
         /\ IF call.content = Nothing
              THEN call.due \subseteq Copy.writes
              ELSE call.content.state = "whole" /\ call.due \subseteq call.content.writes
    /\ call.op = "checkpoint" => call.due \subseteq Copy.writes

\* What was promised is in the newest backup.
NewestInv ==
  promise = {} \/ (Ids # {} /\ promise \subseteq backups[LargestOf(Ids)].writes)

EngineInv == TypeOK /\ CallInv /\ NewestInv /\ YesMeansDone

-----------------------------------------------------------------------------
(* The ids of the backups.                                                 *)

LEMMA LargestIs ==
  ASSUME NEW n \in Nat, NEW S \in SUBSET (1..n), S # {}
  PROVE  LargestOf(S) \in S /\ \A j \in S : j <= LargestOf(S)
<1>1. S \in SUBSET (0..n)
  OBVIOUS
<1>2. \E i \in S : \A j \in S : j <= i
  BY <1>1, LargestExists
<1>3. QED
  BY <1>2 DEF LargestOf

\* There is one largest element.
LEMMA LargestUnique ==
  ASSUME NEW n \in Nat, NEW S \in SUBSET (1..n), NEW i \in S, \A j \in S : j <= i
  PROVE  LargestOf(S) = i
<1>1. LargestOf(S) \in S /\ i <= LargestOf(S) /\ LargestOf(S) <= i
  BY LargestIs
<1>2. \A j \in S : j \in Nat
  OBVIOUS
<1>3. \A a, b \in Nat : a <= b /\ b <= a => a = b
  OBVIOUS
<1>4. QED
  BY <1>1, <1>2, <1>3, Zenon

LEMMA IdsFinite ==
  ASSUME TypeOK
  PROVE  /\ IsFiniteSet(Ids) /\ Ids \subseteq BackupId
         /\ Cardinality(Ids) \in Nat
<1>1. latest \in Nat /\ Ids \subseteq 1..latest /\ latest <= MaxBackups /\ MaxBackups \in Nat
  BY BoundAssumption DEF TypeOK
<1>2. IsFiniteSet(1..latest)
  BY <1>1, FS_Interval
<1>3. IsFiniteSet(Ids)
  BY <1>1, <1>2, FS_Subset
<1>4. QED
  BY <1>1, <1>3, FS_CardinalityType DEF BackupId

-----------------------------------------------------------------------------
(* What is in the database, and calls that come to an end.                 *)

LEMMA Databases ==
  ASSUME TypeOK
  PROVE  /\ Len(log) \in Nat /\ Writes \in WriteSet
         /\ Copy \in Content /\ Copy.state = "whole" /\ Copy # Nothing
         /\ Copy.writes = {i \in Writes : i <= flushed \/ log[i]}
<1>1. Len(log) \in Nat /\ Len(log) <= MaxWrites /\ MaxWrites \in Nat
  BY BoundAssumption DEF TypeOK
<1>2. Writes \in WriteSet
  BY <1>1 DEF Writes, WriteSet
<1>3. QED
  BY <1>1, <1>2 DEF Copy, Content, Whole, Nothing, WriteSet

LEMMA Returned ==
  ASSUME TypeOK, call # Idle, NEW ok \in BOOLEAN, Return(ok), Careful
  PROVE  /\ call' = Idle /\ answer' # Idle
         /\ answer' = [call |-> call, yes |-> ok]
         /\ answer'.call = call /\ answer'.yes = ok /\ call \in Call
<1>1. call \in Call
  BY DEF TypeOK
<1>2. call.error \in ErrorArgument
  BY <1>1 DEF Call
<1>3. Answers(ok, call.error) = ok
  BY <1>2 DEF Answers, Careful
<1>4. answer' = [call |-> call, yes |-> ok] /\ call' = Idle
  BY <1>3 DEF Return
<1>5. answer' \in [call : Call, yes : BOOLEAN]
  BY <1>1, <1>4
<1>6. QED
  BY <1>1, <1>4, <1>5, IdleAssumption

\* A call that begins.
LEMMA Begun ==
  ASSUME NEW c \in Call, Begin(c)
  PROVE  call = Idle /\ call' = c /\ call' # Idle /\ answer' = Idle
BY IdleAssumption DEF Begin

-----------------------------------------------------------------------------
(* What a step leaves alone.                                               *)

LEMMA CallKeeps ==
  ASSUME CallInv, UNCHANGED <<call, answer, latest>>,
         Writes \subseteq Writes', Copy.writes \subseteq Copy'.writes
  PROVE  CallInv'
BY DEF CallInv

LEMMA AnswerKeeps ==
  ASSUME YesMeansDone, UNCHANGED <<answer, backups, dest, checkpoints>>
  PROVE  YesMeansDone'
BY DEF YesMeansDone, Ids

LEMMA PromiseKeeps ==
  ASSUME NewestInv, UNCHANGED <<promise, backups>>
  PROVE  NewestInv'
BY DEF NewestInv, Ids

LEMMA EngineInitially == Init => EngineInv
<1> SUFFICES ASSUME Init PROVE EngineInv
  OBVIOUS
<1>1. log \in Seq(BOOLEAN) /\ Len(log) = 0 /\ DOMAIN backups = {}
  BY DEF Init
<1>2. Nothing \in Content
  BY DEF Content
<1>3. TypeOK
  <2>1. checkpoints \in [Path -> Content] /\ dest \in Content
    BY <1>2 DEF Init
  <2>2. promise = {} /\ Ids = {} /\ flushed \in 0..Len(log) /\ Len(log) <= MaxWrites
    BY <1>1, BoundAssumption DEF Init, Ids
  <2>3. latest = 0 /\ latest \in 0..MaxBackups
    BY BoundAssumption DEF Init
  <2>4. QED
    BY <1>1, <2>1, <2>2, <2>3 DEF Init, TypeOK
<1>4. QED
  BY <1>3 DEF EngineInv, Init, CallInv, NewestInv, YesMeansDone

\* Writes and flushes lose nothing of what a copy holds.
LEMMA DatabaseKeeps ==
  ASSUME EngineInv, (\E logged \in BOOLEAN : WriteDb(logged)) \/ FlushDb
  PROVE  EngineInv'
<1> USE DEF EngineInv
<1>1. UNCHANGED <<lost, engine, backups, latest, garbage, dest, checkpoints, call, answer, promise>>
  BY DEF WriteDb, FlushDb, engineVars
<1> DEFINE Grows ==
      /\ log' \in Seq(BOOLEAN) /\ Len(log') <= MaxWrites /\ flushed' \in 0..Len(log')
      /\ Len(log) <= Len(log') /\ flushed <= flushed'
      /\ \A i \in 1..Len(log) : log'[i] = log[i]
<1>2. Grows
  <2>1. CASE FlushDb
    BY <2>1 DEF FlushDb, TypeOK
  <2>2. ASSUME NEW logged \in BOOLEAN, WriteDb(logged) PROVE Grows
    <3>1. log' = Append(log, logged) /\ flushed' = flushed /\ Len(log) < MaxWrites
      BY <2>2 DEF WriteDb
    <3>2. Len(log') = Len(log) + 1
      BY <3>1 DEF TypeOK
    <3>3. Len(log) \in Nat /\ flushed \in 0..Len(log) /\ MaxWrites \in Nat
      BY BoundAssumption DEF TypeOK
    <3>4. log' \in Seq(BOOLEAN) /\ \A i \in 1..Len(log) : log'[i] = log[i]
      BY <3>1 DEF TypeOK
    <3>5. QED
      BY <3>1, <3>2, <3>3, <3>4
  <2>3. QED
    BY <2>1, <2>2
<1>3. Writes \subseteq Writes'
  BY <1>1, <1>2 DEF Writes, TypeOK
<1>4. TypeOK'
  BY <1>1, <1>2, <1>3 DEF TypeOK, Ids
<1>5. Copy.writes \subseteq Copy'.writes
  <2>1. Copy.writes = {i \in Writes : i <= flushed \/ log[i]}
    BY Databases
  <2>2. Copy'.writes = {i \in Writes' : i <= flushed' \/ log'[i]}
    BY DEF Copy, Whole
  <2>3. \A i \in Writes : log'[i] = log[i] /\ (i <= flushed => i <= flushed')
    BY <1>2 DEF Writes, TypeOK
  <2>4. QED
    BY <1>3, <2>1, <2>2, <2>3
<1>6. QED
  BY <1>1, <1>3, <1>4, <1>5, CallKeeps, AnswerKeeps, PromiseKeeps

LEMMA IdleKeeps ==
  ASSUME EngineInv, InitWithPath \/ Close \/ GarbageCollect
  PROVE  EngineInv'
<1> USE DEF EngineInv
<1>1. /\ UNCHANGED <<log, flushed, lost, backups, dest, checkpoints, call, answer, promise>>
      /\ engine' \in BOOLEAN /\ garbage' \in BOOLEAN
      /\ latest' \in {latest, LargestOf(Ids)}
      /\ latest' # latest => call = Idle
  BY DEF InitWithPath, Close, GarbageCollect, dbVars, TypeOK
<1>2. latest' \in 0..MaxBackups /\ Ids \subseteq 1..latest'
  <2>1. latest \in Nat /\ latest <= MaxBackups /\ MaxBackups \in Nat /\ Ids \in SUBSET (1..latest)
    BY BoundAssumption DEF TypeOK
  <2>2. CASE Ids = {}
    BY <1>1, <2>1, <2>2 DEF LargestOf
  <2>3. CASE Ids # {}
    <3>1. LargestOf(Ids) \in Ids /\ \A j \in Ids : j <= LargestOf(Ids)
      BY <2>1, <2>3, LargestIs
    <3>2. \A j \in Ids : j \in 1..LargestOf(Ids)
      BY <2>1, <3>1
    <3>3. QED
      BY <1>1, <2>1, <3>1, <3>2
  <2>4. QED BY <2>2, <2>3
<1>3. TypeOK'
  BY <1>1, <1>2 DEF TypeOK, Ids, Writes
<1>4. CallInv'
  <2>1. Writes' = Writes /\ Copy' = Copy
    BY <1>1 DEF Writes, Copy
  <2>2. CASE call = Idle
    BY <1>1, <2>2 DEF CallInv
  <2>3. CASE call # Idle
    BY <1>1, <2>1, <2>3, CallKeeps
  <2>4. QED
    BY <2>2, <2>3
<1>5. QED
  BY <1>1, <1>3, <1>4, AnswerKeeps, PromiseKeeps

-----------------------------------------------------------------------------
(* Calls begin, and fail.                                                  *)

\* A call that takes nothing from the engine or the database yet.
LEMMA BeginKeeps ==
  ASSUME EngineInv, NEW c \in Call, Begin(c),
         UNCHANGED <<dbVars, engineVars, checkpoints, promise>>, dest' \in Content,
         c.op \notin {"create", "checkpoint"}
  PROVE  EngineInv'
<1> USE DEF EngineInv
<1>1. call' = c /\ answer' = Idle
  BY Begun
<1>2. TypeOK'
  BY <1>1 DEF TypeOK, dbVars, engineVars, Ids, Writes
<1>3. CallInv'
  BY <1>1 DEF CallInv
<1>4. NewestInv'
  BY PromiseKeeps DEF engineVars
<1>5. YesMeansDone'
  BY <1>1 DEF YesMeansDone
<1>6. QED
  BY <1>2, <1>3, <1>4, <1>5

\* What is due to a call that copies the files is there when it begins.
LEMMA BeginCopyKeeps ==
  ASSUME EngineInv, NEW c \in Call, Begin(c), flushed' \in {flushed, Len(log)},
         UNCHANGED <<log, lost, engineVars, dest, checkpoints, promise>>,
         c.due \subseteq Copy'.writes,
         \/ c.op = "create" /\ latest < MaxBackups /\ c.content = Nothing
         \/ c.op = "checkpoint"
  PROVE  EngineInv'
<1> USE DEF EngineInv
<1>1. call' = c /\ answer' = Idle
  BY Begun
<1>2. Writes' = Writes /\ Copy'.writes \subseteq Writes
  BY DEF Writes, Copy, Whole
<1>3. TypeOK'
  BY <1>1, <1>2 DEF TypeOK, engineVars, Ids
<1>4. CallInv'
  BY <1>1, <1>2 DEF CallInv, engineVars
<1>5. NewestInv'
  BY PromiseKeeps DEF engineVars
<1>6. YesMeansDone'
  BY <1>1 DEF YesMeansDone
<1>7. QED
  BY <1>3, <1>4, <1>5, <1>6

LEMMA BeginCreateKeeps ==
  ASSUME EngineInv, NEW flush \in BOOLEAN, NEW e \in ErrorArgument, BeginCreate(flush, e)
  PROVE  EngineInv'
<1> DEFINE c == [op |-> "create", error |-> e, flush |-> flush, content |-> Nothing,
                 due |-> IF flush THEN Writes ELSE Copy.writes]
<1>1. Writes \in WriteSet /\ Copy.writes \in WriteSet /\ Nothing \in Content
  BY Databases DEF EngineInv, Content, WriteSet
<1>2. c \in Call
  BY <1>1 DEF Call
<1>3. c.due \subseteq Copy'.writes
  <2>1. Copy'.writes = {i \in Writes : i <= flushed' \/ log[i]}
    BY DEF BeginCreate, Copy, Whole, Writes
  <2>2. Copy.writes = {i \in Writes : i <= flushed \/ log[i]}
    BY DEF Copy, Whole
  <2>3. flushed' = IF flush THEN Len(log) ELSE flushed
    BY DEF BeginCreate
  <2>4. QED
    BY <2>1, <2>2, <2>3 DEF Writes
<1>4. /\ Begin(c) /\ latest < MaxBackups /\ flushed' \in {flushed, Len(log)}
      /\ UNCHANGED <<log, lost, engineVars, dest, checkpoints, promise>>
  BY DEF BeginCreate
<1>5. c.op = "create" /\ c.content = Nothing
  OBVIOUS
<1> HIDE DEF c
<1>6. QED
  BY <1>2, <1>3, <1>4, <1>5, BeginCopyKeeps

LEMMA BeginCheckpointKeeps ==
  ASSUME EngineInv, NEW p \in Path, NEW e \in ErrorArgument, BeginCheckpoint(p, e)
  PROVE  EngineInv'
<1> DEFINE c == [op |-> "checkpoint", error |-> e, path |-> p, due |-> Writes]
<1>1. c \in Call
  BY Databases DEF EngineInv, Call
<1>2. c.due \subseteq Copy'.writes
  BY DEF BeginCheckpoint, Copy, Whole, Writes
<1>3. /\ Begin(c) /\ flushed' \in {flushed, Len(log)} /\ c.op = "checkpoint"
      /\ UNCHANGED <<log, lost, engineVars, dest, checkpoints, promise>>
  BY DEF BeginCheckpoint
<1> HIDE DEF c
<1>4. QED
  BY <1>1, <1>2, <1>3, BeginCopyKeeps

LEMMA BeginOnBackupKeeps ==
  ASSUME EngineInv, NEW id \in BackupId, NEW e \in ErrorArgument,
         BeginRestore(id, e) \/ BeginDelete(id, e)
  PROVE  EngineInv'
<1>1. \A op \in {"restore", "delete"} : [op |-> op, error |-> e, id |-> id] \in Call
  BY DEF Call
<1>2. dest' \in Content
  BY DEF BeginRestore, BeginDelete, Content, EngineInv, TypeOK
<1>3. CASE BeginRestore(id, e)
  BY <1>1, <1>2, <1>3, BeginKeeps DEF BeginRestore
<1>4. CASE BeginDelete(id, e)
  BY <1>1, <1>2, <1>4, BeginKeeps DEF BeginDelete
<1>5. QED
  BY <1>3, <1>4

LEMMA BeginRestoreLatestKeeps ==
  ASSUME EngineInv, NEW e \in ErrorArgument, BeginRestoreLatest(e)
  PROVE  EngineInv'
<1>1. LargestOf(Ids) \in Ids
  BY LargestIs DEF EngineInv, TypeOK, BeginRestoreLatest
<1>2. LargestOf(Ids) \in BackupId
  BY <1>1, IdsFinite DEF EngineInv
<1>3. QED
  BY <1>2, BeginOnBackupKeeps DEF BeginRestoreLatest

LEMMA BeginPurgeKeeps ==
  ASSUME EngineInv, NEW keep \in 0..MaxBackups, NEW e \in ErrorArgument, BeginPurge(keep, e)
  PROVE  EngineInv'
<1>1. [op |-> "purge", error |-> e, keep |-> keep] \in Call
  BY DEF Call
<1>2. QED
  BY <1>1, BeginKeeps DEF BeginPurge, EngineInv, TypeOK

\* A failed call leaves no more than files that belong to no backup.
LEMMA FailureKeeps ==
  ASSUME EngineInv, Careful, NEW op, Fails(op), UNCHANGED <<dest, checkpoints, promise>>
  PROVE  EngineInv'
<1> USE DEF EngineInv
<1>1. /\ call' = Idle /\ answer'.yes = FALSE /\ answer'.yes \in BOOLEAN
      /\ answer'.call \in Call
  BY Returned DEF Fails
<1>2. UNCHANGED <<log, flushed, lost, engine, backups, latest>> /\ garbage' \in BOOLEAN
  BY DEF Fails, dbVars, TypeOK
<1>3. TypeOK'
  BY <1>1, <1>2 DEF TypeOK, Ids, Writes
<1>4. QED
  BY <1>1, <1>2, <1>3, PromiseKeeps DEF CallInv, YesMeansDone

\* A failed backup was not answered YES, so that nothing new is promised.
LEMMA CreateFailsKeeps ==
  ASSUME EngineInv, Careful, CreateFails
  PROVE  EngineInv'
<1>1. answer'.yes = FALSE
  BY Returned DEF CreateFails, Fails, EngineInv
<1>2. QED
  BY <1>1, FailureKeeps DEF CreateFails

-----------------------------------------------------------------------------
(* Calls that do what they were asked to.                                  *)

LEMMA CopyFilesKeeps ==
  ASSUME EngineInv, CopyFiles
  PROVE  EngineInv'
<1> USE DEF EngineInv
<1>1. /\ call # Idle /\ call.op = "create" /\ call.content = Nothing
      /\ call' = [call EXCEPT !.content = Copy]
      /\ UNCHANGED <<log, flushed, lost, engine, backups, latest, garbage, dest, checkpoints,
                     answer, promise>>
  BY DEF CopyFiles, dbVars, engineVars
<1>2. Copy \in Content /\ Copy.state = "whole" /\ Copy # Nothing
  BY Databases
<1>3. call \in [op : {"create"}, error : ErrorArgument, flush : BOOLEAN,
                due : WriteSet, content : Content]
  BY <1>1 DEF TypeOK, Call
<1>4. /\ call' \in Call /\ call'.op = "create" /\ call'.content = Copy
      /\ call'.due = call.due
  BY <1>1, <1>2, <1>3 DEF Call
<1>5. TypeOK'
  BY <1>1, <1>4 DEF TypeOK, Ids, Writes
<1>6. CallInv'
  <2>1. Writes' = Writes
    BY <1>1 DEF Writes
  <2>2. call.due \subseteq Copy.writes /\ call.due \subseteq Writes /\ answer = Idle
        /\ latest < MaxBackups
    BY <1>1 DEF CallInv
  <2>3. QED
    BY <1>1, <1>2, <1>4, <2>1, <2>2 DEF CallInv
<1>7. QED
  BY <1>1, <1>5, <1>6, AnswerKeeps, PromiseKeeps

\* The new backup is the newest, and holds what was due when it was asked for.
LEMMA CreateBackupKeeps ==
  ASSUME EngineInv, Careful, CreateBackup
  PROVE  EngineInv'
<1> USE DEF EngineInv
<1> DEFINE id == latest + 1
<1>1. /\ call # Idle /\ call.op = "create" /\ call.content # Nothing
      /\ backups' = [b \in Ids \cup {id} |-> IF b = id THEN call.content ELSE backups[b]]
      /\ latest' = id /\ promise' = call.due
      /\ UNCHANGED <<log, flushed, lost, engine, garbage, dest, checkpoints>>
  BY DEF CreateBackup, AddBackup, dbVars
<1>2. /\ latest \in Nat /\ Ids \in SUBSET (1..latest) /\ id \in 1..MaxBackups
  BY <1>1, BoundAssumption DEF TypeOK, CallInv
<1>3. /\ call.content \in Content /\ call.content.state = "whole"
      /\ call.due \subseteq call.content.writes /\ call.due \subseteq Writes
  <2>1. call \in [op : {"create"}, error : ErrorArgument, flush : BOOLEAN,
                  due : WriteSet, content : Content]
    BY <1>1 DEF TypeOK, Call
  <2>2. QED
    BY <1>1, <2>1 DEF CallInv
<1>4. call' = Idle /\ answer'.call = call /\ answer'.yes \in BOOLEAN /\ call \in Call
  BY <1>1, Returned DEF CreateBackup, AddBackup
<1>5. /\ Ids' = Ids \cup {id} /\ backups'[id] = call.content
      /\ \A b \in Ids : backups'[b] = backups[b]
  BY <1>1, <1>2 DEF Ids
<1>6. Ids' \in SUBSET (1..id) /\ id \in Nat /\ \A b \in Ids' : b <= id
  BY <1>2, <1>5
<1>7. LargestOf(Ids') = id
  BY <1>5, <1>6, LargestUnique
<1>8. TypeOK'
  BY <1>1, <1>2, <1>3, <1>4, <1>5, <1>6 DEF TypeOK, Writes
<1>9. NewestInv'
  BY <1>1, <1>3, <1>5, <1>7 DEF NewestInv
<1>10. YesMeansDone'
  BY <1>1, <1>3, <1>4, <1>5 DEF YesMeansDone
<1>11. QED
  BY <1>4, <1>8, <1>9, <1>10 DEF CallInv

LEMMA RestoreKeeps ==
  ASSUME EngineInv, Careful, Restore
  PROVE  EngineInv'
<1> USE DEF EngineInv
<1>1. /\ call # Idle /\ call.op = "restore" /\ call.id \in Ids /\ dest' = backups[call.id]
      /\ UNCHANGED <<log, flushed, lost, engine, backups, latest, garbage, checkpoints, promise>>
  BY DEF Restore, dbVars, engineVars
<1>2. call' = Idle /\ answer'.call = call /\ answer'.yes \in BOOLEAN /\ call \in Call
  BY <1>1, Returned DEF Restore
<1>3. TypeOK'
  BY <1>1, <1>2 DEF TypeOK, Ids, Writes
<1>4. YesMeansDone'
  BY <1>1, <1>2 DEF YesMeansDone, Ids
<1>5. QED
  BY <1>1, <1>2, <1>3, <1>4, PromiseKeeps DEF CallInv

\* When a backup that is not the newest goes, the newest stays.
LEMMA RemoveKeepsNewest ==
  ASSUME TypeOK, NEW id \in Ids, Remove(id), id # LargestOf(Ids)
  PROVE  /\ Ids' # {} /\ LargestOf(Ids') = LargestOf(Ids)
         /\ backups'[LargestOf(Ids)] = backups[LargestOf(Ids)]
<1>1. latest \in Nat /\ Ids \in SUBSET (1..latest)
  BY DEF TypeOK
<1>2. LargestOf(Ids) \in Ids /\ \A b \in Ids : b <= LargestOf(Ids)
  BY <1>1, LargestIs
<1>3. Ids' = Ids \ {id} /\ \A b \in Ids \ {id} : backups'[b] = backups[b]
  BY DEF Remove, Ids
<1>4. LargestOf(Ids) \in Ids' /\ Ids' \in SUBSET (1..latest)
  BY <1>1, <1>2, <1>3
<1>5. LargestOf(Ids') = LargestOf(Ids)
  BY <1>1, <1>2, <1>3, <1>4, LargestUnique
<1>6. QED
  BY <1>2, <1>3, <1>4, <1>5

LEMMA RemoveTypes ==
  ASSUME TypeOK, NEW id \in Ids, Remove(id), UNCHANGED latest
  PROVE  /\ Ids' \subseteq 1..latest' /\ latest' \in 0..MaxBackups
         /\ \A b \in Ids' : backups'[b] \in Content /\ backups'[b].state = "whole"
         /\ id \notin Ids' /\ garbage' \in BOOLEAN
<1>1. Ids' = Ids \ {id} /\ \A b \in Ids \ {id} : backups'[b] = backups[b]
  BY DEF Remove, Ids
<1>2. QED
  BY <1>1 DEF TypeOK, Remove

LEMMA DeleteBackupKeeps ==
  ASSUME EngineInv, Careful, DeleteBackup
  PROVE  EngineInv'
<1> USE DEF EngineInv
<1>1. /\ call # Idle /\ call.op = "delete" /\ call.id \in Ids /\ Remove(call.id)
      /\ promise' = IF call.id = LargestOf(Ids) THEN {} ELSE promise
      /\ UNCHANGED <<log, flushed, lost, engine, latest, dest, checkpoints>>
  BY DEF DeleteBackup, dbVars
<1>2. call' = Idle /\ answer'.call = call /\ answer'.yes \in BOOLEAN /\ call \in Call
  BY <1>1, Returned DEF DeleteBackup
<1>3. TypeOK'
  BY <1>1, <1>2, RemoveTypes DEF TypeOK, Writes
<1>4. NewestInv'
  BY <1>1, RemoveKeepsNewest DEF NewestInv
<1>5. YesMeansDone'
  BY <1>1, <1>2, RemoveTypes DEF YesMeansDone
<1>6. QED
  BY <1>2, <1>3, <1>4, <1>5 DEF CallInv

\* A purge that keeps any backup takes the oldest of two at least.
LEMMA OldestIs ==
  ASSUME TypeOK, call # Idle, call.op = "purge", Cardinality(Ids) > call.keep
  PROVE  LET id == CHOOSE b \in Ids : \A c \in Ids : b <= c IN
         /\ id \in Ids /\ \A c \in Ids : id <= c
         /\ call.keep # 0 => id # LargestOf(Ids)
<1> DEFINE id == CHOOSE b \in Ids : \A c \in Ids : b <= c
<1>1. call.keep \in Nat
  BY BoundAssumption DEF TypeOK, Call
<1>2. latest \in Nat /\ Ids \in SUBSET (1..latest) /\ Ids \in SUBSET Nat
  BY DEF TypeOK
<1>3. IsFiniteSet(Ids) /\ Cardinality(Ids) \in Nat
  BY IdsFinite
<1>4. Ids # {}
  BY <1>1, <1>3, FS_EmptySet
<1>5. id \in Ids /\ \A c \in Ids : id <= c
  BY <1>2, <1>4, LeastExists
<1>6. ASSUME call.keep # 0, id = LargestOf(Ids) PROVE FALSE
  <2>1. \A c \in Ids : c <= id
    BY <1>2, <1>4, <1>6, LargestIs
  <2>2. \A c \in Ids : c = id
    <3>1. \A a, b \in Nat : a <= b /\ b <= a => a = b
      OBVIOUS
    <3>2. QED
      BY <1>2, <1>5, <2>1, <3>1
  <2>3. Ids = {id}
    BY <1>5, <2>2
  <2>4. Cardinality(Ids) = 1
    BY <2>3, FS_Singleton
  <2>5. QED
    BY <1>1, <1>6, <2>4
<1>7. QED
  BY <1>5, <1>6

LEMMA PurgeOldestKeeps ==
  ASSUME EngineInv, PurgeOldest
  PROVE  EngineInv'
<1> USE DEF EngineInv
<1> DEFINE id == CHOOSE b \in Ids : \A c \in Ids : b <= c
<1>1. /\ call # Idle /\ call.op = "purge" /\ Cardinality(Ids) > call.keep
      /\ Remove(id) /\ promise' = IF call.keep = 0 THEN {} ELSE promise
      /\ UNCHANGED <<log, flushed, lost, engine, latest, dest, checkpoints, call, answer>>
  BY DEF PurgeOldest, dbVars
<1>2. id \in Ids /\ (call.keep # 0 => id # LargestOf(Ids))
  BY <1>1, OldestIs
<1> HIDE DEF id
<1>3. TypeOK'
  BY <1>1, <1>2, RemoveTypes DEF TypeOK, Writes
<1>4. NewestInv'
  BY <1>1, <1>2, RemoveKeepsNewest DEF NewestInv
<1>5. answer' = Idle
  BY <1>1 DEF CallInv
<1>6. QED
  BY <1>1, <1>3, <1>4, <1>5 DEF CallInv, YesMeansDone

LEMMA EndPurgeKeeps ==
  ASSUME EngineInv, Careful, EndPurge
  PROVE  EngineInv'
<1> USE DEF EngineInv
<1>1. /\ call # Idle /\ call.op = "purge" /\ Cardinality(Ids) <= call.keep
      /\ UNCHANGED <<log, flushed, lost, engine, backups, latest, garbage, dest, checkpoints, promise>>
  BY DEF EndPurge, dbVars, engineVars
<1>2. call' = Idle /\ answer'.call = call /\ answer'.yes \in BOOLEAN /\ call \in Call
  BY <1>1, Returned DEF EndPurge
<1>3. TypeOK'
  BY <1>1, <1>2 DEF TypeOK, Ids, Writes
<1>4. YesMeansDone'
  BY <1>1, <1>2 DEF YesMeansDone, Ids
<1>5. QED
  BY <1>1, <1>2, <1>3, <1>4, PromiseKeeps DEF CallInv

LEMMA CreateCheckpointKeeps ==
  ASSUME EngineInv, Careful, CreateCheckpoint
  PROVE  EngineInv'
<1> USE DEF EngineInv
<1>1. /\ call # Idle /\ call.op = "checkpoint"
      /\ checkpoints' = [checkpoints EXCEPT ![call.path] = Copy]
      /\ UNCHANGED <<log, flushed, lost, engine, backups, latest, garbage, dest, promise>>
  BY DEF CreateCheckpoint, dbVars, engineVars
<1>2. call' = Idle /\ answer'.call = call /\ answer'.yes \in BOOLEAN /\ call \in Call
  BY <1>1, Returned DEF CreateCheckpoint
<1>3. call.path \in Path /\ call.due \subseteq Copy.writes
  BY <1>1, <1>2 DEF Call, CallInv
<1>4. Copy \in Content /\ Copy.state = "whole"
  BY Databases
<1>5. TypeOK'
  BY <1>1, <1>2, <1>3, <1>4 DEF TypeOK, Ids, Writes
<1>6. checkpoints'[call.path] = Copy
  BY <1>1, <1>3 DEF TypeOK
<1>7. YesMeansDone'
  BY <1>1, <1>2, <1>3, <1>4, <1>6 DEF YesMeansDone
<1>8. QED
  BY <1>1, <1>2, <1>5, <1>7, PromiseKeeps DEF CallInv

LEMMA CrashKeeps ==
  ASSUME EngineInv, Crash
  PROVE  EngineInv'
<1> USE DEF EngineInv
<1>1. /\ call' = Idle /\ answer' = Idle /\ engine' \in BOOLEAN /\ garbage' \in BOOLEAN
      /\ lost' \subseteq 1..Len(log)
      /\ UNCHANGED <<log, flushed, backups, latest, dest, checkpoints, promise>>
  BY DEF Crash, Writes, TypeOK
<1>2. TypeOK'
  BY <1>1 DEF TypeOK, Ids, Writes
<1>3. QED
  BY <1>1, <1>2, PromiseKeeps DEF CallInv, YesMeansDone

-----------------------------------------------------------------------------
(* The invariant and the theorems.                                         *)

LEMMA EngineStep ==
  ASSUME EngineInv, Careful, [Next]_vars
  PROVE  EngineInv'
<1>1. CASE UNCHANGED vars
  BY <1>1 DEF vars, dbVars, engineVars, EngineInv, TypeOK, CallInv, NewestInv, YesMeansDone,
    Copy, Writes, Ids
<1>2. CASE \E logged \in BOOLEAN : WriteDb(logged)
  BY <1>2, DatabaseKeeps
<1>3. CASE FlushDb
  BY <1>3, DatabaseKeeps
<1>4. CASE InitWithPath \/ Close \/ GarbageCollect
  BY <1>4, IdleKeeps
<1>5. CASE Crash \/ CallOnClosed
  BY <1>5, CrashKeeps DEF CallOnClosed
<1>6. ASSUME NEW e \in ErrorArgument, NEW flush \in BOOLEAN, BeginCreate(flush, e)
      PROVE  EngineInv'
  BY <1>6, BeginCreateKeeps
<1>7. ASSUME NEW e \in ErrorArgument, NEW id \in BackupId,
             BeginRestore(id, e) \/ BeginDelete(id, e)
      PROVE  EngineInv'
  BY <1>7, BeginOnBackupKeeps
<1>8. ASSUME NEW e \in ErrorArgument, BeginRestoreLatest(e) PROVE EngineInv'
  BY <1>8, BeginRestoreLatestKeeps
<1>9. ASSUME NEW e \in ErrorArgument, NEW keep \in 0..MaxBackups, BeginPurge(keep, e)
      PROVE  EngineInv'
  BY <1>9, BeginPurgeKeeps
<1>10. ASSUME NEW e \in ErrorArgument, NEW p \in Path, BeginCheckpoint(p, e)
       PROVE  EngineInv'
  BY <1>10, BeginCheckpointKeeps
<1>11. CASE CopyFiles \/ CreateBackup \/ Restore \/ DeleteBackup \/ PurgeOldest \/ EndPurge
            \/ CreateCheckpoint
  BY <1>11, CopyFilesKeeps, CreateBackupKeeps, RestoreKeeps, DeleteBackupKeeps,
    PurgeOldestKeeps, EndPurgeKeeps, CreateCheckpointKeeps
<1>12. CASE CreateFails
  BY <1>12, CreateFailsKeeps
<1>13. CASE RestoreFails \/ DeleteFails \/ PurgeFails \/ CheckpointFails
  BY <1>13, FailureKeeps DEF RestoreFails, DeleteFails, PurgeFails, CheckpointFails
<1>14. QED
  BY <1>1, <1>2, <1>3, <1>4, <1>5, <1>6, <1>7, <1>8, <1>9, <1>10, <1>11, <1>12, <1>13
  DEF Next

LEMMA EngineInvariant == ASSUME Careful PROVE Spec => []EngineInv
<1>1. EngineInv /\ [Next]_vars => EngineInv'
  BY EngineStep
<1>2. QED
  BY <1>1, EngineInitially, PTL DEF Spec

\* Whatever the engine holds and answers is of its type.
THEOREM EngineTypes == ASSUME Careful PROVE Spec => []TypeOK
BY EngineInvariant, PTL DEF EngineInv

\* To an application that looks at errors a backup answered YES is not lost:
\* through failures, crashes and purges some backup holds what was promised.
THEOREM PromiseKept == ASSUME Careful PROVE Spec => []BackupPromise
<1>1. EngineInv => BackupPromise
  <2>1. ASSUME EngineInv, promise # {} PROVE LargestOf(Ids) \in Ids
    BY <2>1, LargestIs DEF EngineInv, NewestInv, TypeOK
  <2>2. QED
    BY <2>1 DEF EngineInv, NewestInv, BackupPromise
<1>2. QED
  BY <1>1, EngineInvariant, PTL

\* And every YES it gets is true.
THEOREM YesIsTrue == ASSUME Careful PROVE Spec => []YesMeansDone
BY EngineInvariant, PTL DEF EngineInv

-----------------------------------------------------------------------------
(* The refinement.                                                         *)

\* What the archive was last told, from the answer.
Told == IF answer # Idle /\ answer.yes THEN answer.call.op ELSE "nothing"

ArchiveVars == <<backups, dest, checkpoints, Told>>

LEMMA AnswerShows ==
  ASSUME UNCHANGED <<backups, dest, checkpoints>>, Told' \in {"purge", "nothing"}
  PROVE  Archive!Next
BY DEF Archive!Next, Archive!Answer, Told

LEMMA ReturnShows ==
  ASSUME EngineInv, Careful, call # Idle, NEW ok \in BOOLEAN, Return(ok)
  PROVE  Told' = IF ok THEN call.op ELSE "nothing"
BY Returned DEF Told, EngineInv

LEMMA FailureShows ==
  ASSUME EngineInv, Careful, NEW op, Fails(op), UNCHANGED <<dest, checkpoints>>
  PROVE  Archive!Next
<1>1. call # Idle /\ Return(FALSE) /\ UNCHANGED backups
  BY DEF Fails
<1>2. Told' = "nothing"
  BY <1>1, ReturnShows
<1>3. QED
  BY <1>1, <1>2, AnswerShows

LEMMA StutterShows ==
  ASSUME UNCHANGED <<backups, dest, checkpoints, answer>>
  PROVE  UNCHANGED ArchiveVars
BY DEF ArchiveVars, Told

LEMMA BeginShows ==
  ASSUME NEW c, Begin(c), UNCHANGED <<backups, dest, checkpoints>>
  PROVE  Archive!Next
BY AnswerShows DEF Begin, Told

LEMMA BeginRestoreShows ==
  ASSUME NEW id, NEW e, BeginRestore(id, e)
  PROVE  Archive!Next
<1>1. /\ Told' = "nothing" /\ UNCHANGED <<backups, checkpoints>>
      /\ dest' = IF id \in Ids THEN Partial ELSE dest
  BY DEF BeginRestore, Begin, Told, engineVars
<1>2. CASE id \in Ids
  BY <1>1, <1>2 DEF Archive!Next, Archive!BeginRestore, Archive!BackupInfo, Ids, Told
<1>3. CASE id \notin Ids
  BY <1>1, <1>3, AnswerShows
<1>4. QED
  BY <1>2, <1>3

LEMMA CreateBackupShows ==
  ASSUME EngineInv, Careful, CreateBackup
  PROVE  Archive!Next
<1> DEFINE id == latest + 1
<1>1. /\ call # Idle /\ call.op = "create" /\ call.content # Nothing /\ Return(TRUE)
      /\ backups' = [b \in Ids \cup {id} |-> IF b = id THEN call.content ELSE backups[b]]
      /\ UNCHANGED <<dest, checkpoints>>
  BY DEF CreateBackup, AddBackup
<1>2. Told' = "create"
  BY <1>1, ReturnShows
<1>3. id \in BackupId /\ \A b \in Ids : b < id
  <2>1. latest \in Nat /\ latest < MaxBackups /\ MaxBackups \in Nat /\ Ids \subseteq 1..latest
    BY <1>1, BoundAssumption DEF EngineInv, TypeOK, CallInv
  <2>2. QED
    BY <2>1 DEF BackupId
<1>4. call.content \in {Whole(W) : W \in WriteSet}
  <2>1. call.content \in Content /\ call.content.state = "whole"
    BY <1>1 DEF EngineInv, TypeOK, Call, CallInv
  <2>2. QED
    BY <2>1 DEF Content, Nothing, Partial
<1> HIDE DEF id
<1>5. Archive!CreateBackupForDatabase
  BY <1>1, <1>2, <1>3, <1>4
  DEF Archive!CreateBackupForDatabase, Archive!BackupInfo, Ids, Told
<1>6. QED
  BY <1>5 DEF Archive!Next

LEMMA RestoreShows ==
  ASSUME EngineInv, Careful, Restore
  PROVE  Archive!Next
<1>1. /\ call # Idle /\ call.op = "restore" /\ call.id \in Ids /\ Return(TRUE)
      /\ dest' = backups[call.id] /\ UNCHANGED <<backups, checkpoints>>
  BY DEF Restore, engineVars
<1>2. Told' = "restore"
  BY <1>1, ReturnShows
<1>3. Archive!RestoreBackupWithId(call.id)
  BY <1>1, <1>2 DEF Archive!RestoreBackupWithId, Told
<1>4. QED
  BY <1>1, <1>3 DEF Archive!Next, Archive!BackupInfo, Ids

LEMMA DeleteBackupShows ==
  ASSUME EngineInv, Careful, DeleteBackup
  PROVE  Archive!Next
<1>1. /\ call # Idle /\ call.op = "delete" /\ call.id \in Ids /\ Return(TRUE)
      /\ Remove(call.id) /\ UNCHANGED <<dest, checkpoints>>
  BY DEF DeleteBackup
<1>2. Told' = "delete"
  BY <1>1, ReturnShows
<1>3. Archive!DeleteBackupWithId(call.id)
  BY <1>1, <1>2
  DEF Archive!DeleteBackupWithId, Archive!Without, Archive!BackupInfo, Remove, Ids, Told
<1>4. QED
  BY <1>1, <1>3 DEF Archive!Next, Archive!BackupInfo, Ids

LEMMA PurgeOldestShows ==
  ASSUME EngineInv, PurgeOldest
  PROVE  Archive!Next
<1> DEFINE id == CHOOSE b \in Ids : \A c \in Ids : b <= c
<1>1. /\ call # Idle /\ call.op = "purge" /\ Cardinality(Ids) > call.keep
      /\ Remove(id) /\ UNCHANGED <<dest, checkpoints, answer>>
  BY DEF PurgeOldest
<1>2. id \in Ids
  BY <1>1, OldestIs DEF EngineInv
<1>3. answer' = Idle
  BY <1>1 DEF EngineInv, CallInv
<1>4. Told' = "nothing"
  BY <1>3 DEF Told
<1>5. Archive!Oldest = id
  BY Zenon DEF Archive!Oldest, Archive!BackupInfo, Ids
<1> HIDE DEF id
<1>6. Archive!PurgeOldest
  BY <1>1, <1>2, <1>4, <1>5
  DEF Archive!PurgeOldest, Archive!Without, Archive!BackupInfo, Remove, Ids, Told
<1>7. QED
  BY <1>6 DEF Archive!Next

LEMMA CreateCheckpointShows ==
  ASSUME EngineInv, Careful, CreateCheckpoint
  PROVE  Archive!Next
<1>1. /\ call # Idle /\ call.op = "checkpoint" /\ checkpoints[call.path] = Nothing
      /\ Return(TRUE) /\ checkpoints' = [checkpoints EXCEPT ![call.path] = Copy]
      /\ UNCHANGED <<backups, dest>>
  BY DEF CreateCheckpoint, engineVars
<1>2. Told' = "checkpoint"
  BY <1>1, ReturnShows
<1>3. call.path \in Path
  BY <1>1 DEF EngineInv, TypeOK, Call
<1>4. Copy \in {Whole(W) : W \in WriteSet}
  <2>1. {i \in Writes : i <= flushed \/ log[i]} \in WriteSet
    BY Databases DEF EngineInv, WriteSet
  <2>2. QED
    BY <2>1 DEF Copy
<1>5. Archive!CreateCheckpointAtPath(call.path)
  BY <1>1, <1>2, <1>4 DEF Archive!CreateCheckpointAtPath, Told
<1>6. QED
  BY <1>3, <1>5 DEF Archive!Next

LEMMA StepShows ==
  ASSUME EngineInv, Careful, [Next]_vars
  PROVE  [Archive!Next]_ArchiveVars
<1>1. CASE UNCHANGED vars
  BY <1>1, StutterShows DEF vars, engineVars
<1>2. CASE (\E logged \in BOOLEAN : WriteDb(logged)) \/ FlushDb
  BY <1>2, StutterShows DEF WriteDb, FlushDb, engineVars
<1>3. CASE InitWithPath \/ Close \/ GarbageCollect \/ CopyFiles
  BY <1>3, StutterShows DEF InitWithPath, Close, GarbageCollect, CopyFiles, engineVars
<1>4. CASE Crash \/ CallOnClosed
  BY <1>4, AnswerShows DEF CallOnClosed, Crash, Told
<1>5. ASSUME NEW e \in ErrorArgument, NEW flush \in BOOLEAN, BeginCreate(flush, e)
      PROVE  Archive!Next
  BY <1>5, BeginShows DEF BeginCreate, engineVars
<1>6. ASSUME NEW e \in ErrorArgument, NEW id \in BackupId,
             BeginRestore(id, e) \/ BeginDelete(id, e)
      PROVE  Archive!Next
  BY <1>6, BeginRestoreShows, BeginShows DEF BeginDelete, engineVars
<1>7. ASSUME NEW e \in ErrorArgument, BeginRestoreLatest(e) PROVE Archive!Next
  BY <1>7, BeginRestoreShows DEF BeginRestoreLatest
<1>8. ASSUME NEW e \in ErrorArgument, NEW keep \in 0..MaxBackups, BeginPurge(keep, e)
      PROVE  Archive!Next
  BY <1>8, BeginShows DEF BeginPurge, engineVars
<1>9. ASSUME NEW e \in ErrorArgument, NEW p \in Path, BeginCheckpoint(p, e)
      PROVE  Archive!Next
  BY <1>9, BeginShows DEF BeginCheckpoint, engineVars
<1>10. CASE CreateBackup \/ Restore \/ DeleteBackup \/ PurgeOldest \/ CreateCheckpoint
  BY <1>10, CreateBackupShows, RestoreShows, DeleteBackupShows, PurgeOldestShows,
    CreateCheckpointShows
<1>11. CASE EndPurge
  <2>1. call # Idle /\ call.op = "purge" /\ Return(TRUE)
        /\ UNCHANGED <<backups, dest, checkpoints>>
    BY <1>11 DEF EndPurge, engineVars
  <2>2. QED
    BY <2>1, ReturnShows, AnswerShows
<1>12. CASE CreateFails \/ RestoreFails \/ DeleteFails \/ PurgeFails \/ CheckpointFails
  BY <1>12, FailureShows
  DEF CreateFails, RestoreFails, DeleteFails, PurgeFails, CheckpointFails
<1>13. QED
  BY <1>1, <1>2, <1>3, <1>4, <1>5, <1>6, <1>7, <1>8, <1>9, <1>10, <1>11, <1>12 DEF Next

\* The steps of a call, and the failures and crashes between them, do not show:
\* the engine is an archive of whole copies that changes when it says YES.
THEOREM ImplementsArchive == ASSUME Careful PROVE Spec => IsArchive
<1>1. Init => Archive!Init
  BY DEF Init, Archive!Init
<1>2. EngineInv /\ [Next]_vars => [Archive!Next]_ArchiveVars
  BY StepShows
<1>3. QED
  BY <1>1, <1>2, EngineInvariant, PTL DEF Spec, IsArchive, Archive!ArchiveSpec, ArchiveVars, Told
=============================================================================
