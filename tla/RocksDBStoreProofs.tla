-------------------------- MODULE RocksDBStoreProofs --------------------------
(***************************************************************************)
(* Proofs about RocksDBStore, for any number of threads, keys, snapshots   *)
(* and writes: what RocksDB was told to sync survives; and if the          *)
(* application calls no overload that ignores its options, what was        *)
(* promised survives and snapshots are isolated.                           *)
(***************************************************************************)
EXTENDS RocksDBStore, Integers, FirstOrderInduction

\* A call uses the options it was asked to use.
WritesHonoured == \A t \in Thread : call[t] \in Write => call[t].used = call[t].asked
ReadsHonoured  == \A t \in Thread : call[t] \in Read => call[t].used = call[t].asked

\* Write i is there, and on the disk: no crash can undo it.
Durable(i) == i \notin lost /\ (i <= flushed \/ (i <= synced /\ log[i].logged))

\* A write that was to be synced is durable from the moment it was taken.
SyncedOnceTaken ==
  \A t \in Thread :
    call[t] \in Write /\ call[t].taken # None
      /\ call[t].used.syncWrites /\ ~call[t].used.disableWriteAheadLog
    => call[t].taken \in 1..Len(log) /\ Durable(call[t].taken)

PromisedDurable == \A i \in promised : Durable(i)

SyncInv    == TypeOK /\ SyncedOnceTaken
DurableInv == SyncInv /\ WritesHonoured /\ PromisedDurable

\* The database has taken write i, which it was told to sync.
TakenSynced(i) ==
  \E t \in Thread :
    /\ call[t] \in Write /\ call[t].taken = i /\ i # None
    /\ call[t].used.syncWrites /\ ~call[t].used.disableWriteAheadLog

\* Whoever is about to use a snapshot, or has used it, finds it unreleased.
SnapshotsHeld ==
  /\ readDefaults # NoSnapshot => views[readDefaults] # None
  /\ \A t \in Thread :
       /\ call[t] \in Read /\ call[t].used # NoSnapshot => views[call[t].used] # None
       /\ Told(t) /\ reads[t].asked # NoSnapshot => views[reads[t].asked] # None

IsolationInv == TypeOK /\ ReadsHonoured /\ SnapshotsHeld /\ SnapshotIsolation

\* A write a thread takes for its own is there, and so is what it is writing.
Stands(i, k) == i \in 1..Len(log) /\ i \notin lost /\ k \in log[i].keys
OwnOf(t) ==
  /\ \A i \in Nat \ {0}, k \in Key :
       /\ own[t][k] = i => Stands(i, k)
       /\ call[t] \in Write /\ call[t].taken = i /\ k \in call[t].keys => Stands(i, k)
  /\ call[t] \in Read => call[t].since = own[t][call[t].key]
OwnStands == \A t \in Thread : OwnOf(t)

OwnInv == TypeOK /\ ReadsHonoured /\ OwnStands /\ ReadsOwnWrites

-----------------------------------------------------------------------------
(* Types.                                                                  *)

LEMMA CallKind ==
  ASSUME TypeOK, NEW t \in Thread, call[t] # Idle
  PROVE  /\ call[t].do = "write" => call[t] \in Write
         /\ call[t].do = "read" => call[t] \in Read
BY DEF TypeOK, Write, Read

LEMMA WriteIsNoRead == \A c \in Write : c \notin Read
BY DEF Write, Read

LEMMA LogGrows ==
  ASSUME TypeOK, NEW e \in [keys : SUBSET Key, logged : BOOLEAN], log' = Append(log, e)
  PROVE  /\ log' \in Seq([keys : SUBSET Key, logged : BOOLEAN])
         /\ Len(log) \in Nat /\ Len(log') = Len(log) + 1
         /\ \A i \in 1..Len(log) : log'[i] = log[i]
         /\ log'[Len(log) + 1] = e
BY DEF TypeOK

\* The value of a key is the last write to it that a view has, if any.
LEMMA ValueAtLargest ==
  ASSUME NEW k, NEW n \in Int,
         NEW i \in 1..n, i \notin lost, k \in log[i].keys
  PROVE  ValueAt(k, n) \in 1..n /\ i <= ValueAt(k, n)
<1> DEFINE W == {j \in 1..n : j \notin lost /\ k \in log[j].keys}
<1>1. W \in SUBSET (1..n) /\ W \in SUBSET (0..n) /\ i \in W
  OBVIOUS
<1>2. ValueAt(k, n) = IF W = {} THEN 0 ELSE CHOOSE m \in W : \A j \in W : j <= m
  BY DEF ValueAt
<1> HIDE DEF W
<1>3. n \in Nat
  OBVIOUS
<1>4. \E m \in W : \A j \in W : j <= m
  BY <1>1, <1>3, LargestExists
<1> QED
  BY <1>1, <1>2, <1>4

LEMMA ValueAtRange ==
  ASSUME NEW k, NEW n \in Int
  PROVE  ValueAt(k, n) \in Nat
<1>1. CASE \E i \in 1..n : i \notin lost /\ k \in log[i].keys
  BY <1>1, ValueAtLargest
<1>2. CASE ~\E i \in 1..n : i \notin lost /\ k \in log[i].keys
  BY <1>2 DEF ValueAt
<1> QED
  BY <1>1, <1>2

LEMMA InitType == Init => TypeOK
<1> SUFFICES ASSUME Init PROVE TypeOK
  OBVIOUS
<1>1. log = <<>> /\ log \in Seq([keys : SUBSET Key, logged : BOOLEAN]) /\ Len(log) = 0
  BY DEF Init
<1>2. writeDefaults \in WriteOptions
  BY DEF Init, WriteOptions, Unsynced
<1> QED
  BY <1>1, <1>2, IdleAssumption DEF Init, TypeOK, None

LEMMA BeginWriteType ==
  ASSUME TypeOK, NEW t \in Thread, NEW m \in WriteMethod, NEW o \in Option,
         NEW K \in SUBSET Key, BeginWrite(t, m, o, K)
  PROVE  TypeOK'
<1>1. Asked(m, o) \in WriteOptions /\ Used(m, o) \in WriteOptions
  BY OptionAssumption DEF Asked, Used, TypeOK
<1> DEFINE w == [do |-> "write", asked |-> Asked(m, o), used |-> Used(m, o),
                 keys |-> K, taken |-> None]
<1>2. w \in Write /\ w.taken = 0
  BY <1>1 DEF Write, None
<1>3. call' = [call EXCEPT ![t] = w]
  BY DEF BeginWrite
<1> HIDE DEF w
<1> QED
  BY <1>2, <1>3, IdleAssumption DEF BeginWrite, TypeOK, dbVars

LEMMA BeginReadType ==
  ASSUME TypeOK, NEW t \in Thread, NEW m \in ReadMethod,
         NEW s \in Snapshot \cup {NoSnapshot}, NEW k \in Key, BeginRead(t, m, s, k)
  PROVE  TypeOK'
<1>1. ReadAsked(m, s) \in Snapshot \cup {NoSnapshot} /\ ReadUsed(m, s) \in Snapshot \cup {NoSnapshot}
  BY DEF ReadAsked, ReadUsed, TypeOK
<1>2. own[t][k] \in Nat
  BY DEF TypeOK
<1> DEFINE r == [do |-> "read", tells |-> m \notin MultiGet, asked |-> ReadAsked(m, s),
                 used |-> ReadUsed(m, s), key |-> k, since |-> own[t][k]]
<1>3. r \in Read
  BY <1>1, <1>2 DEF Read
<1>4. call' = [call EXCEPT ![t] = r]
  BY DEF BeginRead
<1> HIDE DEF r
<1> QED
  BY <1>3, <1>4, WriteIsNoRead DEF BeginRead, TypeOK, dbVars

LEMMA TakeWriteType ==
  ASSUME TypeOK, NEW t \in Thread, TakeWrite(t)
  PROVE  TypeOK'
<1> DEFINE n == Len(log)
           w == [call[t] EXCEPT !.taken = n + 1]
           e == [keys |-> call[t].keys, logged |-> ~call[t].used.disableWriteAheadLog]
<1>1. call[t] \in Write
  BY CallKind DEF TakeWrite
<1>2. n \in Nat
  BY DEF TypeOK
<1>3. w \in Write /\ w.taken = n + 1
  BY <1>1, <1>2 DEF Write
<1>4. e \in [keys : SUBSET Key, logged : BOOLEAN]
  BY <1>1 DEF Write
<1>5. log' = Append(log, e) /\ call' = [call EXCEPT ![t] = w]
  BY DEF TakeWrite
<1>6. log' \in Seq([keys : SUBSET Key, logged : BOOLEAN]) /\ Len(log') = n + 1
  BY <1>4, <1>5, LogGrows
<1> HIDE DEF w, e
<1>7. synced' \in 0..Len(log') /\ flushed' \in 0..Len(log')
  BY <1>2, <1>6 DEF TypeOK, TakeWrite
<1>8. lost' \subseteq 1..Len(log') /\ promised' \subseteq 1..Len(log')
  BY <1>2, <1>6 DEF TypeOK, TakeWrite, appVars
<1>9. views' \in [Snapshot -> 0..Len(log') + 1]
  BY <1>2, <1>6 DEF TypeOK, TakeWrite
<1>10. own' \in [Thread -> [Key -> 0..Len(log')]]
  BY <1>2, <1>6 DEF TypeOK, TakeWrite, appVars
<1>11. /\ call' \in [Thread -> Write \cup Read \cup {Idle}]
       /\ \A u \in Thread : call'[u] \in Write => call'[u].taken <= Len(log')
  <2>1. \A u \in Thread : call[u] \in Write => call[u].taken \in Nat /\ call[u].taken <= n
    BY DEF TypeOK, Write
  <2> QED
    BY <1>2, <1>3, <1>5, <1>6, <2>1 DEF TypeOK
<1> QED
  BY <1>6, <1>7, <1>8, <1>9, <1>10, <1>11 DEF TypeOK, TakeWrite, appVars

LEMMA EndWriteType ==
  ASSUME TypeOK, NEW t \in Thread, EndWrite(t)
  PROVE  TypeOK'
<1>1. call[t] \in Write
  BY CallKind DEF EndWrite
<1>2. call[t].taken \in 1..Len(log)
  <2>1. call[t].taken \in Nat /\ call[t].taken # 0 /\ call[t].taken <= Len(log)
    BY <1>1 DEF EndWrite, TypeOK, Write, None
  <2>2. Len(log) \in Nat
    BY DEF TypeOK
  <2> QED
    BY <2>1, <2>2
<1>3. promised' \subseteq 1..Len(log)
  BY <1>2 DEF EndWrite, TypeOK
<1>4. own' \in [Thread -> [Key -> 0..Len(log)]]
  <2>1. own[t] \in [Key -> 0..Len(log)]
    BY DEF TypeOK
  <2>2. [k \in Key |-> IF k \in call[t].keys THEN call[t].taken ELSE own[t][k]]
          \in [Key -> 0..Len(log)]
    BY <1>2, <2>1
  <2>3. own' = [own EXCEPT ![t] =
                  [k \in Key |-> IF k \in call[t].keys THEN call[t].taken ELSE own[t][k]]]
    BY DEF EndWrite
  <2> QED
    BY <2>2, <2>3 DEF TypeOK
<1>5. /\ call' \in [Thread -> Write \cup Read \cup {Idle}]
      /\ \A u \in Thread : call'[u] \in Write => call'[u].taken <= Len(log)
  BY IdleAssumption DEF EndWrite, TypeOK
<1> QED
  BY <1>3, <1>4, <1>5 DEF EndWrite, TypeOK, dbVars

LEMMA EndReadType ==
  ASSUME TypeOK, NEW t \in Thread, EndRead(t)
  PROVE  TypeOK'
<1> DEFINE n == IF call[t].used = NoSnapshot THEN Len(log) ELSE views[call[t].used] - 1
           r == [tells |-> call[t].tells, asked |-> call[t].asked, key |-> call[t].key,
                 since |-> call[t].since, value |-> ValueAt(call[t].key, n)]
<1>1. call[t] \in Read
  BY CallKind DEF EndRead
<1>2. n \in Int
  BY <1>1 DEF TypeOK, Read
<1>3. ValueAt(call[t].key, n) \in Nat
  BY <1>2, ValueAtRange
<1>4. r \in Seen
  BY <1>1, <1>3 DEF Read, Seen
<1>5. reads' = [reads EXCEPT ![t] = r]
  BY DEF EndRead
<1> HIDE DEF r, n
<1> QED
  BY <1>4, <1>5, IdleAssumption DEF EndRead, TypeOK, dbVars

LEMMA FailReadType ==
  ASSUME TypeOK, NEW t \in Thread, FailRead(t)
  PROVE  TypeOK'
<1> DEFINE r == [tells |-> FALSE, asked |-> call[t].asked, key |-> call[t].key,
                 since |-> call[t].since, value |-> 0]
<1>1. call[t] \in Read
  BY CallKind DEF FailRead
<1>2. r \in Seen
  BY <1>1 DEF Read, Seen
<1>3. reads' = [reads EXCEPT ![t] = r] \/ reads' = [reads EXCEPT ![t] = Idle]
  BY DEF FailRead
<1> HIDE DEF r
<1> QED
  BY <1>2, <1>3, IdleAssumption DEF FailRead, TypeOK, dbVars

LEMMA NextType == TypeOK /\ [Next]_vars => TypeOK'
<1> SUFFICES ASSUME TypeOK, [Next]_vars PROVE TypeOK'
  OBVIOUS
<1> USE DEF dbVars, appVars
<1>1. CASE UNCHANGED vars
  BY <1>1 DEF vars, TypeOK
<1>2. CASE \E t \in Thread : Call(t)
  <2> PICK t \in Thread : Call(t)
    BY <1>2
  <2>1. CASE \E m \in WriteMethod, o \in Option, K \in SUBSET Key \ {{}} : BeginWrite(t, m, o, K)
    BY <2>1, BeginWriteType
  <2>2. CASE \E m \in ReadMethod, s \in Snapshot \cup {NoSnapshot}, k \in Key : BeginRead(t, m, s, k)
    BY <2>2, BeginReadType
  <2>3. CASE RefuseWrite(t)
    BY <2>3, IdleAssumption DEF RefuseWrite, TypeOK
  <2>4. CASE SyncWal(t)
    <3>1. Len(log) \in Nat
      BY DEF TypeOK
    <3>2. promised' \subseteq 1..Len(log)
      BY <2>4 DEF SyncWal, TypeOK
    <3> QED
      BY <2>4, <3>1, <3>2 DEF SyncWal, TypeOK
  <2> QED
    BY <2>1, <2>2, <2>3, <2>4, TakeWriteType, EndWriteType, EndReadType, FailReadType DEF Call
<1>3. CASE \E s \in Snapshot : Take(s)
  BY <1>3 DEF Take, TypeOK
<1>4. CASE \E s \in Snapshot : Release(s)
  BY <1>4 DEF Release, TypeOK, None
<1>5. CASE \E o \in Option, s \in Snapshot \cup {NoSnapshot} : SetDefaults(o, s)
  BY <1>5, OptionAssumption DEF SetDefaults, TypeOK
<1>6. CASE Flush
  BY <1>6 DEF Flush, TypeOK
<1>7. CASE Crash
  <2>1. Len(log) \in Nat
    BY DEF TypeOK
  <2>2. lost' \subseteq 1..Len(log)
    <3>1. flushed \in Nat /\ lost \subseteq 1..Len(log)
      BY <2>1 DEF TypeOK
    <3>2. flushed + 1..Len(log) \subseteq 1..Len(log)
      BY <2>1, <3>1
    <3>3. lost' \subseteq lost \cup (flushed + 1..Len(log))
      BY <1>7 DEF Crash
    <3> QED
      BY <3>1, <3>2, <3>3
  <2> QED
    BY <1>7, <2>1, <2>2, IdleAssumption DEF Crash, TypeOK, WriteOptions, Unsynced, None
<1> QED
  BY <1>1, <1>2, <1>3, <1>4, <1>5, <1>6, <1>7 DEF Next

\* Every variable keeps its type: no write, view or value is out of the log.
THEOREM StoreTypes == Spec => []TypeOK
BY InitType, NextType, PTL DEF Spec

-----------------------------------------------------------------------------
(* Durability.                                                             *)

\* What is durable stays so as long as the log, and what is synced of it,
\* only grow.
LEMMA DurableStays ==
  ASSUME TypeOK, TypeOK', NEW i \in 1..Len(log), Durable(i),
         flushed <= flushed', synced <= synced', lost' = lost, log'[i] = log[i]
  PROVE  Durable(i)'
<1>1. {i, flushed, flushed', synced, synced'} \subseteq Nat
  BY DEF TypeOK
<1> QED
  BY <1>1 DEF Durable

\* The number of the write a thread has taken, and what is kept of the log.
LEMMA TakeWriteAppends ==
  ASSUME TypeOK, NEW t \in Thread, TakeWrite(t), NEW n \in Nat, n = Len(log)
  PROVE  /\ call[t] \in Write /\ Len(log') = n + 1 /\ \A i \in 1..n : log'[i] = log[i]
         /\ ~call[t].used.disableWriteAheadLog => log'[n + 1].logged
         /\ synced \in 0..n /\ synced' \in {synced, n + 1} /\ flushed' = flushed
         /\ flushed \in 0..n /\ lost' = lost /\ lost \subseteq 1..n
         /\ call[t].used.syncWrites => synced' = n + 1
         /\ \E w \in Write : /\ call' = [call EXCEPT ![t] = w] /\ w.taken = n + 1
                             /\ w.used = call[t].used /\ w.asked = call[t].asked
<1> DEFINE w == [call[t] EXCEPT !.taken = n + 1]
           e == [keys |-> call[t].keys, logged |-> ~call[t].used.disableWriteAheadLog]
<1>1. call[t] \in Write
  BY CallKind DEF TakeWrite
<1>2. e \in [keys : SUBSET Key, logged : BOOLEAN] /\ log' = Append(log, e)
  BY <1>1 DEF Write, TakeWrite
<1>3. /\ Len(log') = n + 1 /\ \A i \in 1..n : log'[i] = log[i]
      /\ ~call[t].used.disableWriteAheadLog => log'[n + 1].logged
  BY <1>2, LogGrows
<1>4. /\ synced \in 0..n /\ synced' \in {synced, n + 1} /\ flushed' = flushed
      /\ flushed \in 0..n /\ lost' = lost /\ lost \subseteq 1..n
      /\ call[t].used.syncWrites => synced' = n + 1
  BY DEF TypeOK, TakeWrite
<1>5. /\ w \in Write /\ w.taken = n + 1 /\ w.used = call[t].used /\ w.asked = call[t].asked
      /\ call' = [call EXCEPT ![t] = w]
  BY <1>1 DEF Write, TakeWrite
<1> HIDE DEF w, e
<1> QED
  BY <1>1, <1>3, <1>4, <1>5

\* No step, and no crash, undoes what is durable.
LEMMA DurableForGood ==
  ASSUME TypeOK, TypeOK', [Next]_vars, NEW i \in 1..Len(log), Durable(i)
  PROVE  i \in 1..Len(log') /\ Durable(i)'
<1>1. /\ Len(log) \in Nat /\ synced \in 0..Len(log) /\ flushed \in 0..Len(log)
      /\ synced' \in 0..Len(log') /\ flushed' \in 0..Len(log') /\ Len(log') \in Nat
  BY DEF TypeOK
<1> USE DEF dbVars, appVars
<1>2. ASSUME flushed <= flushed', synced <= synced', lost' = lost, log' = log
      PROVE  i \in 1..Len(log') /\ Durable(i)'
  BY <1>2, DurableStays
<1>3. CASE UNCHANGED vars
  BY <1>1, <1>2, <1>3 DEF vars
<1>4. ASSUME NEW t \in Thread, Call(t) PROVE i \in 1..Len(log') /\ Durable(i)'
  <2>1. CASE TakeWrite(t)
    <3>1. PICK n \in Nat : n = Len(log)
      BY <1>1
    <3>2. /\ Len(log') = n + 1 /\ log'[i] = log[i]
          /\ synced <= synced' /\ flushed <= flushed' /\ lost' = lost
      BY <1>1, <2>1, <3>1, TakeWriteAppends
    <3> QED
      BY <3>1, <3>2, DurableStays
  <2>2. CASE SyncWal(t)
    BY <1>1, <1>2, <2>2 DEF SyncWal
  <2>3. CASE ~TakeWrite(t) /\ ~SyncWal(t)
    BY <1>1, <1>2, <1>4, <2>3 DEF Call, BeginWrite, EndWrite, RefuseWrite, BeginRead, EndRead, FailRead
  <2> QED
    BY <2>1, <2>2, <2>3
<1>5. CASE \/ \E s \in Snapshot : Take(s) \/ Release(s)
           \/ \E o \in Option, s \in Snapshot \cup {NoSnapshot} : SetDefaults(o, s)
           \/ Flush
  BY <1>1, <1>2, <1>5 DEF Take, Release, SetDefaults, Flush
<1>6. CASE Crash
  <2>1. PICK cut \in synced..Len(log) :
          lost' = lost \cup {j \in flushed + 1..Len(log) : j > cut \/ ~log[j].logged}
    BY <1>6 DEF Crash
  <2>2. ~(i \in flushed + 1..Len(log) /\ (i > cut \/ ~log[i].logged))
    BY <1>1 DEF Durable
  <2> QED
    BY <1>1, <1>6, <2>1, <2>2 DEF Crash, Durable
<1> QED
  BY <1>3, <1>4, <1>5, <1>6 DEF Next

\* What a thread is to sync when it ends its call is durable already.
LEMMA NextSync == SyncInv /\ [Next]_vars => SyncInv'
<1> SUFFICES ASSUME SyncInv, [Next]_vars PROVE SyncInv'
  OBVIOUS
<1>1. TypeOK /\ TypeOK'
  BY NextType DEF SyncInv
<1>2. \A i \in 1..Len(log) : Durable(i) => i \in 1..Len(log') /\ Durable(i)'
  BY <1>1, DurableForGood
<1>3. ASSUME \A u \in Thread : \/ call'[u] = call[u] \/ call'[u] \notin Write
                               \/ call'[u].taken = None
      PROVE  SyncInv'
  BY <1>1, <1>2, <1>3 DEF SyncInv, SyncedOnceTaken
<1>4. CASE UNCHANGED vars
  BY <1>3, <1>4 DEF vars
<1>5. ASSUME NEW t \in Thread, Call(t) PROVE SyncInv'
  <2>1. CASE TakeWrite(t)
    <3>1. PICK n \in Nat : n = Len(log)
      BY <1>1 DEF TypeOK
    <3>2. PICK w \in Write : call' = [call EXCEPT ![t] = w] /\ w.taken = n + 1 /\ w.used = call[t].used
      BY <1>1, <2>1, <3>1, TakeWriteAppends
    <3>3. call[t].used.syncWrites /\ ~call[t].used.disableWriteAheadLog
            => n + 1 \in 1..Len(log') /\ Durable(n + 1)'
      <4>1. /\ Len(log') = n + 1 /\ lost' = lost /\ n + 1 \notin lost
            /\ call[t].used.syncWrites => synced' = n + 1
            /\ ~call[t].used.disableWriteAheadLog => log'[n + 1].logged
        BY <1>1, <2>1, <3>1, TakeWriteAppends
      <4> QED
        BY <3>1, <4>1 DEF Durable
    <3>4. ASSUME NEW u \in Thread, call'[u] \in Write, call'[u].taken # None,
                 call'[u].used.syncWrites, ~call'[u].used.disableWriteAheadLog
          PROVE  call'[u].taken \in 1..Len(log') /\ \E i : i = call'[u].taken /\ Durable(i)'
      <4>1. CASE u = t
        <5>1. call'[u] = w
          BY <1>1, <3>2, <4>1 DEF TypeOK
        <5> QED
          BY <3>2, <3>3, <3>4, <5>1
      <4>2. CASE u # t
        <5>1. call'[u] = call[u]
          BY <1>1, <3>2, <4>2 DEF TypeOK
        <5>2. call[u].taken \in 1..Len(log) /\ Durable(call[u].taken)
          BY <3>4, <5>1 DEF SyncInv, SyncedOnceTaken
        <5> QED
          BY <1>2, <5>1, <5>2
      <4> QED
        BY <4>1, <4>2
    <3>5. SyncedOnceTaken'
      BY <3>4 DEF SyncedOnceTaken, Durable
    <3> QED
      BY <1>1, <3>5 DEF SyncInv
  <2>2. CASE ~TakeWrite(t)
    <3>1. \A u \in Thread : \/ call'[u] = call[u] \/ call'[u] \notin Write
                            \/ call'[u].taken = None
      BY <1>1, <1>5, <2>2, IdleAssumption
         DEF Call, BeginWrite, EndWrite, RefuseWrite, SyncWal, BeginRead, EndRead, FailRead, TypeOK, Write
    <3> QED
      BY <1>3, <3>1
  <2> QED
    BY <2>1, <2>2
<1>6. CASE ~(\E t \in Thread : Call(t)) /\ Next
  <2>1. \A u \in Thread : call'[u] = call[u] \/ call'[u] \notin Write
    BY <1>6, IdleAssumption DEF Next, Take, Release, SetDefaults, Flush, Crash
  <2> QED
    BY <1>3, <2>1
<1> QED
  BY <1>4, <1>5, <1>6 DEF Next

LEMMA SyncInvariant == Spec => []SyncInv
<1>1. Init => SyncInv
  BY InitType, IdleAssumption DEF Init, SyncInv, SyncedOnceTaken
<1> QED
  BY <1>1, NextSync, PTL DEF Spec

\* Once the database has taken a write that was handed to it to be synced, no
\* crash undoes it, whatever other overloads are called and whatever defaults
\* are set: what each overload promises that hands on its options is kept.
THEOREM SyncedIsForGood ==
  ASSUME NEW i \in Nat
  PROVE  Spec => [](TakenSynced(i) => [](i \notin lost))
<1> DEFINE D == i \in 1..Len(log) /\ Durable(i)
<1>1. SyncInv /\ TakenSynced(i) => D
  BY DEF SyncInv, SyncedOnceTaken, TakenSynced
<1>2. SyncInv /\ SyncInv' /\ [Next]_vars /\ D => D'
  BY DurableForGood DEF SyncInv
<1>3. D => i \notin lost
  BY DEF Durable
<1> QED
  BY <1>1, <1>2, <1>3, SyncInvariant, PTL DEF Spec

\* A call was handed what it was asked, unless its overload ignores it.
LEMMA NextHonoured ==
  ASSUME WriteMethod \cap IgnoringWrites = {}
  PROVE  SyncInv /\ WritesHonoured /\ [Next]_vars => WritesHonoured'
<1> SUFFICES ASSUME SyncInv, WritesHonoured, [Next]_vars PROVE WritesHonoured'
  OBVIOUS
<1>1. TypeOK
  BY DEF SyncInv
<1>2. ASSUME \A u \in Thread : \/ call'[u] = call[u] \/ call'[u] \notin Write
                               \/ call'[u].used = call'[u].asked
      PROVE  WritesHonoured'
  BY <1>2 DEF WritesHonoured
<1>3. CASE UNCHANGED vars
  BY <1>2, <1>3 DEF vars
<1>4. ASSUME NEW t \in Thread, Call(t) PROVE WritesHonoured'
  <2>1. ASSUME NEW m \in WriteMethod, NEW o \in Option, NEW K \in SUBSET Key, BeginWrite(t, m, o, K)
        PROVE  WritesHonoured'
    <3>1. Used(m, o) = Asked(m, o)
      BY MethodAssumption DEF Used, Asked, PlainWrites, HonouringWrites
    <3>2. \A u \in Thread : call'[u] = call[u] \/ call'[u].used = call'[u].asked
      BY <1>1, <2>1, <3>1 DEF BeginWrite, TypeOK
    <3> QED
      BY <1>2, <3>2
  <2>2. CASE TakeWrite(t)
    <3>1. PICK n \in Nat : n = Len(log)
      BY <1>1 DEF TypeOK
    <3>2. PICK w \in Write : /\ call' = [call EXCEPT ![t] = w] /\ call[t] \in Write
                             /\ w.used = call[t].used /\ w.asked = call[t].asked
      BY <1>1, <2>2, <3>1, TakeWriteAppends
    <3>3. \A u \in Thread : call'[u] = call[u] \/ call'[u].used = call'[u].asked
      BY <1>1, <3>2 DEF WritesHonoured, TypeOK
    <3> QED
      BY <1>2, <3>3
  <2>3. CASE EndWrite(t) \/ RefuseWrite(t) \/ SyncWal(t) \/ EndRead(t) \/ FailRead(t)
    <3>1. \A u \in Thread : call'[u] = call[u] \/ call'[u] \notin Write
      BY <1>1, <2>3, IdleAssumption DEF EndWrite, RefuseWrite, SyncWal, EndRead, FailRead, TypeOK
    <3> QED
      BY <1>2, <3>1
  <2>4. ASSUME NEW m \in ReadMethod, NEW s \in Snapshot \cup {NoSnapshot}, NEW k \in Key,
               BeginRead(t, m, s, k)
        PROVE  WritesHonoured'
    <3>1. \A u \in Thread : call'[u] = call[u] \/ call'[u] \notin Write
      BY <1>1, <2>4 DEF BeginRead, TypeOK, Write
    <3> QED
      BY <1>2, <3>1
  <2> QED
    BY <1>4, <2>1, <2>2, <2>3, <2>4 DEF Call
<1>5. CASE ~(\E t \in Thread : Call(t)) /\ Next
  <2>1. \A u \in Thread : call'[u] = call[u] \/ call'[u] \notin Write
    BY <1>5, IdleAssumption DEF Next, Take, Release, SetDefaults, Flush, Crash
  <2> QED
    BY <1>2, <2>1
<1> QED
  BY <1>3, <1>4, <1>5 DEF Next

LEMMA NextDurable ==
  ASSUME WriteMethod \cap IgnoringWrites = {}
  PROVE  DurableInv /\ [Next]_vars => DurableInv'
<1> SUFFICES ASSUME DurableInv, [Next]_vars PROVE DurableInv'
  OBVIOUS
<1>1. SyncInv' /\ WritesHonoured' /\ TypeOK /\ TypeOK'
  BY NextSync, NextHonoured DEF DurableInv, SyncInv
<1>2. promised \subseteq 1..Len(log) /\ synced \in 0..Len(log) /\ Len(log) \in Nat
  BY <1>1 DEF TypeOK
<1>3. \A i \in promised : Durable(i)'
  BY <1>1, <1>2, DurableForGood DEF DurableInv, PromisedDurable
<1>4. ASSUME NEW i \in promised', i \notin promised PROVE Durable(i)'
  <2>1. PICK t \in Thread : EndWrite(t) \/ SyncWal(t)
    <3>1. PICK t \in Thread : Call(t)
      BY <1>4 DEF Next, vars, appVars, Take, Release, SetDefaults, Flush, Crash
    <3>2. EndWrite(t) \/ SyncWal(t)
      BY <1>4, <3>1 DEF Call, appVars, BeginWrite, TakeWrite, RefuseWrite, BeginRead, EndRead, FailRead
    <3>3. QED
      BY <3>2
  <2>2. CASE EndWrite(t)
    <3>1. /\ call[t] \in Write /\ i = call[t].taken /\ call[t].taken # None
          /\ call[t].asked.syncWrites /\ ~call[t].asked.disableWriteAheadLog
      BY <1>1, <1>4, <2>2, CallKind DEF EndWrite
    <3>2. call[t].used = call[t].asked
      BY <3>1 DEF DurableInv, WritesHonoured
    <3>3. i \in 1..Len(log) /\ Durable(i)
      BY <3>1, <3>2 DEF DurableInv, SyncInv, SyncedOnceTaken
    <3> QED
      BY <1>1, <3>3, DurableForGood
  <2>3. CASE SyncWal(t)
    <3>1. i \in 1..Len(log) /\ log[i].logged /\ i \notin lost
      BY <1>4, <2>3 DEF SyncWal
    <3> QED
      BY <1>2, <2>3, <3>1 DEF SyncWal, Durable
  <2> QED
    BY <2>1, <2>2, <2>3
<1>5. PromisedDurable'
  BY <1>3, <1>4 DEF PromisedDurable, Durable
<1> QED
  BY <1>1, <1>5 DEF DurableInv

\* Whatever is acknowledged under syncWrites, or is logged when -syncWal:
\* returns, survives every crash, if no overload is called that ignores the
\* options it is given.
THEOREM Durability ==
  ASSUME WriteMethod \cap IgnoringWrites = {}
  PROVE  Spec => []PromisedSurvives
<1>1. Init => DurableInv
  BY InitType, IdleAssumption
     DEF Init, DurableInv, SyncInv, WritesHonoured, SyncedOnceTaken, PromisedDurable
<1>2. DurableInv => PromisedSurvives
  BY DEF DurableInv, PromisedDurable, Durable, PromisedSurvives
<1> QED
  BY <1>1, <1>2, NextDurable, PTL DEF Spec

-----------------------------------------------------------------------------
(* Isolation.                                                              *)

\* The log only grows, and nothing of it is lost.
LogStays ==
  /\ lost' = lost /\ Len(log) <= Len(log')
  /\ \A i \in 1..Len(log) : log'[i] = log[i]

\* What t has read is the value k had in a view of n writes.
HasRead(t, k, n) == reads[t].key = k /\ views[reads[t].asked] - 1 = n
IsolatedRead(t) ==
  \A k \in Key, n \in Int : HasRead(t, k, n) => reads[t].value = ValueAt(k, n)

LEMMA IsolatedNow ==
  ASSUME SnapshotIsolation, NEW t \in Thread, Told(t), reads[t].asked # NoSnapshot
  PROVE  IsolatedRead(t)
BY DEF SnapshotIsolation, IsolatedRead, HasRead

LEMMA IsolatedNext ==
  ASSUME TypeOK',
         \A t \in Thread : Told(t)' /\ reads'[t].asked # NoSnapshot => IsolatedRead(t)'
  PROVE  SnapshotIsolation'
<1> SUFFICES ASSUME NEW t \in Thread, Told(t)', reads'[t].asked # NoSnapshot
             PROVE  (reads[t].value = ValueAt(reads[t].key, views[reads[t].asked] - 1))'
  BY DEF SnapshotIsolation, Told
<1>1. reads'[t] \in Seen
  BY DEF TypeOK, Told
<1>2. reads'[t].key \in Key /\ views'[reads'[t].asked] - 1 \in Int
  BY <1>1 DEF TypeOK, Seen
<1>3. PICK k \in Key, n \in Int : HasRead(t, k, n)'
  BY <1>2 DEF HasRead
<1>4. IsolatedRead(t)'
  OBVIOUS
<1>5. (reads[t].value = ValueAt(k, n))'
  BY <1>3, <1>4 DEF IsolatedRead
<1> QED
  BY <1>3, <1>5 DEF HasRead

LEMMA ValueAtStays ==
  ASSUME LogStays, Len(log) \in Nat, NEW k \in Key, NEW n \in Int, n <= Len(log)
  PROVE  ValueAt(k, n)' = ValueAt(k, n)
<1>1. \A i \in 1..n : i \in 1..Len(log)
  OBVIOUS
<1> DEFINE W == {i \in 1..n : i \notin lost /\ k \in log[i].keys}
<1>2. W' = W
  BY <1>1 DEF LogStays
<1>3. ValueAt(k, n) = IF W = {} THEN 0 ELSE CHOOSE i \in W : \A j \in W : j <= i
  BY DEF ValueAt
<1>4. ValueAt(k, n)' = IF W' = {} THEN 0 ELSE CHOOSE i \in W' : \A j \in W' : j <= i
  BY DEF ValueAt
<1> HIDE DEF W
<1> QED
  BY <1>2, <1>3, <1>4

\* A step that leaves alone what a thread has read, and the snapshot it read.
LEMMA IsolatedReadStays ==
  ASSUME TypeOK, LogStays, NEW t \in Thread, Told(t),
         reads[t].asked # NoSnapshot, IsolatedRead(t), reads'[t] = reads[t],
         views'[reads[t].asked] = views[reads[t].asked]
  PROVE  IsolatedRead(t)'
<1> USE DEF Told
<1>1. Len(log) \in Nat /\ reads[t] \in Seen /\ views[reads[t].asked] - 1 <= Len(log)
  BY DEF TypeOK, Seen
<1> SUFFICES ASSUME NEW k \in Key, NEW n \in Int, HasRead(t, k, n)'
             PROVE  (reads[t].value = ValueAt(k, n))'
  BY DEF IsolatedRead
<1>2. HasRead(t, k, n) /\ n <= Len(log)
  BY <1>1 DEF HasRead
<1>3. ValueAt(k, n)' = ValueAt(k, n)
  BY <1>1, <1>2, ValueAtStays
<1> QED
  BY <1>2, <1>3 DEF IsolatedRead

LEMMA IsolationFrame ==
  ASSUME IsolationInv, TypeOK', LogStays, readDefaults' = readDefaults, views' = views,
         \A u \in Thread : call'[u] = call[u] \/ call'[u] \notin Read,
         \A u \in Thread : reads'[u] = reads[u] \/ ~Told(u)'
  PROVE  IsolationInv'
<1> USE DEF Told
<1>1. SnapshotsHeld' /\ ReadsHonoured'
  BY DEF IsolationInv, SnapshotsHeld, ReadsHonoured
<1>2. \A t \in Thread : Told(t)' /\ reads'[t].asked # NoSnapshot => IsolatedRead(t)'
  BY IsolatedReadStays, IsolatedNow DEF IsolationInv
<1> QED
  BY <1>1, <1>2, IsolatedNext DEF IsolationInv

LEMMA BeginReadHonoured ==
  ASSUME ReadMethod \cap IgnoringReads = {}, NEW m \in ReadMethod, NEW s
  PROVE  ReadUsed(m, s) = ReadAsked(m, s)
<1>1. m \in Reads /\ m \notin IgnoringReads
  BY MethodAssumption
<1> QED
  BY <1>1 DEF ReadUsed, ReadAsked, PlainReads, HonouringReads

LEMMA BeginReadIsolated ==
  ASSUME ReadMethod \cap IgnoringReads = {}, IsolationInv, TypeOK',
         NEW t \in Thread, NEW m \in ReadMethod,
         NEW s \in Snapshot \cup {NoSnapshot}, NEW k \in Key, BeginRead(t, m, s, k)
  PROVE  IsolationInv'
<1> USE DEF Told
<1> DEFINE r == [do |-> "read", tells |-> m \notin MultiGet, asked |-> ReadAsked(m, s),
                 used |-> ReadUsed(m, s), key |-> k, since |-> own[t][k]]
<1>1. r.used = r.asked /\ (r.used # NoSnapshot => views[r.used] # None)
  BY BeginReadHonoured DEF ReadAsked, BeginRead, IsolationInv, SnapshotsHeld
<1>2. /\ call' = [call EXCEPT ![t] = r] /\ UNCHANGED <<readDefaults, views>>
      /\ \A u \in Thread : reads'[u] = reads[u] \/ ~Told(u)'
  BY DEF BeginRead, IsolationInv, TypeOK
<1>3. LogStays
  BY DEF BeginRead, dbVars, LogStays, IsolationInv, TypeOK
<1> HIDE DEF r
<1>4. SnapshotsHeld' /\ ReadsHonoured'
  BY <1>1, <1>2 DEF IsolationInv, SnapshotsHeld, ReadsHonoured, TypeOK
<1>5. \A u \in Thread : Told(u)' /\ reads'[u].asked # NoSnapshot => IsolatedRead(u)'
  BY <1>2, <1>3, IsolatedReadStays, IsolatedNow DEF IsolationInv
<1> QED
  BY <1>4, <1>5, IsolatedNext DEF IsolationInv

LEMMA EndReadIsolated ==
  ASSUME IsolationInv, TypeOK', NEW t \in Thread, EndRead(t)
  PROVE  IsolationInv'
<1> USE DEF Told
<1>1. /\ TypeOK /\ call[t] \in Read /\ call[t].used = call[t].asked
      /\ call[t].used # NoSnapshot => views[call[t].used] # None
  BY CallKind DEF EndRead, IsolationInv, ReadsHonoured, SnapshotsHeld
<1>2. LogStays /\ UNCHANGED <<readDefaults, views, log, lost>>
  BY <1>1 DEF EndRead, dbVars, LogStays, TypeOK
<1>3. /\ call' = [call EXCEPT ![t] = Idle]
      /\ reads'[t].asked = call[t].asked /\ reads'[t].key = call[t].key
      /\ call[t].used # NoSnapshot =>
           reads'[t].value = ValueAt(call[t].key, views[call[t].used] - 1)
      /\ \A u \in Thread \ {t} : reads'[u] = reads[u]
  BY <1>1 DEF EndRead, TypeOK
<1>4. SnapshotsHeld' /\ ReadsHonoured'
  BY <1>1, <1>2, <1>3, IdleAssumption DEF IsolationInv, SnapshotsHeld, ReadsHonoured, TypeOK
<1>5. \A u \in Thread \ {t} :
        Told(u)' /\ reads'[u].asked # NoSnapshot => IsolatedRead(u)'
  BY <1>1, <1>2, <1>3, IsolatedReadStays, IsolatedNow DEF IsolationInv
<1>6. ASSUME reads'[t].asked # NoSnapshot PROVE IsolatedRead(t)'
  <2> SUFFICES ASSUME NEW k \in Key, NEW n \in Int, HasRead(t, k, n)'
               PROVE  (reads[t].value = ValueAt(k, n))'
    BY DEF IsolatedRead
  <2>1. k = call[t].key /\ n = views[call[t].used] - 1
    BY <1>1, <1>2, <1>3 DEF HasRead
  <2>2. ValueAt(k, n)' = ValueAt(k, n)
    BY <1>2 DEF ValueAt
  <2> QED
    BY <1>1, <1>3, <1>6, <2>1, <2>2
<1> QED
  BY <1>4, <1>5, <1>6, IsolatedNext DEF IsolationInv

LEMMA NextIsolated ==
  ASSUME ReadMethod \cap IgnoringReads = {}
  PROVE  IsolationInv /\ [Next]_vars => IsolationInv'
<1> SUFFICES ASSUME IsolationInv, [Next]_vars PROVE IsolationInv'
  OBVIOUS
<1>1. TypeOK /\ TypeOK' /\ Len(log) \in Nat
  <2>1. TypeOK
    BY DEF IsolationInv
  <2>2. TypeOK'
    BY <2>1, NextType
  <2> QED
    BY <2>1, <2>2, SMTT(60) DEF TypeOK
<1>2. log' = log /\ lost' = lost => LogStays
  BY <1>1 DEF LogStays
<1> USE DEF dbVars, appVars, Told
<1>3. CASE UNCHANGED vars
  BY <1>1, <1>2, <1>3, IsolationFrame DEF vars
<1>4. CASE \E t \in Thread : Call(t)
  <2> PICK t \in Thread : Call(t)
    BY <1>4
  <2>1. CASE \E m \in WriteMethod, o \in Option, K \in SUBSET Key \ {{}} : BeginWrite(t, m, o, K)
    <3>1. \A u \in Thread : call'[u] = call[u] \/ call'[u] \notin Read
      BY <1>1, <2>1 DEF BeginWrite, TypeOK, Read
    <3> QED
      BY <1>1, <1>2, <2>1, <3>1, IsolationFrame DEF BeginWrite
  <2>2. CASE \E m \in ReadMethod, s \in Snapshot \cup {NoSnapshot}, k \in Key : BeginRead(t, m, s, k)
    BY <1>1, <2>2, BeginReadIsolated
  <2>3. CASE TakeWrite(t)
    <3> DEFINE e == [keys |-> call[t].keys, logged |-> ~call[t].used.disableWriteAheadLog]
    <3>1. call[t] \in Write
      BY <1>1, <2>3, CallKind DEF TakeWrite
    <3>2. e \in [keys : SUBSET Key, logged : BOOLEAN] /\ log' = Append(log, e)
      BY <2>3, <3>1 DEF Write, TakeWrite
    <3> HIDE DEF e
    <3>3. LogStays
      BY <1>1, <2>3, <3>2, LogGrows DEF TakeWrite, LogStays
    <3>4. \A u \in Thread : call'[u] = call[u] \/ call'[u] \notin Read
      <4>1. call' = [call EXCEPT ![t] = [call[t] EXCEPT !.taken = Len(log) + 1]]
        BY <2>3 DEF TakeWrite
      <4>2. [call[t] EXCEPT !.taken = Len(log) + 1] \in Write
        BY <1>1, <3>1 DEF Write
      <4> QED
        BY <1>1, <4>1, <4>2, WriteIsNoRead DEF TypeOK
    <3> QED
      BY <1>1, <2>3, <3>3, <3>4, IsolationFrame DEF TakeWrite
  <2>5. CASE FailRead(t)
    <3>1. call[t] \in Read
      BY <1>1, <2>5, CallKind DEF FailRead
    <3>2. ~Told(t)'
      BY <1>1, <2>5, <3>1 DEF FailRead, TypeOK
    <3>3. \A u \in Thread : call'[u] = call[u] \/ call'[u] \notin Read
      BY <1>1, <2>5, IdleAssumption DEF FailRead, TypeOK
    <3>4. \A u \in Thread : reads'[u] = reads[u] \/ ~Told(u)'
      BY <1>1, <2>5, <3>2 DEF FailRead, TypeOK
    <3> QED
      BY <1>1, <1>2, <2>5, <3>3, <3>4, IsolationFrame DEF FailRead
  <2>4. CASE EndWrite(t) \/ RefuseWrite(t) \/ SyncWal(t)
    <3>1. \A u \in Thread : call'[u] = call[u] \/ call'[u] \notin Read
      BY <1>1, <2>4, IdleAssumption DEF EndWrite, RefuseWrite, SyncWal, TypeOK
    <3> QED
      BY <1>1, <1>2, <2>4, <3>1, IsolationFrame DEF EndWrite, RefuseWrite, SyncWal
  <2> QED
    BY <1>1, <2>1, <2>2, <2>3, <2>4, <2>5, EndReadIsolated DEF Call
<1>5. CASE \E s \in Snapshot : Take(s)
  <2> PICK s \in Snapshot : Take(s)
    BY <1>5
  <2>1. /\ views[s] = None /\ views' = [views EXCEPT ![s] = Len(log) + 1]
        /\ UNCHANGED <<readDefaults, call, reads>> /\ LogStays
    BY <1>2 DEF Take
  <2>2. SnapshotsHeld' /\ ReadsHonoured'
    BY <1>1, <2>1 DEF IsolationInv, SnapshotsHeld, ReadsHonoured, TypeOK, None
  <2>3. \A u \in Thread : Told(u)' /\ reads'[u].asked # NoSnapshot =>
          IsolatedRead(u) /\ views'[reads[u].asked] = views[reads[u].asked]
    BY <1>1, <2>1, IsolatedNow DEF IsolationInv, SnapshotsHeld, TypeOK
  <2>4. \A u \in Thread : Told(u)' /\ reads'[u].asked # NoSnapshot => IsolatedRead(u)'
    BY <1>1, <2>1, <2>3, IsolatedReadStays
  <2> QED
    BY <1>1, <2>2, <2>4, IsolatedNext DEF IsolationInv
<1>6. CASE \E s \in Snapshot : Release(s)
  <2> PICK s \in Snapshot : Release(s)
    BY <1>6
  <2>1. /\ readDefaults # s /\ views' = [views EXCEPT ![s] = None]
        /\ \A u \in Thread : call[u] \in Read => call[u].used # s
        /\ \A u \in Thread : reads'[u] # Idle => reads'[u] = reads[u] /\ reads[u].asked # s
        /\ UNCHANGED <<readDefaults, call>> /\ LogStays
    BY <1>1, <1>2, IdleAssumption DEF Release, TypeOK, Read
  <2>2. SnapshotsHeld' /\ ReadsHonoured'
    BY <1>1, <2>1 DEF IsolationInv, SnapshotsHeld, ReadsHonoured, TypeOK
  <2>3. \A u \in Thread : Told(u)' /\ reads'[u].asked # NoSnapshot =>
          IsolatedRead(u) /\ views'[reads[u].asked] = views[reads[u].asked]
    BY <1>1, <2>1, IsolatedNow DEF IsolationInv, TypeOK
  <2>4. \A u \in Thread : Told(u)' /\ reads'[u].asked # NoSnapshot => IsolatedRead(u)'
    BY <1>1, <2>1, <2>3, IsolatedReadStays
  <2> QED
    BY <1>1, <2>2, <2>4, IsolatedNext DEF IsolationInv
<1>7. CASE \E o \in Option, s \in Snapshot \cup {NoSnapshot} : SetDefaults(o, s)
  <2>1. /\ readDefaults' # NoSnapshot => views[readDefaults'] # None
        /\ UNCHANGED <<views, call, reads>> /\ LogStays
    BY <1>2, <1>7 DEF SetDefaults
  <2>2. SnapshotsHeld' /\ ReadsHonoured'
    BY <2>1 DEF IsolationInv, SnapshotsHeld, ReadsHonoured
  <2>3. \A u \in Thread : Told(u)' /\ reads'[u].asked # NoSnapshot => IsolatedRead(u)'
    BY <1>1, <2>1, IsolatedReadStays, IsolatedNow DEF IsolationInv
  <2> QED
    BY <1>1, <2>2, <2>3, IsolatedNext DEF IsolationInv
<1>8. CASE Flush
  BY <1>1, <1>2, <1>8, IsolationFrame DEF Flush
<1>9. CASE Crash
  BY <1>1, <1>9, IdleAssumption
     DEF Crash, IsolationInv, SnapshotsHeld, ReadsHonoured, SnapshotIsolation
<1> QED
  BY <1>3, <1>4, <1>5, <1>6, <1>7, <1>8, <1>9 DEF Next

\* A value read with a snapshot is the one the snapshot saw, whatever is
\* written, flushed, released or set as default meanwhile and whichever reads
\* fail, if no overload is called that ignores its options.  (Empty data of a
\* multiGet: is no value: its reads may have failed.)
THEOREM Isolation ==
  ASSUME ReadMethod \cap IgnoringReads = {}
  PROVE  Spec => []SnapshotIsolation
<1> USE DEF Told
<1>1. Init => IsolationInv
  BY InitType, IdleAssumption
     DEF Init, IsolationInv, SnapshotsHeld, ReadsHonoured, SnapshotIsolation
<1>2. IsolationInv => SnapshotIsolation
  BY DEF IsolationInv
<1> QED
  BY <1>1, <1>2, NextIsolated, PTL DEF Spec

-----------------------------------------------------------------------------
(* Own writes.                                                             *)

LEMMA StandsStays ==
  ASSUME LogStays, Len(log) \in Nat, Len(log') \in Nat,
         NEW i, NEW k, Stands(i, k)
  PROVE  Stands(i, k)'
BY DEF LogStays, Stands

LEMMA OwnFrame ==
  ASSUME OwnInv, TypeOK', LogStays, own' = own,
         \A u \in Thread : call'[u] = call[u] \/ call'[u] = Idle,
         \A u \in Thread : reads'[u] = reads[u] \/ ~Told(u)'
  PROVE  OwnInv'
<1> USE DEF Told
<1>1. \A i, k : Stands(i, k) => Stands(i, k)'
  BY StandsStays DEF OwnInv, TypeOK
<1>2. OwnStands' /\ ReadsHonoured'
  BY <1>1, IdleAssumption DEF OwnInv, OwnStands, OwnOf, ReadsHonoured
<1> QED
  BY <1>2 DEF OwnInv, ReadsOwnWrites

\* A step of one thread that undoes no write.
LEMMA OwnStep ==
  ASSUME OwnInv, NEW t \in Thread, \A i, k : Stands(i, k) => Stands(i, k)',
         \A u \in Thread \ {t} : call'[u] = call[u] /\ own'[u] = own[u],
         OwnOf(t)', call'[t] \in Read => call'[t].used = call'[t].asked
  PROVE  OwnStands' /\ ReadsHonoured'
<1>1. ASSUME NEW u \in Thread \ {t} PROVE OwnOf(u)'
  <2>1. OwnOf(u) /\ call'[u] = call[u] /\ own'[u] = own[u]
    BY DEF OwnInv, OwnStands
  <2> QED
    BY <2>1 DEF OwnOf
<1>2. OwnStands'
  BY <1>1 DEF OwnStands
<1>3. ReadsHonoured'
  BY DEF OwnInv, ReadsHonoured
<1> QED
  BY <1>2, <1>3

LEMMA BeginReadOwn ==
  ASSUME ReadMethod \cap IgnoringReads = {}, OwnInv, TypeOK',
         NEW t \in Thread, NEW m \in ReadMethod,
         NEW s \in Snapshot \cup {NoSnapshot}, NEW k \in Key, BeginRead(t, m, s, k)
  PROVE  OwnInv'
<1> USE DEF Told
<1> DEFINE r == [do |-> "read", tells |-> m \notin MultiGet, asked |-> ReadAsked(m, s),
                 used |-> ReadUsed(m, s), key |-> k, since |-> own[t][k]]
<1>1. r.used = r.asked /\ r.key = k /\ r.since = own[t][k] /\ r \notin Write
  BY BeginReadHonoured DEF Write
<1>2. /\ call' = [call EXCEPT ![t] = r] /\ UNCHANGED <<log, lost, own>>
      /\ \A u \in Thread : reads'[u] = reads[u] \/ ~Told(u)'
  BY DEF BeginRead, dbVars, OwnInv, TypeOK
<1> HIDE DEF r
<1>3. \A i, j : Stands(i, j)' = Stands(i, j)
  BY <1>2 DEF Stands
<1>4. call'[t] = r /\ \A u \in Thread \ {t} : call'[u] = call[u]
  BY <1>2 DEF OwnInv, TypeOK
<1>5. OwnOf(t)'
  BY <1>1, <1>2, <1>3, <1>4 DEF OwnInv, OwnStands, OwnOf
<1>6. OwnStands' /\ ReadsHonoured'
  BY <1>1, <1>2, <1>3, <1>4, <1>5, OwnStep
<1> QED
  BY <1>2, <1>6 DEF OwnInv, ReadsOwnWrites

LEMMA BeginWriteOwn ==
  ASSUME OwnInv, TypeOK', NEW t \in Thread, NEW m \in WriteMethod, NEW o \in Option,
         NEW K \in SUBSET Key, BeginWrite(t, m, o, K)
  PROVE  OwnInv'
<1> USE DEF Told
<1> DEFINE w == [do |-> "write", asked |-> Asked(m, o), used |-> Used(m, o),
                 keys |-> K, taken |-> None]
<1>1. w.taken = 0 /\ w \notin Read
  BY DEF Read, None
<1>2. /\ call' = [call EXCEPT ![t] = w] /\ UNCHANGED <<log, lost, own>>
      /\ \A u \in Thread : reads'[u] = reads[u] \/ ~Told(u)'
  BY DEF BeginWrite, dbVars, OwnInv, TypeOK
<1> HIDE DEF w
<1>3. \A i, j : Stands(i, j)' = Stands(i, j)
  BY <1>2 DEF Stands
<1>4. call'[t] = w /\ \A u \in Thread \ {t} : call'[u] = call[u]
  BY <1>2 DEF OwnInv, TypeOK
<1>5. OwnOf(t)'
  BY <1>1, <1>2, <1>3, <1>4 DEF OwnInv, OwnStands, OwnOf
<1>6. OwnStands' /\ ReadsHonoured'
  BY <1>1, <1>2, <1>3, <1>4, <1>5, OwnStep
<1> QED
  BY <1>2, <1>6 DEF OwnInv, ReadsOwnWrites

LEMMA TakeWriteOwn ==
  ASSUME OwnInv, TypeOK', NEW t \in Thread, TakeWrite(t)
  PROVE  OwnInv'
<1> USE DEF Told
<1>0. PICK n \in Nat : n = Len(log)
  BY DEF OwnInv, TypeOK
<1> DEFINE w == [call[t] EXCEPT !.taken = n + 1]
           e == [keys |-> call[t].keys, logged |-> ~call[t].used.disableWriteAheadLog]
<1>1. TypeOK /\ call[t] \in Write
  BY CallKind DEF TakeWrite, OwnInv
<1>2. e \in [keys : SUBSET Key, logged : BOOLEAN] /\ log' = Append(log, e)
  BY <1>1 DEF Write, TakeWrite
<1>3. /\ Len(log') = n + 1 /\ \A i \in 1..n : log'[i] = log[i]
      /\ log'[n + 1].keys = call[t].keys /\ lost' = lost /\ n + 1 \notin lost
  BY <1>0, <1>1, <1>2, LogGrows DEF TakeWrite, TypeOK
<1>4. LogStays
  BY <1>0, <1>3 DEF LogStays
<1>5. w \in Write /\ w.taken = n + 1 /\ w.keys = call[t].keys
  BY <1>0, <1>1 DEF Write
<1>6. call' = [call EXCEPT ![t] = w] /\ UNCHANGED <<own, reads>>
  BY <1>0 DEF TakeWrite, appVars
<1> HIDE DEF w, e
<1>7. \A i, k : Stands(i, k) => Stands(i, k)'
  BY <1>0, <1>3, <1>4, StandsStays
<1>8. \A k \in call[t].keys : Stands(n + 1, k)'
  BY <1>3 DEF Stands
<1>9. call'[t] = w /\ w \notin Read /\ \A u \in Thread \ {t} : call'[u] = call[u]
  BY <1>1, <1>5, <1>6, WriteIsNoRead DEF TypeOK
<1>10. OwnOf(t)'
  BY <1>5, <1>6, <1>7, <1>8, <1>9 DEF OwnInv, OwnStands, OwnOf
<1>11. OwnStands' /\ ReadsHonoured'
  BY <1>6, <1>7, <1>9, <1>10, OwnStep
<1> QED
  BY <1>6, <1>11 DEF OwnInv, ReadsOwnWrites

LEMMA EndWriteOwn ==
  ASSUME OwnInv, TypeOK', NEW t \in Thread, EndWrite(t)
  PROVE  OwnInv'
<1> USE DEF Told
<1>1. TypeOK /\ call[t] \in Write
  BY CallKind DEF EndWrite, OwnInv
<1>2. /\ call' = [call EXCEPT ![t] = Idle] /\ UNCHANGED <<log, lost, reads>>
      /\ \A k \in Key : own'[t][k] = IF k \in call[t].keys THEN call[t].taken ELSE own[t][k]
      /\ \A u \in Thread \ {t} : own'[u] = own[u]
  BY <1>1 DEF EndWrite, dbVars, TypeOK
<1>3. \A i, j : Stands(i, j)' = Stands(i, j)
  BY <1>2 DEF Stands
<1>4. call'[t] = Idle /\ Idle \notin Write \cup Read /\ \A u \in Thread \ {t} : call'[u] = call[u]
  BY <1>1, <1>2, IdleAssumption DEF TypeOK
<1>5. OwnOf(t)'
  BY <1>1, <1>2, <1>3, <1>4 DEF OwnInv, OwnStands, OwnOf
<1>6. OwnStands' /\ ReadsHonoured'
  BY <1>2, <1>3, <1>4, <1>5, OwnStep
<1> QED
  BY <1>2, <1>6 DEF OwnInv, ReadsOwnWrites

\* A read without a snapshot sees the whole log, the thread's write with it.
LEMMA EndReadOwn ==
  ASSUME OwnInv, TypeOK', NEW t \in Thread, EndRead(t)
  PROVE  OwnInv'
<1> USE DEF Told
<1>1. /\ TypeOK /\ call[t] \in Read /\ call[t].used = call[t].asked /\ Len(log) \in Nat
      /\ call[t].since = own[t][call[t].key] /\ call[t].key \in Key
  <2>1. TypeOK /\ Len(log) \in Nat
    BY DEF OwnInv, TypeOK
  <2>2. call[t] \in Read
    BY <2>1, CallKind DEF EndRead
  <2> QED
    BY <2>1, <2>2 DEF OwnInv, ReadsHonoured, OwnStands, OwnOf, Read
<1>2. /\ call' = [call EXCEPT ![t] = Idle] /\ UNCHANGED <<log, lost, own>>
      /\ reads'[t].asked = call[t].asked /\ reads'[t].since = call[t].since
      /\ call[t].used = NoSnapshot => reads'[t].value = ValueAt(call[t].key, Len(log))
      /\ \A u \in Thread \ {t} : reads'[u] = reads[u]
  BY <1>1 DEF EndRead, dbVars, TypeOK
<1>3. ValueAt(call[t].key, Len(log)) >= own[t][call[t].key]
  <2>1. own[t][call[t].key] \in Nat
    BY <1>1 DEF TypeOK
  <2>2. CASE own[t][call[t].key] = 0
    BY <1>1, <2>2, ValueAtRange
  <2>3. CASE own[t][call[t].key] # 0
    <3>1. Stands(own[t][call[t].key], call[t].key)
      BY <1>1, <2>1, <2>3 DEF OwnInv, OwnStands, OwnOf
    <3> QED
      BY <1>1, <3>1, ValueAtLargest DEF Stands
  <2> QED
    BY <2>2, <2>3
<1>4. \A i, j : Stands(i, j)' = Stands(i, j)
  BY <1>2 DEF Stands
<1>5. call'[t] = Idle /\ Idle \notin Write \cup Read /\ \A u \in Thread \ {t} : call'[u] = call[u]
  BY <1>1, <1>2, IdleAssumption DEF TypeOK
<1>6. OwnOf(t)'
  BY <1>2, <1>4, <1>5 DEF OwnInv, OwnStands, OwnOf
<1>7. OwnStands' /\ ReadsHonoured'
  BY <1>2, <1>4, <1>5, <1>6, OwnStep
<1>8. ReadsOwnWrites'
  BY <1>1, <1>2, <1>3 DEF OwnInv, ReadsOwnWrites
<1> QED
  BY <1>7, <1>8 DEF OwnInv

LEMMA NextOwn ==
  ASSUME ReadMethod \cap IgnoringReads = {}
  PROVE  OwnInv /\ [Next]_vars => OwnInv'
<1> SUFFICES ASSUME OwnInv, [Next]_vars PROVE OwnInv'
  OBVIOUS
<1>1. TypeOK /\ TypeOK' /\ Len(log) \in Nat
  <2>1. TypeOK
    BY DEF OwnInv
  <2>2. TypeOK'
    BY <2>1, NextType
  <2> QED
    BY <2>1, <2>2, SMTT(60) DEF TypeOK
<1>2. log' = log /\ lost' = lost => LogStays
  BY <1>1 DEF LogStays
<1> USE DEF dbVars, appVars, Told
<1>3. CASE UNCHANGED vars
  BY <1>1, <1>2, <1>3, OwnFrame DEF vars
<1>4. CASE \E t \in Thread : Call(t)
  <2> PICK t \in Thread : Call(t)
    BY <1>4
  <2>1. CASE \E m \in WriteMethod, o \in Option, K \in SUBSET Key \ {{}} : BeginWrite(t, m, o, K)
    BY <1>1, <2>1, BeginWriteOwn
  <2>2. CASE \E m \in ReadMethod, s \in Snapshot \cup {NoSnapshot}, k \in Key : BeginRead(t, m, s, k)
    BY <1>1, <2>2, BeginReadOwn
  <2>3. CASE RefuseWrite(t) \/ SyncWal(t)
    <3>1. \A u \in Thread : call'[u] = call[u] \/ call'[u] = Idle
      BY <1>1, <2>3 DEF RefuseWrite, SyncWal, TypeOK
    <3> QED
      BY <1>1, <1>2, <2>3, <3>1, OwnFrame DEF RefuseWrite, SyncWal
  <2>4. CASE FailRead(t)
    <3>1. call[t] \in Read
      BY <1>1, <2>4, CallKind DEF FailRead
    <3>2. ~Told(t)'
      BY <1>1, <2>4, <3>1 DEF FailRead, TypeOK
    <3>3. /\ \A u \in Thread : call'[u] = call[u] \/ call'[u] = Idle
          /\ \A u \in Thread : reads'[u] = reads[u] \/ ~Told(u)'
      BY <1>1, <2>4, <3>2 DEF FailRead, TypeOK
    <3> QED
      BY <1>1, <1>2, <2>4, <3>3, OwnFrame DEF FailRead
  <2> QED
    BY <1>1, <2>1, <2>2, <2>3, <2>4, TakeWriteOwn, EndWriteOwn, EndReadOwn DEF Call
<1>5. CASE \/ \E s \in Snapshot : Take(s) \/ Release(s)
           \/ \E o \in Option, s \in Snapshot \cup {NoSnapshot} : SetDefaults(o, s)
           \/ Flush
  BY <1>1, <1>2, <1>5, OwnFrame DEF Take, Release, SetDefaults, Flush
<1>6. CASE Crash
  BY <1>1, <1>6, IdleAssumption DEF Crash, OwnInv, OwnStands, OwnOf, ReadsHonoured, ReadsOwnWrites
<1> QED
  BY <1>3, <1>4, <1>5, <1>6 DEF Next

\* A thread that reads without a snapshot is told what it wrote or something
\* newer, if it is told a value or that there is none, also after changing the
\* defaults, if no overload is called that ignores its options.
THEOREM OwnWrites ==
  ASSUME ReadMethod \cap IgnoringReads = {}
  PROVE  Spec => []ReadsOwnWrites
<1> USE DEF Told
<1>1. Init => OwnInv
  <2> SUFFICES ASSUME Init PROVE OwnInv
    OBVIOUS
  <2>1. TypeOK
    BY InitType
  <2>2. OwnStands /\ ReadsHonoured /\ ReadsOwnWrites
    BY IdleAssumption DEF Init, OwnStands, OwnOf, ReadsHonoured, ReadsOwnWrites
  <2> QED
    BY <2>1, <2>2 DEF OwnInv
<1>2. OwnInv => ReadsOwnWrites
  BY DEF OwnInv
<1> QED
  BY <1>1, <1>2, NextOwn, PTL DEF Spec
=============================================================================
