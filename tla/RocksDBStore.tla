---------------------------- MODULE RocksDBStore ----------------------------
(***************************************************************************)
(* Reads and writes through a RocksDB object (RocksDB.mm): which options   *)
(* an overload hands to the native database, and what a machine crash      *)
(* leaves of the writes.  Threads call the object concurrently, and any of *)
(* them may change the default options.                                    *)
(*                                                                         *)
(* Writes are numbered in the order the database takes them; the number of *)
(* the last write of a key stands for the key's value, 0 for no value.     *)
(***************************************************************************)
EXTENDS Naturals, Sequences

CONSTANTS
  Thread,
  Key,
  Snapshot,
  NoSnapshot,   \* read options without a snapshot
  Idle,         \* a thread that is not in a call
  WriteMethod,  \* the write overloads the application calls
  ReadMethod,   \* the read overloads the application calls
  Option,       \* the write options the application uses
  MaxWrites     \* bound on the writes of a behaviour

\* The overloads of an operation: with or without the argument for a column
\* family, with or without the one for options.
Overloads(op) == [op : {op}, inColumnFamily : BOOLEAN, withOptions : BOOLEAN]

SetData          == Overloads("setData")
MergeData        == Overloads("mergeData")
DeleteDataForKey == Overloads("deleteDataForKey")
DeleteRange      == Overloads("deleteRange")
ApplyWriteBatch  == {[op |-> "applyWriteBatch", inColumnFamily |-> FALSE, withOptions |-> TRUE]}
DataForKey  == Overloads("dataForKey")
MultiGet    == Overloads("multiGet")
KeyMayExist == Overloads("keyMayExist")

Writes == SetData \cup MergeData \cup DeleteDataForKey \cup DeleteRange \cup ApplyWriteBatch
Reads  == DataForKey \cup MultiGet \cup KeyMayExist

\* The overloads that are given no options; that are given options and hand on
\* the default ones; and that hand on what they are given.
PlainWrites     == {m \in Writes : ~m.withOptions}
IgnoringWrites  == {m \in Writes : m.withOptions /\
                      \/ m.op = "mergeData"
                      \/ m.op \in {"setData", "deleteDataForKey"} /\ ~m.inColumnFamily}
HonouringWrites == Writes \ (PlainWrites \cup IgnoringWrites)

PlainReads     == {m \in Reads : ~m.withOptions}
IgnoringReads  == {m \in Reads : m.withOptions /\ m.op = "keyMayExist" /\ ~m.inColumnFamily}
HonouringReads == Reads \ (PlainReads \cup IgnoringReads)

ASSUME MethodAssumption == WriteMethod \subseteq Writes /\ ReadMethod \subseteq Reads
ASSUME BoundAssumption == MaxWrites \in Nat
ASSUME NameAssumption == NoSnapshot \notin Snapshot

WriteOptions == [syncWrites : BOOLEAN, disableWriteAheadLog : BOOLEAN]
Unsynced == [syncWrites |-> FALSE, disableWriteAheadLog |-> FALSE]
ASSUME OptionAssumption == Option \subseteq WriteOptions

VARIABLES
  writeDefaults,  \* _writeOptions
  readDefaults,   \* the snapshot in _readOptions
  log,      \* the writes the database has taken: keys, and whether they were logged
  synced,   \* the write-ahead log is on the disk up to this write
  flushed,  \* the memtables are on the disk up to this write
  lost,     \* writes a crash has undone
  views,    \* the last write each snapshot sees
  call,     \* what each thread is doing
  promised, \* writes the application was promised would survive a crash
  reads,    \* what each thread has just been told of a key's value, or Idle
  own       \* the last acknowledged write of each thread, per key

dbVars  == <<log, synced, flushed, lost>>
appVars == <<promised, reads, own>>
vars == <<writeDefaults, readDefaults, dbVars, views, call, appVars>>

Write == [do : {"write"}, asked : WriteOptions, used : WriteOptions,
          keys : SUBSET Key, taken : Nat]
Read  == [do : {"read"}, tells : BOOLEAN, asked : Snapshot \cup {NoSnapshot},
          used : Snapshot \cup {NoSnapshot}, key : Key, since : Nat]
Seen  == [tells : BOOLEAN, asked : Snapshot \cup {NoSnapshot}, key : Key, value : Nat, since : Nat]
None  == 0

ASSUME IdleAssumption == Idle \notin Write \cup Read \cup Seen

TypeOK ==
  /\ writeDefaults \in WriteOptions /\ readDefaults \in Snapshot \cup {NoSnapshot}
  /\ log \in Seq([keys : SUBSET Key, logged : BOOLEAN])
  /\ synced \in 0..Len(log) /\ flushed \in 0..Len(log)
  /\ lost \subseteq 1..Len(log) /\ promised \subseteq 1..Len(log)
  /\ views \in [Snapshot -> 0..Len(log) + 1]
  /\ call \in [Thread -> Write \cup Read \cup {Idle}]
  /\ \A t \in Thread : call[t] \in Write => call[t].taken <= Len(log)
  /\ reads \in [Thread -> Seen \cup {Idle}]
  /\ own \in [Thread -> [Key -> 0..Len(log)]]

Init ==
  /\ writeDefaults = Unsynced /\ readDefaults = NoSnapshot
  /\ log = <<>> /\ synced = 0 /\ flushed = 0 /\ lost = {} /\ promised = {}
  /\ views = [s \in Snapshot |-> None]
  /\ call = [t \in Thread |-> Idle] /\ reads = [t \in Thread |-> Idle]
  /\ own = [t \in Thread |-> [k \in Key |-> 0]]

\* The value of k that a view of the first n writes has.
ValueAt(k, n) ==
  LET W == {i \in 1..n : i \notin lost /\ k \in log[i].keys} IN
  IF W = {} THEN 0 ELSE CHOOSE i \in W : \A j \in W : j <= i

-----------------------------------------------------------------------------
(* Writes.                                                                 *)

Asked(m, o) == IF m \in PlainWrites THEN writeDefaults ELSE o
UsedDefault(m, o) == writeDefaults  \* mutant: every overload ignores its options

Used(m, o)  == IF m \in HonouringWrites THEN o ELSE writeDefaults

BeginWrite(t, m, o, K) ==
  /\ call[t] = Idle
  /\ call' = [call EXCEPT ![t] = [do |-> "write", asked |-> Asked(m, o),
                                  used |-> Used(m, o), keys |-> K, taken |-> None]]
  /\ reads' = [reads EXCEPT ![t] = Idle]
  /\ UNCHANGED <<writeDefaults, readDefaults, dbVars, views, promised, own>>

\* The native Put, Merge, Delete, DeleteRange or Write; a synced write brings
\* all that was logged before it to the disk.
TakeWrite(t) ==
  LET w == call[t] IN
  /\ w # Idle /\ w.do = "write" /\ w.taken = None /\ Len(log) < MaxWrites
  /\ ~(w.used.syncWrites /\ w.used.disableWriteAheadLog)
  /\ log' = Append(log, [keys |-> w.keys, logged |-> ~w.used.disableWriteAheadLog])
  /\ synced' = IF w.used.syncWrites THEN Len(log) + 1 ELSE synced
  /\ call' = [call EXCEPT ![t].taken = Len(log) + 1]
  /\ UNCHANGED <<writeDefaults, readDefaults, flushed, lost, views, appVars>>

\* The status was ok: YES.
EndWrite(t) ==
  LET w == call[t] IN
  /\ w # Idle /\ w.do = "write" /\ w.taken # None
  /\ call' = [call EXCEPT ![t] = Idle]
  /\ promised' = IF w.asked.syncWrites /\ ~w.asked.disableWriteAheadLog
                   THEN promised \cup {w.taken} ELSE promised
  /\ own' = [own EXCEPT ![t] = [k \in Key |-> IF k \in w.keys THEN w.taken ELSE @[k]]]
  /\ UNCHANGED <<writeDefaults, readDefaults, dbVars, views, reads>>

\* The status was not: NO.  RocksDB takes no synced write without a log.
RefuseWrite(t) ==
  /\ call[t] # Idle /\ call[t].do = "write" /\ call[t].taken = None
  /\ call' = [call EXCEPT ![t] = Idle]
  /\ UNCHANGED <<writeDefaults, readDefaults, dbVars, views, appVars>>

\* -syncWal: and -flushWal:YES, and -flushWal:NO, which leaves the log in the
\* buffers of the operating system.
SyncWal(t) ==
  /\ call[t] = Idle
  /\ synced' = Len(log)
  /\ promised' = promised \cup {i \in 1..Len(log) : log[i].logged /\ i \notin lost}
  /\ UNCHANGED <<writeDefaults, readDefaults, log, flushed, lost, views, call, reads, own>>

FlushTooFar ==  \* mutant: counts one write more than there is
  /\ flushed' = Len(log) + 1
  /\ UNCHANGED <<writeDefaults, readDefaults, log, synced, lost, views, call, appVars>>

\* RocksDB writes its memtables to the disk.
Flush ==
  /\ flushed' = Len(log)
  /\ UNCHANGED <<writeDefaults, readDefaults, log, synced, lost, views, call, appVars>>

-----------------------------------------------------------------------------
(* Snapshots and reads.                                                    *)

\* A view is one more than the last write it sees, None for no snapshot.
Take(s) ==
  /\ views[s] = None
  /\ views' = [views EXCEPT ![s] = Len(log) + 1]
  /\ UNCHANGED <<writeDefaults, readDefaults, dbVars, call, appVars>>

\* The application releases a snapshot when nothing refers to it.
Release(s) ==
  /\ views[s] # None /\ readDefaults # s
  /\ \A t \in Thread : call[t] # Idle /\ call[t].do = "read" => call[t].used # s
  /\ views' = [views EXCEPT ![s] = None]
  /\ reads' = [t \in Thread |-> IF reads[t] # Idle /\ reads[t].asked = s
                                THEN Idle ELSE reads[t]]
  /\ UNCHANGED <<writeDefaults, readDefaults, dbVars, call, promised, own>>

ReadAsked(m, s) == IF m \in PlainReads THEN readDefaults ELSE s
ReadUsedDefault(m, s) == readDefaults  \* mutant: every overload ignores its options

ReadUsed(m, s)  == IF m \in HonouringReads THEN s ELSE readDefaults

BeginRead(t, m, s, k) ==
  /\ call[t] = Idle /\ (s # NoSnapshot => views[s] # None)
  /\ call' = [call EXCEPT ![t] =
       [do |-> "read", tells |-> m \notin MultiGet, asked |-> ReadAsked(m, s),
        used |-> ReadUsed(m, s), key |-> k, since |-> own[t][k]]]
  /\ reads' = [reads EXCEPT ![t] = Idle]
  /\ UNCHANGED <<writeDefaults, readDefaults, dbVars, views, promised, own>>

EndReadPersisted(t) ==  \* mutant: reads the disk, not the memtables
  LET r == call[t] IN
  /\ r # Idle /\ r.do = "read"
  /\ call' = [call EXCEPT ![t] = Idle]
  /\ reads' = [reads EXCEPT ![t] =
       [tells |-> r.tells, asked |-> r.asked, key |-> r.key, since |-> r.since,
        value |-> ValueAt(r.key, IF r.used = NoSnapshot THEN flushed
                                                        ELSE views[r.used] - 1)]]
  /\ UNCHANGED <<writeDefaults, readDefaults, dbVars, views, promised, own>>

\* The native Get, MultiGet or KeyMayExist finds the value, or that there is none.
EndRead(t) ==
  LET r == call[t] IN
  /\ r # Idle /\ r.do = "read"
  /\ call' = [call EXCEPT ![t] = Idle]
  /\ reads' = [reads EXCEPT ![t] =
       [tells |-> r.tells, asked |-> r.asked, key |-> r.key, since |-> r.since,
        value |-> ValueAt(r.key, IF r.used = NoSnapshot THEN Len(log)
                                                        ELSE views[r.used] - 1)]]
  /\ UNCHANGED <<writeDefaults, readDefaults, dbVars, views, promised, own>>

\* It does not: dataForKey: returns nil and an error, keyMayExist: YES without a
\* value.  multiGet: drops the statuses and returns empty data, which it also
\* does for a key that is not there.
FailRead(t) ==
  LET r == call[t] IN
  /\ r # Idle /\ r.do = "read"
  /\ call' = [call EXCEPT ![t] = Idle]
  /\ reads' = [reads EXCEPT ![t] =
       IF r.tells THEN Idle
       ELSE [tells |-> FALSE, asked |-> r.asked, key |-> r.key, since |-> r.since, value |-> 0]]
  /\ UNCHANGED <<writeDefaults, readDefaults, dbVars, views, promised, own>>

SetDefaults(o, s) ==
  /\ s # NoSnapshot => views[s] # None
  /\ writeDefaults' = o /\ readDefaults' = s
  /\ UNCHANGED <<dbVars, views, call, appVars>>

-----------------------------------------------------------------------------
(* The machine stops; the database is opened again and recovers what was   *)
(* flushed and a part of the log that includes all that was synced.        *)

Crash ==
  /\ \E cut \in synced..Len(log) :
       lost' = lost \cup {i \in flushed + 1..Len(log) : i > cut \/ ~log[i].logged}
  /\ synced' = Len(log) /\ flushed' = Len(log)
  /\ writeDefaults' = Unsynced /\ readDefaults' = NoSnapshot
  /\ views' = [s \in Snapshot |-> None]
  /\ call' = [t \in Thread |-> Idle] /\ reads' = [t \in Thread |-> Idle]
  /\ own' = [t \in Thread |-> [k \in Key |-> 0]]
  /\ UNCHANGED <<log, promised>>

Call(t) ==
  \/ \E m \in WriteMethod, o \in Option, K \in SUBSET Key \ {{}} : BeginWrite(t, m, o, K)
  \/ \E m \in ReadMethod, s \in Snapshot \cup {NoSnapshot}, k \in Key : BeginRead(t, m, s, k)
  \/ TakeWrite(t) \/ EndWrite(t) \/ RefuseWrite(t) \/ SyncWal(t)
  \/ EndRead(t) \/ FailRead(t)

Next ==
  \/ \E t \in Thread : Call(t)
  \/ \E s \in Snapshot : Take(s) \/ Release(s)
  \/ \E o \in Option, s \in Snapshot \cup {NoSnapshot} : SetDefaults(o, s)
  \/ Flush \/ Crash

Spec == Init /\ [][Next]_vars

-----------------------------------------------------------------------------
(* Properties.                                                             *)

\* A write that was acknowledged under syncWrites, or that was logged before
\* -syncWal: returned, survives every crash, whatever defaults other threads
\* set in the meantime.
PromisedSurvives == promised \cap lost = {}

\* A thread was told of a key's value, or that it has none.  It was not if the
\* read reported a failure, and cannot know if multiGet: returned empty data.
Told(t) == reads[t] # Idle /\ (reads[t].tells \/ reads[t].value # 0)

\* What a read tells that was given a snapshot is the value the snapshot saw, or
\* that there was none.
SnapshotIsolation ==
  \A t \in Thread : Told(t) /\ reads[t].asked # NoSnapshot
    => reads[t].value = ValueAt(reads[t].key, views[reads[t].asked] - 1)

\* A thread that reads without a snapshot is told what it wrote, or something
\* newer, if it is told.
ReadsOwnWrites ==
  \A t \in Thread : Told(t) /\ reads[t].asked = NoSnapshot
    => reads[t].value >= reads[t].since
=============================================================================
