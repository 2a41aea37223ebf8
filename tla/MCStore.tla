------------------------------ MODULE MCStore ------------------------------
(* Small instances of RocksDBStore for TLC.                                *)
EXTENDS RocksDBStore, TLC

\* Synced or unlogged; the first defaults are neither.
SomeOptions == {o \in WriteOptions : o.syncWrites # o.disableWriteAheadLog}

\* Overloads that keep to their options, one of each kind.  (A keyMayExist: is to
\* the model what dataForKey: is.)
SomeWrites == {m \in HonouringWrites \cup PlainWrites : m.op = "setData" /\ m.inColumnFamily}
SomeReads  == {m \in DataForKey \cup MultiGet : m.inColumnFamily}

\* Threads, keys and snapshots only ever index functions and fill sets.
Symmetry == Permutations(Thread) \cup Permutations(Key)
=============================================================================
