------------------------- MODULE RocksDBWriteBatch -------------------------
(***************************************************************************)
(* A write batch (RocksDBWriteBatchBase.mm and its two subclasses) and its *)
(* application to a database (-applyWriteBatch:writeOptions: in            *)
(* RocksDB.mm).  The batch keeps a running count and running content       *)
(* flags beside its records, and a save point remembers the three numbers  *)
(* of RocksDBSavePoint: size, count and content flags.  -setMaxBytes:      *)
(* bounds the batch; an update that does not fit must leave no trace.      *)
(* An indexed batch (RocksDBIndexedWriteBatch.mm) can be read and          *)
(* enumerated (RocksDBWriteBatchIterator.mm) before it is applied.         *)
(*                                                                         *)
(* A record is one unit of size.  A key stands for a key of a column       *)
(* family; the database stacks merge operands until they are merged.       *)
(***************************************************************************)
EXTENDS RocksDBMergeOperator

CONSTANTS
  Key,         \* numbers, in the order of the comparator
  RangeEnd,    \* the ends of ranges, which need not be keys
  Value,
  Limit,       \* the arguments of -setMaxBytes:
  MaxRecords,  \* bounds on the batch, ...
  MaxSaves,    \* ... on its save points ...
  MaxOperands  \* ... and on the values in the database together

ASSUME KeyAssumption == Key \subseteq Nat /\ RangeEnd \subseteq Nat /\ Associative \subseteq Key
ASSUME ValueAssumption == Corrupt \subseteq Value
ASSUME NilAssumption == Nil \notin Seq(Value) /\ Failure \notin Seq(Value) \cup {Nil}
ASSUME LimitAssumption == Limit \subseteq Nat
ASSUME BoundAssumption == MaxRecords \in Nat /\ MaxSaves \in Nat /\ MaxOperands \in Nat

Record ==
  [type : {"put", "merge"}, key : Key, value : Value]
  \cup [type : {"delete", "single delete"}, key : Key]
  \cup [type : {"delete range"}, begin : Key, end : RangeEnd]
  \cup [type : {"log data"}]

\* Log data consumes no sequence number and is not counted, nor flagged.
Counted(r) == r.type # "log data"
FlagOf(r)  == IF Counted(r) THEN {r.type} ELSE {}

\* What a record does to the stacks c.  (RocksDB promises this of a single
\* delete only for a key that was written once since it was last deleted.)
Effect(c, r) ==
  [k \in Key |->
     CASE r.type = "put" /\ r.key = k -> [base |-> <<r.value>>, operands |-> <<>>]
       [] r.type = "merge" /\ r.key = k ->
            [c[k] EXCEPT !.operands = Append(@, <<r.value>>)]
       [] r.type \in {"delete", "single delete"} /\ r.key = k -> NoValue
       [] r.type = "delete range" /\ r.begin <= k /\ k < r.end -> NoValue
       [] OTHER -> c[k]]

Apply(rs, c) ==
  LET applied[i \in 0..Len(rs)] == IF i = 0 THEN c ELSE Effect(applied[i - 1], rs[i])
  IN applied[Len(rs)]

\* What reads of c find.  Where they fail it is what there is to be merged.
Contents(c) == [k \in Key |-> LET found == Resolve(k, c[k]) IN
                               IF found = Failure THEN Joined(c[k].base, c[k].operands) ELSE found]

\* The same for contents: a put is the list of one operand, and a merge
\* appends to what is there.
Update(v, r) ==
  [k \in Key |->
     CASE r.type = "put" /\ r.key = k -> <<r.value>>
       [] r.type = "merge" /\ r.key = k -> Append(OrEmpty(v[k]), r.value)
       [] r.type \in {"delete", "single delete"} /\ r.key = k -> Nil
       [] r.type = "delete range" /\ r.begin <= k /\ k < r.end -> Nil
       [] OTHER -> v[k]]

ApplyToContents(rs, v) ==
  LET updated[i \in 0..Len(rs)] == IF i = 0 THEN v ELSE Update(updated[i - 1], rs[i])
  IN updated[Len(rs)]

VARIABLES
  kind,     \* "plain"; "indexed", or so with overwriteKey: "overwriting"
  records,  \* the serialized updates
  count,    \* the running count in the batch's header
  flags,    \* the running content flags
  saves,    \* the save points, the oldest first
  limit,    \* what -setMaxBytes: set, 0 for no limit
  db        \* what the database holds for each key

batchVars == <<records, count, flags>>
vars == <<kind, batchVars, saves, limit, db>>

SavePoint == [size : 0..MaxRecords, count : 0..MaxRecords,
              flags : SUBSET {"put", "merge", "delete", "single delete", "delete range"}]

Stack == [base : Seq(Value) \cup {Nil}, operands : Seq(Seq(Value) \ {<<>>})]

TypeOK ==
  /\ kind \in {"plain", "indexed", "overwriting"}
  /\ records \in Seq(Record) /\ Len(records) <= MaxRecords
  /\ [size |-> Len(records), count |-> count, flags |-> flags] \in SavePoint
  /\ saves \in Seq(SavePoint) /\ Len(saves) <= MaxSaves
  /\ limit \in Limit \cup {0}
  /\ db \in [Key -> Stack]

Init ==
  /\ kind \in {"plain", "indexed", "overwriting"}
  /\ records = <<>> /\ count = 0 /\ flags = {} /\ saves = <<>> /\ limit = 0
  /\ db = [k \in Key |-> NoValue]

-----------------------------------------------------------------------------
(* Updates.                                                                *)

Fits == limit = 0 \/ Len(records) < limit

\* What answers NO leaves no trace, and the answer itself is not kept.
RefusedUpdate == ~Fits /\ UNCHANGED vars

Add(r) ==
  /\ Len(records) < MaxRecords
  /\ Fits
  /\ records' = Append(records, r)
  /\ count' = IF Counted(r) THEN count + 1 ELSE count
  /\ flags' = flags \cup FlagOf(r)
  /\ UNCHANGED <<kind, saves, limit, db>>

SetData(k, v)   == Add([type |-> "put", key |-> k, value |-> v])
MergeData(k, v) == Add([type |-> "merge", key |-> k, value |-> v])
DeleteData(k)   == Add([type |-> "delete", key |-> k])
SingleDelete(k) == Add([type |-> "single delete", key |-> k])
PutLogData      == Add([type |-> "log data"])

DeleteRange(b, e) ==
  /\ kind = "plain"
  /\ Add([type |-> "delete range", begin |-> b, end |-> e])

\* An indexed batch cannot index a range: NO, and nothing is recorded.
DeleteRangeUnsupported == kind # "plain" /\ UNCHANGED vars

ClearKeepingCount ==  \* mutant: the running count is not reset
  /\ records' = <<>> /\ flags' = {} /\ saves' = <<>>
  /\ UNCHANGED <<kind, count, limit, db>>

Clear ==
  /\ records' = <<>> /\ count' = 0 /\ flags' = {} /\ saves' = <<>>
  /\ UNCHANGED <<kind, limit, db>>

\* A bound: the application sets it while the batch is empty.
SetMaxBytes(n) ==
  /\ records = <<>>
  /\ limit' = n
  /\ UNCHANGED <<kind, batchVars, saves, db>>

-----------------------------------------------------------------------------
(* Save points.                                                            *)

SetSavePointWithoutFlags ==  \* mutant: does not save the content flags
  /\ Len(saves) < MaxSaves
  /\ saves' = Append(saves, [size |-> Len(records), count |-> count, flags |-> {}])
  /\ UNCHANGED <<kind, batchVars, limit, db>>

SetSavePoint ==
  /\ Len(saves) < MaxSaves
  /\ saves' = Append(saves, [size |-> Len(records), count |-> count, flags |-> flags])
  /\ UNCHANGED <<kind, batchVars, limit, db>>

RollbackKeepingFlags ==  \* mutant: the content flags are not put back
  /\ saves # <<>>
  /\ records' = SubSeq(records, 1, Last(saves).size)
  /\ count' = Last(saves).count
  /\ saves' = Front(saves)
  /\ UNCHANGED <<kind, flags, limit, db>>

RollbackToSavePoint ==
  /\ saves # <<>>
  /\ records' = SubSeq(records, 1, Last(saves).size)
  /\ count' = Last(saves).count
  /\ flags' = Last(saves).flags
  /\ saves' = Front(saves)
  /\ UNCHANGED <<kind, limit, db>>

PopSavePoint ==
  /\ saves # <<>>
  /\ saves' = Front(saves)
  /\ UNCHANGED <<kind, batchVars, limit, db>>

\* -rollbackToSavePoint: and -popSavePoint: without a save point: NotFound.
NoSavePoint == saves = <<>> /\ UNCHANGED vars

-----------------------------------------------------------------------------
(* The database.                                                           *)

Bounded(c) == SumFunction([k \in Key |-> Len(OrEmpty(Contents(c)[k]))]) <= MaxOperands

\* The batch is not cleared: the application may go on with it, or apply it
\* again.
ApplyWriteBatch ==
  /\ Bounded(Apply(records, db))
  /\ db' = Apply(records, db)
  /\ UNCHANGED <<kind, batchVars, saves, limit>>

ApplyFails == UNCHANGED vars

Compact(k) ==
  /\ \E s \in Compactions(k, db[k]) : db' = [db EXCEPT ![k] = s]
  /\ UNCHANGED <<kind, batchVars, saves, limit>>

\* Somebody else puts or deletes a key.
Written == {Nil} \cup {<<v>> : v \in Value}

OtherWrite(k, v) ==
  /\ Bounded([db EXCEPT ![k] = [base |-> v, operands |-> <<>>]])
  /\ db' = [db EXCEPT ![k] = [base |-> v, operands |-> <<>>]]
  /\ UNCHANGED <<kind, batchVars, saves, limit>>

Next ==
  \/ \E k \in Key, v \in Value : SetData(k, v) \/ MergeData(k, v)
  \/ \E k \in Key : DeleteData(k) \/ SingleDelete(k)
  \/ \E b \in Key, e \in RangeEnd : b < e /\ DeleteRange(b, e)
  \/ PutLogData \/ RefusedUpdate \/ DeleteRangeUnsupported \/ Clear
  \/ \E n \in Limit : SetMaxBytes(n)
  \/ SetSavePoint \/ RollbackToSavePoint \/ PopSavePoint \/ NoSavePoint
  \/ ApplyWriteBatch \/ ApplyFails
  \/ \E k \in Key : Compact(k)
  \/ \E k \in Key, v \in Written : OtherWrite(k, v)

Spec == Init /\ [][Next]_vars

-----------------------------------------------------------------------------
(* Reading an indexed batch.                                               *)

\* The records of key k; those that say what it is regardless of what it was.
Of(k)    == {i \in 1..Len(records) : Counted(records[i]) /\ records[i].key = k}
Bases(k) == {i \in Of(k) : records[i].type # "merge"}
Latest(S) == CHOOSE i \in S : \A j \in S : j <= i

\* The operands of the merges into k that follow record n.
MergesAfter(k, n) == FlattenSeq([i \in 1..Len(records) |->
                                   IF i \in Of(k) /\ i > n THEN << <<records[i].value>> >>
                                                          ELSE <<>>])
BaseInBatch(k) == LET r == records[Latest(Bases(k))] IN
                  IF r.type = "put" THEN <<r.value>> ELSE Nil

\* With overwriteKey the records behind the latest one are not known: a merge
\* cannot be resolved.
MergeInProgress(k) ==
  kind = "overwriting" /\ Of(k) # {} /\ records[Latest(Of(k))].type = "merge"

\* -getFromBatchAndColumnFamily:fromColumnFamily:key:error:
GetFromBatch(k) ==
  IF MergeInProgress(k) \/ (Bases(k) = {} /\ Of(k) # {}) THEN Failure
  ELSE IF Of(k) = {} THEN Nil
  ELSE Resolve(k, [base |-> BaseInBatch(k), operands |-> MergesAfter(k, Latest(Bases(k)))])

\* -getFromBatchAndDB:options:key:error:, where a read of the database with the
\* read options finds v, or fails.
GetFromBatchAndDBNewestFirst(k, v) ==  \* mutant: merges in the wrong order
  IF Bases(k) # {} \/ MergeInProgress(k) THEN GetFromBatch(k)
  ELSE IF v = Failure THEN Failure
  ELSE Resolve(k, [base |-> v, operands |-> Reverse(MergesAfter(k, 0))])

GetFromBatchAndDB(k, v) ==
  IF Bases(k) # {} \/ MergeInProgress(k) THEN GetFromBatch(k)
  ELSE IF v = Failure THEN Failure
  ELSE Resolve(k, [base |-> v, operands |-> MergesAfter(k, 0)])

-----------------------------------------------------------------------------
(* Enumerating an indexed batch.                                           *)

\* The records an iterator shows, by their places in the batch: in the order
\* of their keys, those of a key in the order of update; with overwriteKey
\* only the latest of each key.
Shown == {i \in 1..Len(records) : /\ Counted(records[i])
                                  /\ kind = "overwriting" => i = Latest(Of(records[i].key))}

PrecedesNewestFirst(i, j) ==  \* mutant: the updates of a key the other way round
  records[i].key < records[j].key \/ (records[i].key = records[j].key /\ i > j)
Precedes(i, j) ==
  records[i].key < records[j].key \/ (records[i].key = records[j].key /\ i < j)

Entries == CHOOSE s \in SetToSeqs(Shown) :
             \A p, q \in 1..Len(s) : p < q => Precedes(s[p], s[q])

KeyAt(p) == records[Entries[p]].key

\* Where -seekToKey: and -seekForPrev: leave the iterator: one past either end
\* is invalid.
SeekToKey(k)   == CHOOSE p \in 1..Len(Entries) + 1 :
                    /\ \A q \in 1..p - 1 : KeyAt(q) < k
                    /\ p <= Len(Entries) => KeyAt(p) >= k
SeekForPrev(k) == CHOOSE p \in 0..Len(Entries) :
                    /\ \A q \in p + 1..Len(Entries) : KeyAt(q) > k
                    /\ p >= 1 => KeyAt(p) <= k

\* What -seekToKey: and then -next at each step show, and -seekForPrev: and
\* -previous.
ForwardFrom(k)  == SubSeq(Entries, SeekToKey(k), Len(Entries))
BackwardFrom(k) == Reverse(SubSeq(Entries, 1, SeekForPrev(k)))

-----------------------------------------------------------------------------
(* Properties.                                                             *)

\* The positions, counts and flags of the save points bring back exactly the
\* batch each was set at, through any nesting of save points, pops, limits and
\* refused updates; -count and -hasPut and its siblings tell the truth of it;
\* and the database changes as a whole, in the order of the updates, whenever
\* its operands are merged, in parts or in full, by either merge operator.
Abstract == INSTANCE BatchWithSavePoints WITH
  Apply <- ApplyToContents,
  batch <- records, size <- count, kinds <- flags, contents <- Contents(db),
  copies <- [i \in 1..Len(saves) |-> SubSeq(records, 1, saves[i].size)]
IsBatch == Abstract!Spec

\* A batch without merges may be applied again, for instance because the first
\* attempt answered NO, and does no harm: what hasMerge says is to be relied on.
RetryHarmless ==
  "merge" \notin flags => Apply(records, Apply(records, db)) = Apply(records, db)

\* A read through an indexed batch finds what it would find in the database
\* if the batch were applied at this moment; it fails rather than tell
\* anything else, and without overwriteKey it fails only if it must not look at
\* the database, or if that read would: where the full merge is refused.
ReadsAsApplied ==
  kind # "plain" => \A k \in Key :
    LET applied == Resolve(k, Apply(records, db)[k])
        found   == GetFromBatchAndDB(k, Resolve(k, db[k])) IN
    /\ found \in {applied, Failure}
    /\ Of(k) # {} => GetFromBatch(k) \in {applied, Failure}
    /\ kind = "indexed" => found = applied

\* The entries an iterator shows of a key, from -seekToKey: onwards or from
\* -seekForPrev: backwards, are all its updates in their order: replayed, they
\* do what the batch does.  With overwriteKey one entry does, if it is no merge.
EntriesTellBatch ==
  kind # "plain" => \A k \in Key :
    LET n        == Cardinality({i \in Shown : records[i].key = k})
        updates  == SubSeq(ForwardFrom(k), 1, n)
        replayed == [i \in 1..n |-> records[updates[i]]] IN
    /\ SubSeq(BackwardFrom(k), 1, n) = Reverse(updates)
    /\ ~MergeInProgress(k) => Apply(replayed, db)[k] = Apply(records, db)[k]
=============================================================================
