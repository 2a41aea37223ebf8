----------------------- MODULE RocksDBWriteBatchProofs -----------------------
(***************************************************************************)
(* For any keys, values, limits, merge operators and nesting of save       *)
(* points: the numbers a batch keeps beside its records are true of them,  *)
(* a batch can be put back to each save point and is applied as a whole,   *)
(* it may be applied again if it has no merges, and an indexed batch is    *)
(* read, and enumerated, as if it had been applied.                        *)
(***************************************************************************)
EXTENDS FiniteSetTheorems, SequenceTheorems, FirstOrderInduction, RocksDBWriteBatch

-----------------------------------------------------------------------------
(* The numbers of a batch and of its save points.                          *)

\* The count and the flags of the first n of some records.
CountOf(rs, n) == Cardinality({i \in 1..n : Counted(rs[i])})
FlagsOf(rs, n) == UNION {FlagOf(rs[i]) : i \in 1..n}

\* What a batch and a save point keep is true of the first n records.
True(numbers, n) ==
  numbers.size = n /\ numbers.count = CountOf(records, n) /\ numbers.flags = FlagsOf(records, n)

Header == [size |-> Len(records), count |-> count, flags |-> flags]

\* -count and -hasPut and its siblings tell the truth, and after a rollback
\* they will: every save point lies within the batch.
HeaderTells ==
  /\ True(Header, Len(records))
  /\ \A i \in 1..Len(saves) : \E n \in 0..Len(records) : True(saves[i], n)

\* A save point lies within what the later ones go back to.
Nested ==
  \A i \in 1..Len(saves) : \A j \in i..Len(saves) : saves[i].size <= saves[j].size

Saved == [size : Nat, count : Nat, flags : SUBSET UNION {FlagOf(r) : r \in Record}]

BatchInv ==
  /\ records \in Seq(Record) /\ saves \in Seq(Saved) /\ Header \in Saved
  /\ HeaderTells /\ Nested

-----------------------------------------------------------------------------
\* The numbers depend on the first n records only.
LEMMA SamePrefix ==
  ASSUME NEW n \in Nat, NEW rs, NEW ss, \A i \in 1..n : ss[i] = rs[i]
  PROVE  CountOf(ss, n) = CountOf(rs, n) /\ FlagsOf(ss, n) = FlagsOf(rs, n)
<1>1. {i \in 1..n : Counted(ss[i])} = {i \in 1..n : Counted(rs[i])}
  BY DEF Counted
<1>2. {FlagOf(ss[i]) : i \in 1..n} = {FlagOf(rs[i]) : i \in 1..n}
  OBVIOUS
<1>3. QED
  BY <1>1, <1>2 DEF CountOf, FlagsOf

LEMMA OneMore ==
  ASSUME NEW n \in Nat, NEW rs
  PROVE  /\ CountOf(rs, n) \in Nat
         /\ CountOf(rs, n + 1) =
              IF Counted(rs[n + 1]) THEN CountOf(rs, n) + 1 ELSE CountOf(rs, n)
         /\ FlagsOf(rs, n + 1) = FlagsOf(rs, n) \cup FlagOf(rs[n + 1])
         /\ CountOf(rs, 0) = 0 /\ FlagsOf(rs, 0) = {}
<1> DEFINE C(m) == {i \in 1..m : Counted(rs[i])}
<1>1. IsFiniteSet(1..n) /\ C(n) \subseteq 1..n
  BY FS_Interval
<1>2. IsFiniteSet(C(n)) /\ n + 1 \notin C(n)
  BY <1>1, FS_Subset
<1>3. 1..(n + 1) = 1..n \cup {n + 1} /\ 1..0 = {}
  OBVIOUS
<1>4. C(n + 1) = IF Counted(rs[n + 1]) THEN C(n) \cup {n + 1} ELSE C(n)
  BY <1>3
<1>5. C(0) = {}
  BY <1>3
<1>6. /\ CountOf(rs, n) = Cardinality(C(n)) /\ CountOf(rs, n + 1) = Cardinality(C(n + 1))
      /\ CountOf(rs, 0) = Cardinality(C(0))
  BY DEF CountOf
<1> HIDE DEF C
<1>7. CountOf(rs, n) \in Nat /\ CountOf(rs, 0) = 0
  BY <1>2, <1>5, <1>6, FS_CardinalityType, FS_EmptySet
<1>8. CountOf(rs, n + 1) =
        IF Counted(rs[n + 1]) THEN CountOf(rs, n) + 1 ELSE CountOf(rs, n)
  BY <1>2, <1>4, <1>6, FS_AddElement
<1>9. FlagsOf(rs, n + 1) = FlagsOf(rs, n) \cup FlagOf(rs[n + 1]) /\ FlagsOf(rs, 0) = {}
  BY <1>3 DEF FlagsOf
<1>10. QED
  BY <1>7, <1>8, <1>9

LEMMA NoRecords ==
  /\ CountOf(<<>>, 0) = 0 /\ FlagsOf(<<>>, 0) = {} /\ Len(<<>>) = 0
  /\ <<>> \in Seq(Record) /\ <<>> \in Seq(Saved)
BY OneMore

LEMMA EmptyBatch ==
  ASSUME records = <<>>, saves = <<>>, count = 0, flags = {}
  PROVE  BatchInv
BY NoRecords DEF BatchInv, HeaderTells, Nested, Saved, Header, True

\* An update that fits adds to the records and the numbers alike.
LEMMA AddKeeps ==
  ASSUME BatchInv, NEW r \in Record, Add(r)
  PROVE  BatchInv'
<1>0. PICK n \in Nat : n = Len(records)
  BY DEF BatchInv
<1>1. /\ records' = Append(records, r) /\ UNCHANGED saves
      /\ count' = (IF Counted(r) THEN count + 1 ELSE count)
      /\ flags' = flags \cup FlagOf(r)
  BY DEF Add
<1>2. records' \in Seq(Record) /\ Len(records') = n + 1
  BY <1>0, <1>1 DEF BatchInv
<1>3. records'[n + 1] = r /\ \A i \in 1..n : records'[i] = records[i]
  BY <1>0, <1>1 DEF BatchInv
<1>4. ASSUME NEW m \in 0..n
      PROVE  CountOf(records', m) = CountOf(records, m) /\ FlagsOf(records', m) = FlagsOf(records, m)
  BY <1>3, SamePrefix
<1>5. /\ CountOf(records', n + 1) = (IF Counted(r) THEN CountOf(records, n) + 1
                                                 ELSE CountOf(records, n))
      /\ FlagsOf(records', n + 1) = FlagsOf(records, n) \cup FlagOf(r)
  <2>1. n \in 0..n
    OBVIOUS
  <2>2. QED
    BY <1>3, <1>4, <2>1, OneMore
<1>6. True(Header, Len(records))'
  BY <1>0, <1>1, <1>2, <1>5 DEF BatchInv, HeaderTells, True, Header
<1>7. Header' \in Saved
  <2>1. count \in Nat /\ flags \in SUBSET UNION {FlagOf(i) : i \in Record}
    BY DEF BatchInv, Header, Saved
  <2>2. QED
    BY <1>1, <1>2, <2>1 DEF Header, Saved
<1>8. ASSUME NEW i \in 1..Len(saves') PROVE \E m \in 0..Len(records') : True(saves[i], m)'
  <2>1. PICK m \in 0..n : True(saves[i], m)
    BY <1>0, <1>1 DEF BatchInv, HeaderTells
  <2>2. True(saves[i], m)' /\ m \in 0..(n + 1)
    BY <1>1, <1>4, <2>1 DEF True
  <2>3. QED
    BY <1>1, <1>2, <2>2
<1>9. QED
  BY <1>1, <1>2, <1>6, <1>7, <1>8 DEF BatchInv, HeaderTells, Nested, True

\* Save points come and go in their order, the latest at the end of the batch.
LEMMA SavePointKeeps ==
  ASSUME BatchInv, SetSavePoint
  PROVE  BatchInv'
<1>0. PICK n \in Nat : n = Len(saves)
  BY DEF BatchInv
<1>1. saves' = Append(saves, Header) /\ UNCHANGED <<records, count, flags>>
  BY DEF SetSavePoint, batchVars, Header
<1>2. /\ saves' \in Seq(Saved) /\ Len(saves') = n + 1 /\ saves'[n + 1] = Header
      /\ \A i \in 1..n : saves'[i] = saves[i]
  BY <1>0, <1>1 DEF BatchInv
<1>3. Len(records) \in 0..Len(records) /\ Len(records) \in Nat
  BY DEF BatchInv
<1>4. ASSUME NEW i \in 1..(n + 1) PROVE \E m \in 0..Len(records) : True(saves'[i], m)
  <2>1. CASE i = n + 1
    BY <1>2, <1>3, <2>1 DEF BatchInv, HeaderTells
  <2>2. CASE i # n + 1
    <3>1. i \in 1..n
      BY <2>2
    <3>2. QED
      BY <1>0, <1>2, <3>1 DEF BatchInv, HeaderTells
  <2>3. QED
    BY <2>1, <2>2
<1>5. HeaderTells'
  BY <1>1, <1>2, <1>4 DEF BatchInv, HeaderTells, True, Header
<1>6. Nested'
  <2>1. \A i \in 1..(n + 1) : saves'[i].size \in Nat /\ saves'[i].size <= Len(records)
    BY <1>3, <1>4 DEF True
  <2>2. saves'[n + 1].size = Len(records)
    BY <1>2 DEF Header
  <2>3. ASSUME NEW i \in 1..(n + 1), NEW j \in i..(n + 1)
        PROVE  saves'[i].size <= saves'[j].size
    <3>1. CASE j = n + 1
      BY <2>1, <2>2, <3>1
    <3>2. CASE j # n + 1
      <4>1. i \in 1..n /\ j \in 1..n
        BY <3>2
      <4>2. QED
        BY <1>0, <1>2, <4>1 DEF BatchInv, Nested
    <3>3. QED
      BY <3>1, <3>2
  <2>4. QED
    BY <1>2, <2>3 DEF Nested
<1>7. QED
  BY <1>1, <1>2, <1>5, <1>6 DEF BatchInv, Header

\* What is left of the save points when the latest is gone.
LEMMA FrontKeeps ==
  ASSUME saves \in Seq(Saved), saves # <<>>, saves' = Front(saves)
  PROVE  /\ Len(saves) \in Nat \ {0} /\ Len(saves') = Len(saves) - 1 /\ saves' \in Seq(Saved)
         /\ \A i \in 1..Len(saves') : saves'[i] = saves[i]
<1>1. Len(saves) \in Nat \ {0}
  OBVIOUS
<1>2. PICK n \in Nat : n = Len(saves) - 1
  BY <1>1
<1>3. saves' = SubSeq(saves, 1, n)
  BY <1>2 DEF Front
<1>4. Len(saves') = n /\ \A i \in 1..n : saves'[i] = saves[i]
  BY <1>1, <1>2, <1>3
<1>5. saves' \in Seq(Saved)
  BY <1>1, <1>2, <1>3
<1>6. QED
  BY <1>1, <1>2, <1>4, <1>5

LEMMA PopKeeps ==
  ASSUME BatchInv, PopSavePoint
  PROVE  BatchInv'
<1>1. /\ saves # <<>> /\ saves' = Front(saves) /\ UNCHANGED <<records, count, flags>>
  BY DEF PopSavePoint, batchVars
<1>2. /\ Len(saves) \in Nat \ {0} /\ Len(saves') = Len(saves) - 1 /\ saves' \in Seq(Saved)
      /\ \A i \in 1..Len(saves') : saves'[i] = saves[i]
  BY <1>1, FrontKeeps DEF BatchInv
<1>3. HeaderTells'
  <2>3. \A i \in 1..Len(saves') : i \in 1..Len(saves) /\ saves'[i] = saves[i]
    BY <1>2
  <2>4. True(Header, Len(records))'
    BY <1>1 DEF BatchInv, HeaderTells, True, Header
  <2>5. ASSUME NEW i \in 1..Len(saves') PROVE \E n \in 0..Len(records') : True(saves[i], n)'
    <3>1. PICK n \in 0..Len(records) : True(saves[i], n)
      BY <2>3 DEF BatchInv, HeaderTells
    <3>2. True(saves[i], n)'
      BY <1>1, <2>3, <3>1 DEF True
    <3>3. QED
      BY <1>1, <3>1, <3>2
  <2>6. QED
    BY <2>4, <2>5 DEF HeaderTells
<1>4. Nested'
  BY <1>2, SMTT(60) DEF BatchInv, Nested
<1>5. QED
  BY <1>1, <1>2, <1>3, <1>4 DEF BatchInv, Header

\* A rollback restores records and numbers together, and no earlier save
\* point is left beyond the end of the batch.
LEMMA RollbackKeeps ==
  ASSUME BatchInv, RollbackToSavePoint
  PROVE  BatchInv' /\ \E n \in 0..Len(records) : records' = SubSeq(records, 1, n)
<1>1. /\ saves # <<>> /\ saves' = Front(saves)
      /\ records' = SubSeq(records, 1, Last(saves).size)
      /\ count' = Last(saves).count /\ flags' = Last(saves).flags
  BY DEF RollbackToSavePoint
<1>2. /\ Len(saves) \in Nat \ {0} /\ Len(saves') = Len(saves) - 1 /\ saves' \in Seq(Saved)
      /\ \A i \in 1..Len(saves') : saves'[i] = saves[i]
  BY <1>1, FrontKeeps DEF BatchInv
<1>3. PICK l \in 1..Len(saves) : l = Len(saves) /\ Last(saves) = saves[l]
  BY <1>2 DEF Last
<1>4. PICK n \in 0..Len(records) : True(saves[l], n)
  BY DEF BatchInv, HeaderTells
<1>5. /\ records' = SubSeq(records, 1, n)
      /\ count' = CountOf(records, n) /\ flags' = FlagsOf(records, n)
  BY <1>1, <1>3, <1>4 DEF True
<1>6. /\ records' \in Seq(Record) /\ Len(records') = n /\ n \in Nat
      /\ \A i \in 1..n : records'[i] = records[i]
  BY <1>5 DEF BatchInv
<1>7. ASSUME NEW m \in 0..n
      PROVE  CountOf(records', m) = CountOf(records, m) /\ FlagsOf(records', m) = FlagsOf(records, m)
  BY <1>6, SamePrefix
<1>8. n \in 0..n
  BY <1>6
<1>9. True(Header, Len(records))'
  BY <1>5, <1>6, <1>7, <1>8 DEF True, Header
<1>10. Header' \in Saved
  <2>1. saves[l] \in Saved
    BY DEF BatchInv
  <2>2. QED
    BY <1>1, <1>3, <1>6, <2>1 DEF Header, Saved
<1>11. ASSUME NEW i \in 1..Len(saves') PROVE \E m \in 0..Len(records') : True(saves[i], m)'
  <2>1. i \in 1..Len(saves) /\ l \in i..Len(saves) /\ saves'[i] = saves[i]
    BY <1>2, <1>3
  <2>2. PICK m \in 0..Len(records) : True(saves[i], m)
    BY <2>1 DEF BatchInv, HeaderTells
  <2>3. saves[i].size <= saves[l].size
    BY <2>1 DEF BatchInv, Nested
  <2>4. m \in 0..n
    BY <1>4, <1>6, <2>2, <2>3 DEF True
  <2>5. True(saves[i], m)'
    BY <1>7, <2>1, <2>2, <2>4 DEF True
  <2>6. QED
    BY <1>6, <2>4, <2>5
<1>12. HeaderTells'
  BY <1>9, <1>11 DEF HeaderTells
<1>13. Nested'
  BY <1>2 DEF BatchInv, Nested
<1>14. QED
  BY <1>2, <1>5, <1>6, <1>10, <1>12, <1>13 DEF BatchInv

LEMMA BatchStep ==
  ASSUME BatchInv, [Next]_vars
  PROVE  BatchInv'
<1>1. CASE UNCHANGED <<records, count, flags, saves>>
  BY <1>1 DEF BatchInv, HeaderTells, Nested, True, Header
<1>2. ASSUME NEW k \in Key, NEW v \in Value, SetData(k, v) \/ MergeData(k, v) PROVE BatchInv'
  BY <1>2, AddKeeps DEF SetData, MergeData, Record
<1>3. ASSUME NEW k \in Key, DeleteData(k) \/ SingleDelete(k) PROVE BatchInv'
  BY <1>3, AddKeeps DEF DeleteData, SingleDelete, Record
<1>4. ASSUME NEW b \in Key, NEW e \in RangeEnd, DeleteRange(b, e) PROVE BatchInv'
  BY <1>4, AddKeeps DEF DeleteRange, Record
<1>5. CASE PutLogData
  BY <1>5, AddKeeps DEF PutLogData, Record
<1>6. CASE Clear
  <2>1. records' = <<>> /\ saves' = <<>> /\ count' = 0 /\ flags' = {}
    BY <1>6 DEF Clear
  <2>2. QED
    BY <2>1, NoRecords DEF BatchInv, HeaderTells, Nested, Saved, Header, True
<1>7. CASE SetSavePoint \/ RollbackToSavePoint \/ PopSavePoint
  BY <1>7, SavePointKeeps, RollbackKeeps, PopKeeps
<1>8. QED
  BY <1>1, <1>2, <1>3, <1>4, <1>5, <1>6, <1>7
  DEF Next, vars, batchVars, RefusedUpdate, DeleteRangeUnsupported, SetMaxBytes, NoSavePoint,
    ApplyWriteBatch, ApplyFails, Compact, OtherWrite

\* Through updates, refusals, and any nesting of save points, rollbacks and
\* pops: -count is the number of updates that count, -hasPut and its siblings
\* tell of the records that are there, and each save point restores both.
THEOREM BatchTells == Spec => []HeaderTells
<1>1. Init => BatchInv
  BY EmptyBatch DEF Init
<1>2. BatchInv /\ [Next]_vars => BatchInv'
  BY BatchStep
<1>3. BatchInv => HeaderTells
  BY DEF BatchInv
<1>4. QED
  BY <1>1, <1>2, <1>3, PTL DEF Spec

-----------------------------------------------------------------------------
(* Lists of operands.                                                      *)

LEMMA Associates == \A S : \A s, t, u \in Seq(S) : (s \o t) \o u = s \o (t \o u)
BY ConcatAssociative

\* The lists g[0], g[1], ... that FlattenSeq(lists) is made of.
Flattens(g, lists, S) ==
  /\ g \in [0..Len(lists) -> Seq(S)] /\ g[0] = <<>>
  /\ \A i \in 1..Len(lists) : g[i] = g[i - 1] \o lists[i]

LEMMA FlattenRuns ==
  ASSUME NEW S, NEW lists \in Seq(Seq(S))
  PROVE  \E g : Flattens(g, lists, S) /\ FlattenSeq(lists) = g[Len(lists)]
<1> DEFINE N == Len(lists)
           flat == CHOOSE f : f = [i \in 1..N |-> IF i = 1 THEN lists[i] ELSE f[i - 1] \o lists[i]]
           step == [i \in 1..N |-> [s \in Seq(S) |-> s \o lists[i]]]
<1>1. N \in Nat /\ <<>> \in Seq(S) /\ \A i \in 1..N : lists[i] \in Seq(S)
  OBVIOUS
<1>2. step \in [1..N -> [Seq(S) -> Seq(S)]]
  BY <1>1
<1>3. \A i \in 1..N : \A s \in Seq(S) : step[i][s] = s \o lists[i]
  OBVIOUS
<1>4. FlattenSeq(lists) = IF N = 0 THEN lists ELSE flat[N]
  BY Zenon DEF FlattenSeq
<1> HIDE DEF N, step, flat
<1>5. PICK g : IsRun(g, N, Seq(S), <<>>, step)
  BY <1>1, <1>2, Recursion
<1>6. \A i \in 1..N : i - 1 \in 0..N
  BY <1>1
<1>7. /\ g \in [0..N -> Seq(S)] /\ g[0] = <<>>
      /\ \A i \in 1..N : i - 1 \in 0..N /\ g[i] = g[i - 1] \o lists[i]
  BY <1>3, <1>5, <1>6 DEF IsRun
<1>8. Flattens(g, lists, S)
  BY <1>7 DEF Flattens, N
<1>9. CASE N = 0
  <2>1. lists = <<>>
    BY <1>9 DEF N
  <2>2. QED
    BY <1>4, <1>7, <1>8, <1>9, <2>1 DEF N
<1>10. CASE N # 0
  <2> DEFINE h == [i \in 1..N |-> g[i]]
  <2>1. h = [i \in 1..N |-> IF i = 1 THEN lists[i] ELSE h[i - 1] \o lists[i]]
    <3>1. g[1] = lists[1]
      <4>1. 1 \in 1..N /\ lists[1] \in Seq(S)
        BY <1>1, <1>10
      <4>2. g[1] = g[1 - 1] \o lists[1]
        BY <1>7, <4>1, Zenon
      <4>3. QED
        <5>1. 1 - 1 = 0
          OBVIOUS
        <5>2. g[1] = <<>> \o lists[1]
          BY <1>7, <4>2, <5>1, Zenon
        <5>3. <<>> \o lists[1] = lists[1]
          BY <4>1, ConcatEmptySeq
        <5>4. QED
          BY <5>2, <5>3, Zenon
    <3>2. \A i \in 1..N : i # 1 => i - 1 \in 1..N
      BY <1>1
    <3>3. QED
      BY <1>7, <3>1, <3>2
  <2>2. flat = [i \in 1..N |-> IF i = 1 THEN lists[i] ELSE flat[i - 1] \o lists[i]]
    <3> HIDE DEF h
    <3>1. QED
      BY <2>1, Zenon DEF flat
  <2> DEFINE P == {i \in 0..N : i = 0 \/ flat[i] = g[i]}
  <2>3. \A i \in 1..N : flat[i] = IF i = 1 THEN lists[i] ELSE flat[i - 1] \o lists[i]
    BY <2>2
  <2>4. \A i \in 1..N : g[i] = IF i = 1 THEN lists[i] ELSE g[i - 1] \o lists[i]
    BY <1>7, <2>1
  <2>5. 0 \in P
    BY <1>1
  <2>6. ASSUME NEW i \in 1..N, i - 1 \in P PROVE i \in P
    BY <1>1, <2>3, <2>4, <2>6
  <2>7. N \in P
    <3> HIDE DEF P
    <3>1. \A i \in 1..N : i - 1 \in P => i \in P
      BY <2>6
    <3>2. \A i \in 0..N : i \in P
      BY <1>1, <2>5, <3>1, Induction
    <3>3. QED
      BY <1>1, <3>2
  <2>8. QED
    BY <1>4, <1>8, <1>10, <2>7 DEF N
<1>11. QED
  BY <1>9, <1>10

\* There is one such list of lists.
LEMMA FlattenIs ==
  ASSUME NEW S, NEW lists \in Seq(Seq(S)), NEW g, Flattens(g, lists, S)
  PROVE  FlattenSeq(lists) = g[Len(lists)] /\ FlattenSeq(lists) \in Seq(S)
<1>1. PICK h : Flattens(h, lists, S) /\ FlattenSeq(lists) = h[Len(lists)]
  BY FlattenRuns
<1> DEFINE P == {i \in 0..Len(lists) : g[i] = h[i]}
<1>2. Len(lists) \in Nat
  OBVIOUS
<1>3. 0 \in P
  BY <1>1, <1>2 DEF Flattens
<1>4. ASSUME NEW i \in 1..Len(lists), i - 1 \in P PROVE i \in P
  <2>1. g[i] = g[i - 1] \o lists[i] /\ h[i] = h[i - 1] \o lists[i]
    BY <1>1 DEF Flattens
  <2>2. g[i - 1] = h[i - 1] /\ i \in 0..Len(lists)
    BY <1>2, <1>4
  <2>3. g[i] = h[i]
    BY <2>1, <2>2, Zenon
  <2>4. QED
    BY <2>2, <2>3
<1> HIDE DEF P
<1>5. \A i \in 0..Len(lists) : i \in P
  BY <1>2, <1>3, <1>4, Induction
<1>6. QED
  BY <1>1, <1>2, <1>5 DEF P, Flattens

\* What FlattenSeq makes of lists and more lists.
LEMMA FlattenConcat ==
  ASSUME NEW S, NEW s \in Seq(Seq(S)), NEW t \in Seq(Seq(S))
  PROVE  /\ FlattenSeq(s) \in Seq(S) /\ FlattenSeq(t) \in Seq(S)
         /\ s \o t \in Seq(Seq(S)) /\ FlattenSeq(s \o t) = FlattenSeq(s) \o FlattenSeq(t)
<1>1. PICK m \in Nat, n \in Nat : m = Len(s) /\ n = Len(t)
  OBVIOUS
<1> DEFINE u == s \o t
<1>2. /\ u \in Seq(Seq(S)) /\ Len(u) = m + n
      /\ \A i \in 1..m : u[i] = s[i]
      /\ \A i \in 1..n : u[m + i] = t[i]
  <2>1. u \in Seq(Seq(S)) /\ Len(u) = m + n
    BY <1>1, ConcatProperties
  <2>2. \A i \in 1..(m + n) : u[i] = IF i <= m THEN s[i] ELSE t[i - m]
    BY <1>1, ConcatProperties
  <2> HIDE DEF u
  <2>3. \A i \in 1..m : i \in 1..(m + n) /\ i <= m
    OBVIOUS
  <2>4. \A i \in 1..n : m + i \in 1..(m + n) /\ ~(m + i <= m) /\ (m + i) - m = i
    OBVIOUS
  <2>5. QED
    BY <2>1, <2>2, <2>3, <2>4
<1> HIDE DEF u
<1>3. PICK f : Flattens(f, s, S) /\ FlattenSeq(s) = f[m]
  BY <1>1, FlattenRuns
<1>4. PICK g : Flattens(g, t, S) /\ FlattenSeq(t) = g[n]
  BY <1>1, FlattenRuns
<1>5. PICK h : Flattens(h, u, S) /\ FlattenSeq(u) = h[m + n]
  BY <1>2, FlattenRuns
<1>6. /\ f \in [0..m -> Seq(S)] /\ f[0] = <<>> /\ \A i \in 1..m : f[i] = f[i - 1] \o s[i]
      /\ g \in [0..n -> Seq(S)] /\ g[0] = <<>> /\ \A i \in 1..n : g[i] = g[i - 1] \o t[i]
      /\ h \in [0..(m + n) -> Seq(S)] /\ h[0] = <<>>
      /\ \A i \in 1..(m + n) : h[i] = h[i - 1] \o u[i]
  BY <1>1, <1>2, <1>3, <1>4, <1>5 DEF Flattens
<1> DEFINE P == {i \in 0..m : h[i] = f[i]}
           Q == {i \in 0..n : h[m + i] = f[m] \o g[i]}
<1>7. \A i \in 0..m : i \in P
  <2>1. 0 \in P
    BY <1>6
  <2>2. ASSUME NEW i \in 1..m, i - 1 \in P PROVE i \in P
    <3>1. i \in 1..(m + n) /\ i \in 0..m
      OBVIOUS
    <3>2. h[i] = h[i - 1] \o u[i] /\ u[i] = s[i]
      BY <1>2, <1>6, <3>1, Zenon
    <3>3. f[i] = f[i - 1] \o s[i]
      BY <1>6, Zenon
    <3>4. h[i - 1] = f[i - 1]
      BY <2>2
    <3>5. h[i] = f[i]
      BY <3>2, <3>3, <3>4, Zenon
    <3>6. QED
      BY <3>1, <3>5
  <2> HIDE DEF P
  <2>4. QED
    BY <2>1, <2>2, Induction
<1>8. \A i \in 0..n : i \in Q
  <2>1. 0 \in Q
    <3>1. h[m + 0] = f[m]
      BY <1>7
    <3>2. f[m] \o <<>> = f[m]
      BY <1>6, ConcatEmptySeq
    <3>3. h[m + 0] = f[m] \o g[0]
      BY <1>6, <3>1, <3>2, Zenon
    <3>4. 0 \in 0..n
      OBVIOUS
    <3>5. QED
      BY <3>3, <3>4, Zenon
  <2>2. ASSUME NEW i \in 1..n, i - 1 \in Q PROVE i \in Q
    <3>1. /\ m + i \in 1..(m + n) /\ (m + i) - 1 = m + (i - 1) /\ i - 1 \in 0..n
          /\ t[i] \in Seq(S)
      BY <1>1
    <3>2. h[m + i] = h[m + (i - 1)] \o t[i]
      BY <1>2, <1>6, <3>1
    <3>3. h[m + (i - 1)] = f[m] \o g[i - 1]
      BY <2>2
    <3>4. (f[m] \o g[i - 1]) \o t[i] = f[m] \o (g[i - 1] \o t[i])
      <4>1. f[m] \in Seq(S) /\ g[i - 1] \in Seq(S) /\ t[i] \in Seq(S)
        BY <1>6, <3>1
      <4>2. PICK a \in Seq(S), b \in Seq(S), c \in Seq(S) : a = f[m] /\ b = g[i - 1] /\ c = t[i]
        BY <4>1, Zenon
      <4>3. (a \o b) \o c = a \o (b \o c)
        BY Associates, SMTT(60)
      <4>4. QED
        BY <4>2, <4>3, Zenon
    <3>5. h[m + i] = f[m] \o g[i]
      BY <1>6, <3>2, <3>3, <3>4
    <3>6. i \in 0..n
      OBVIOUS
    <3>7. QED
      BY <3>5, <3>6, Zenon
  <2> HIDE DEF Q
  <2>3. QED
    BY <2>1, <2>2, Induction
<1>9. m \in 0..m /\ n \in 0..n
  OBVIOUS
<1>10. h[m + n] = f[m] \o g[n] /\ f[m] \in Seq(S) /\ g[n] \in Seq(S)
  BY <1>6, <1>8, <1>9
<1>11. QED
  BY <1>2, <1>3, <1>4, <1>5, <1>10 DEF u

LEMMA FlattenOne ==
  ASSUME NEW S, NEW x \in Seq(S)
  PROVE  FlattenSeq(<<x>>) = x /\ FlattenSeq(<<>>) = <<>>
<1>1. /\ <<x>> \in Seq(Seq(S)) /\ Len(<<x>>) = 1 /\ <<x>>[1] = x
      /\ <<>> \in Seq(Seq(S)) /\ Len(<<>>) = 0
  OBVIOUS
<1>2. PICK g : Flattens(g, <<x>>, S) /\ FlattenSeq(<<x>>) = g[1]
  BY <1>1, FlattenRuns
<1>3. g[0] = <<>> /\ g[1] = g[1 - 1] \o x /\ 1 - 1 = 0
  <2>1. 1 \in 1..Len(<<x>>) /\ 1 - 1 = 0
    BY <1>1
  <2>2. g[0] = <<>> /\ g[1] = g[1 - 1] \o <<x>>[1]
    BY <1>2, <2>1, Zenon DEF Flattens
  <2>3. QED
    BY <1>1, <2>1, <2>2, Zenon
<1>4. <<>> \o x = x
  BY ConcatEmptySeq
<1>5. PICK h : Flattens(h, <<>>, S) /\ FlattenSeq(<<>>) = h[0]
  BY <1>1, FlattenRuns
<1>6. h[0] = <<>>
  BY <1>5 DEF Flattens
<1>7. g[1] = <<>> \o x
  BY <1>3, Zenon
<1>8. QED
  BY <1>2, <1>4, <1>5, <1>6, <1>7, Zenon
-----------------------------------------------------------------------------
(* Merging: an associative operator and a generic one come to the same, and *)
(* it does not matter when operands are merged.                            *)

Data == Seq(Value) \cup {Nil}

LEMMA InAnyOrder == \A s, t, u \in Seq(Value) : (s \o t) \o u = s \o (t \o u)
BY Associates


LEMMA OrEmptyIs ==
  ASSUME NEW d \in Data
  PROVE  /\ OrEmpty(d) \in Seq(Value)
         /\ d \in Seq(Value) => OrEmpty(d) = d
         /\ \A v \in Seq(Value) : Merge(d, v) \in Seq(Value) /\ Merge(d, v) = OrEmpty(d) \o v
<1>1. OrEmpty(d) \in Seq(Value) /\ (d \in Seq(Value) => OrEmpty(d) = d)
  <2>1. <<>> \in Seq(Value)
    OBVIOUS
  <2>2. QED
    BY <2>1, NilAssumption, Zenon DEF OrEmpty, Data
<1>2. ASSUME NEW v \in Seq(Value) PROVE Merge(d, v) \in Seq(Value) /\ Merge(d, v) = OrEmpty(d) \o v
  <2>1. PICK s \in Seq(Value) : s = OrEmpty(d) \o v
    BY <1>1, ConcatProperties
  <2>2. OrEmpty(s) = s
    BY NilAssumption, Zenon DEF OrEmpty
  <2>3. Merge(d, v) = OrEmpty(s)
    BY <2>1, Zenon DEF Merge, AssociativeMergeBlock
  <2>4. QED
    BY <2>1, <2>2, <2>3, Zenon
<1>3. QED
  BY <1>1, <1>2, Zenon

\* The full merge into key k takes the list v for corrupted.
Refuses(k, v) == k \notin Associative /\ \E i \in DOMAIN v : v[i] \in Corrupt

LEMMA FullMergeIs ==
  ASSUME NEW k, NEW e \in Data,
         NEW operands \in Seq(Seq(Value)), operands # <<>>
  PROVE  /\ FullMerge(k, e, operands) = IF Refuses(k, OrEmpty(e) \o FlattenSeq(operands)) THEN Nil
                                        ELSE OrEmpty(e) \o FlattenSeq(operands)
         /\ OrEmpty(e) \o FlattenSeq(operands) \in Seq(Value) /\ FlattenSeq(operands) \in Seq(Value)
<1> DEFINE J == OrEmpty(e) \o FlattenSeq(operands)
           N == Len(operands)
           merged == CHOOSE f : f = [i \in 0..N |-> IF i = 0 THEN e ELSE Merge(f[i - 1], operands[i])]
           step == [i \in 1..N |-> [d \in Data |-> Merge(d, operands[i])]]
<1>1. N \in Nat /\ N # 0 /\ \A i \in 1..N : operands[i] \in Seq(Value)
  OBVIOUS
<1>2. PICK g : Flattens(g, operands, Value) /\ FlattenSeq(operands) = g[N]
  BY FlattenRuns
<1>3. /\ g \in [0..N -> Seq(Value)] /\ g[0] = <<>>
      /\ \A i \in 1..N : g[i] = g[i - 1] \o operands[i]
  BY <1>2 DEF Flattens
<1>4. FullMerge(k, e, operands) =
        IF k \in Associative THEN merged[N]
        ELSE IF \E i \in DOMAIN J : J[i] \in Corrupt THEN Nil ELSE J
  BY Zenon DEF FullMerge, FullMergeBlock, Joined
<1>5. \A i \in 1..N : \A d \in Data : Merge(d, operands[i]) \in Data
  BY <1>1, OrEmptyIs DEF Data
<1>6. step \in [1..N -> [Data -> Data]]
  BY <1>5
<1>7. \A i \in 1..N : \A d \in Data : step[i][d] = Merge(d, operands[i])
  OBVIOUS
<1> HIDE DEF N, step
<1>8. PICK h : IsRun(h, N, Data, e, step)
  BY <1>1, <1>6, Recursion
<1>9. \A i \in 1..N : i - 1 \in 0..N /\ i \in 0..N
  BY <1>1
<1>10. /\ h \in [0..N -> Data] /\ h[0] = e
       /\ \A i \in 1..N : h[i] = Merge(h[i - 1], operands[i])
  BY <1>7, <1>8, <1>9 DEF IsRun
<1>11. merged = [i \in 0..N |-> IF i = 0 THEN e ELSE Merge(merged[i - 1], operands[i])]
  <2>1. h = [i \in 0..N |-> IF i = 0 THEN e ELSE Merge(h[i - 1], operands[i])]
    BY <1>1, <1>10
  <2>2. QED
    BY <2>1, Zenon
<1> DEFINE Good(i) == /\ merged[i] \in Data
                      /\ i # 0 => merged[i] \in Seq(Value)
                      /\ OrEmpty(merged[i]) = OrEmpty(e) \o g[i]
           P == {i \in 0..N : Good(i)}
<1>12. merged[0] = e /\ \A i \in 1..N : merged[i] = Merge(merged[i - 1], operands[i])
  <2> HIDE DEF merged
  <2>1. QED
    BY <1>1, <1>9, <1>11
<1> HIDE DEF merged
<1>13. OrEmpty(e) \in Seq(Value)
  BY OrEmptyIs, Zenon
<1>14. 0 \in P
  <2>1. OrEmpty(e) \o <<>> = OrEmpty(e)
    BY <1>13, ConcatEmptySeq
  <2>2. Good(0)
    BY <1>3, <1>12, <2>1, Zenon
  <2> HIDE DEF Good
  <2>3. QED
    BY <1>1, <2>2
<1>15. ASSUME NEW i \in 1..N, i - 1 \in P PROVE i \in P
  <2>1. PICK d \in Data, v \in Seq(Value), o \in Seq(Value), x \in Seq(Value) :
          d = merged[i - 1] /\ v = operands[i] /\ o = OrEmpty(e) /\ x = g[i - 1]
    <3>1. Good(i - 1)
      <4> HIDE DEF Good
      <4>1. QED
        BY <1>15
    <3>2. merged[i - 1] \in Data /\ g[i - 1] \in Seq(Value)
      <4>1. merged[i - 1] \in Data
        BY <3>1, Zenon
      <4>2. QED
        BY <1>3, <1>9, <4>1
    <3>3. QED
      BY <1>1, <1>13, <3>2, Zenon
  <2>2. merged[i] = OrEmpty(d) \o v /\ merged[i] \in Seq(Value) /\ OrEmpty(merged[i]) = merged[i]
    <3>1. merged[i] = Merge(d, v)
      BY <1>12, <2>1, Zenon
    <3>2. merged[i] = OrEmpty(d) \o v /\ merged[i] \in Seq(Value)
      <4>1. Merge(d, v) \in Seq(Value) /\ Merge(d, v) = OrEmpty(d) \o v
        BY OrEmptyIs, Zenon
      <4>2. QED
        BY <3>1, <4>1, Zenon
    <3>3. QED
      BY <3>2, OrEmptyIs, Zenon DEF Data
  <2>3. OrEmpty(d) = o \o x
    BY <1>15, <2>1
  <2>4. (o \o x) \o v = o \o (x \o v)
    BY <2>1, InAnyOrder, ZenonT(60)
  <2>5. g[i] = x \o v
    BY <1>3, <2>1, Zenon
  <2>6. OrEmpty(merged[i]) = OrEmpty(e) \o g[i]
    BY <2>1, <2>2, <2>3, <2>4, <2>5, Zenon
  <2>7. Good(i)
    BY <2>2, <2>6, Zenon DEF Data
  <2> HIDE DEF Good
  <2>8. QED
    BY <1>9, <2>7
<1>16. N \in P
  <2> HIDE DEF P
  <2>1. \A i \in 0..N : i \in P
    BY <1>1, <1>14, <1>15, Induction
  <2>2. QED
    BY <1>1, <2>1
<1>17. /\ merged[N] \in Seq(Value) /\ OrEmpty(merged[N]) = merged[N]
       /\ merged[N] = OrEmpty(e) \o FlattenSeq(operands)
  <2>1. Good(N)
    <3> HIDE DEF Good
    <3>1. QED
      BY <1>16
  <2>2. merged[N] \in Seq(Value) /\ OrEmpty(merged[N]) = OrEmpty(e) \o FlattenSeq(operands)
    BY <1>1, <1>2, <2>1, Zenon
  <2>3. OrEmpty(merged[N]) = merged[N]
    BY <2>2, OrEmptyIs, Zenon DEF Data
  <2>4. QED
    BY <2>2, <2>3, Zenon
<1>18. QED
  <2>1. FlattenSeq(operands) \in Seq(Value)
    BY <1>1, <1>2, <1>3
  <2>2. J \in Seq(Value)
    BY <1>17, Zenon
  <2>3. CASE k \in Associative
    BY <1>4, <1>17, <2>1, <2>2, <2>3, Zenon DEF Refuses
  <2>4. CASE k \notin Associative
    BY <1>4, <2>1, <2>2, <2>4, Zenon DEF Refuses
  <2>5. QED
    BY <2>3, <2>4

\* What there is of the value d and some operands, merged or not.
Held(d, operands) == IF operands = <<>> THEN d ELSE Joined(d, operands)

LEMMA HeldIs ==
  ASSUME NEW d \in Data, NEW operands \in Seq(Seq(Value))
  PROVE  /\ Held(d, operands) \in Data
         /\ OrEmpty(Held(d, operands)) = OrEmpty(d) \o FlattenSeq(operands)
         /\ operands = <<>> => Held(d, operands) = d
         /\ operands # <<>> => /\ Held(d, operands) = OrEmpty(d) \o FlattenSeq(operands)
                               /\ Held(d, operands) \in Seq(Value)
<1>1. OrEmpty(d) \in Seq(Value)
  BY OrEmptyIs, Zenon
<1>2. CASE operands = <<>>
  <2>1. FlattenSeq(operands) = <<>>
    <3>1. <<>> \in Seq(Value)
      OBVIOUS
    <3>2. QED
      BY <1>2, <3>1, FlattenOne
  <2>2. OrEmpty(d) \o <<>> = OrEmpty(d)
    BY <1>1, ConcatEmptySeq
  <2>3. QED
    BY <1>2, <2>1, <2>2, Zenon DEF Held
<1>3. CASE operands # <<>>
  <2>1. OrEmpty(d) \o FlattenSeq(operands) \in Seq(Value)
    BY <1>3, FullMergeIs, Zenon
  <2>2. Held(d, operands) = OrEmpty(d) \o FlattenSeq(operands)
    BY <1>3, Zenon DEF Held, Joined
  <2>3. OrEmpty(Held(d, operands)) = Held(d, operands)
    <3>1. PICK w \in Seq(Value) : w = Held(d, operands)
      BY <2>1, <2>2, Zenon
    <3>2. OrEmpty(w) = w
      BY NilAssumption, Zenon DEF OrEmpty
    <3>3. QED
      BY <3>1, <3>2, Zenon
  <2>4. QED
    BY <1>3, <2>1, <2>2, <2>3, Zenon DEF Data
<1>4. QED
  BY <1>2, <1>3

\* A read finds what there is, or fails where the full merge refuses that.
LEMMA ResolveIs ==
  ASSUME NEW k, NEW d \in Data, NEW operands \in Seq(Seq(Value))
  PROVE  Resolve(k, [base |-> d, operands |-> operands])
           = IF operands # <<>> /\ Refuses(k, Held(d, operands)) THEN Failure ELSE Held(d, operands)
<1> DEFINE s == [base |-> d, operands |-> operands]
<1>1. s.base = d /\ s.operands = operands
  OBVIOUS
<1> HIDE DEF s
<1>2. Resolve(k, s) = IF operands = <<>> THEN d
                      ELSE IF FullMerge(k, d, operands) = Nil THEN Failure
                      ELSE FullMerge(k, d, operands)
  BY <1>1, Zenon DEF Resolve
<1>3. CASE operands = <<>>
  BY <1>2, <1>3, Zenon DEF s, Held
<1>4. CASE operands # <<>>
  <2>1. FullMerge(k, d, operands) = IF Refuses(k, Held(d, operands)) THEN Nil ELSE Held(d, operands)
    BY <1>4, FullMergeIs, Zenon DEF Held, Joined
  <2>2. Held(d, operands) # Nil
    BY <1>4, HeldIs, NilAssumption, Zenon
  <2>3. QED
    BY <1>2, <1>4, <2>1, <2>2, Zenon DEF s
<1>5. QED
  BY <1>3, <1>4

\* Operands may be merged now and the others later.
LEMMA HeldInParts ==
  ASSUME NEW d \in Data,
         NEW s \in Seq(Seq(Value)), NEW t \in Seq(Seq(Value))
  PROVE  Held(d, s \o t)
           = Held(Held(d, s), t)
<1> DEFINE r == Held(d, s)
<1>1. r \in Data /\ OrEmpty(r) = OrEmpty(d) \o FlattenSeq(s)
  BY HeldIs
<1>2. CASE t = <<>>
  <2>1. s \o t = s
    BY <1>2, ConcatEmptySeq
  <2>2. Held(r, t) = r
    <3> HIDE DEF r
    <3>1. QED
      BY <1>1, <1>2, HeldIs
  <2>3. QED
    BY <2>1, <2>2, Zenon
<1>3. CASE t # <<>>
  <2>1. /\ s \o t \in Seq(Seq(Value)) /\ FlattenSeq(s) \in Seq(Value) /\ FlattenSeq(t) \in Seq(Value)
        /\ FlattenSeq(s \o t) = FlattenSeq(s) \o FlattenSeq(t)
    BY FlattenConcat
  <2>2. s \o t # <<>>
    BY <1>3, ConcatEqualIffEmpty
  <2>3. Held(r, t) = OrEmpty(r) \o FlattenSeq(t)
    <3> HIDE DEF r
    <3>1. QED
      BY <1>1, <1>3, HeldIs, ZenonT(60)
  <2>4. Held(d, s \o t) = OrEmpty(d) \o FlattenSeq(s \o t)
    BY <2>1, <2>2, HeldIs
  <2>5. OrEmpty(d) \in Seq(Value)
    BY OrEmptyIs, Zenon
  <2>6. OrEmpty(d) \o (FlattenSeq(s) \o FlattenSeq(t)) = (OrEmpty(d) \o FlattenSeq(s)) \o FlattenSeq(t)
    BY <2>1, <2>5, InAnyOrder, Zenon
  <2>7. QED
    BY <1>1, <2>1, <2>3, <2>4, <2>6, Zenon
<1>4. QED
  BY <1>2, <1>3
\* A partial merge that is done joins two operands.
LEMMA PartialMergeJoins ==
  ASSUME NEW k, NEW left \in Seq(Value) \ {<<>>}, NEW right \in Seq(Value) \ {<<>>},
         PartialMerge(k, left, right) # Nil
  PROVE  /\ PartialMerge(k, left, right) = left \o right
         /\ left \o right \in Seq(Value) \ {<<>>}
<1>1. left \in Data /\ right \in Seq(Value)
  BY DEF Data
<1>2. OrEmpty(left) = left /\ Merge(left, right) = OrEmpty(left) \o right
  BY <1>1, OrEmptyIs, Zenon
<1>3. left \o right \in Seq(Value) /\ left \o right # <<>>
  BY ConcatProperties, ConcatEqualIffEmpty
<1>4. PartialMerge(k, left, right) = left \o right
  BY <1>2, Zenon DEF PartialMerge, PartialMergeBlock
<1>5. QED
  BY <1>3, <1>4, Zenon

Operand == Seq(Value) \ {<<>>}

LEMMA StackIs ==
  ASSUME NEW s \in Stack
  PROVE  /\ s = [base |-> s.base, operands |-> s.operands]
         /\ s.base \in Data
         /\ s.operands \in Seq(Operand)
         /\ s.operands \in Seq(Seq(Value))
         /\ \A i \in 1..Len(s.operands) : s.operands[i] \in Operand
<1>1. /\ s = [base |-> s.base, operands |-> s.operands]
      /\ s.base \in Data /\ s.operands \in Seq(Operand)
  BY DEF Stack, Data, Operand
<1>2. Operand \subseteq Seq(Value)
  BY DEF Operand
<1>3. QED
  BY <1>1, <1>2, SeqMonotonic

\* There is the same in stacks c and s, and reads of key k find it or fail alike.
Same(k, c, s) == /\ Held(c.base, c.operands) = Held(s.base, s.operands)
                 /\ Resolve(k, c) = Resolve(k, s)

\* A compaction that merges some operands into the value, ...
LEMMA FullMergesKeep ==
  ASSUME NEW k, NEW s \in Stack, NEW c \in FullMerges(k, s)
  PROVE  c \in Stack /\ Same(k, c, s)
<1>1. PICK n \in 1..Len(s.operands) :
        /\ FullMerge(k, s.base, SubSeq(s.operands, 1, n)) # Nil
        /\ c = [base |-> FullMerge(k, s.base, SubSeq(s.operands, 1, n)),
                operands |-> SubSeq(s.operands, n + 1, Len(s.operands))]
  BY Zenon DEF FullMerges
<1>2. PICK d \in Data, operands \in Seq(Operand) :
        /\ d = s.base /\ operands = s.operands /\ operands \in Seq(Seq(Value))
        /\ s = [base |-> d, operands |-> operands]
  BY StackIs, Zenon
<1>3. PICK l \in Nat : l = Len(operands) /\ n \in 1..l
  BY <1>1, <1>2
<1> DEFINE a == SubSeq(operands, 1, n)
           b == SubSeq(operands, n + 1, l)
<1>4. /\ a \in Seq(Seq(Value)) /\ b \in Seq(Seq(Value)) /\ b \in Seq(Operand)
      /\ Len(a) = n /\ a # <<>>
  <2>1. /\ 1 \in Int /\ n \in Int /\ n + 1 \in Int /\ l \in Int
        /\ \A i \in 1..n : operands[i] \in Seq(Value)
        /\ \A i \in (n + 1)..l : operands[i] \in Seq(Value) /\ operands[i] \in Operand
    <3>1. \A i \in 1..l : operands[i] \in Seq(Value) /\ operands[i] \in Operand
      BY <1>2, <1>3
    <3>2. QED
      BY <1>3, <3>1
  <2>2. a \in Seq(Seq(Value)) /\ Len(a) = n
    BY <1>3, <2>1, SubSeqProperties
  <2>3. b \in Seq(Seq(Value)) /\ b \in Seq(Operand)
    BY <2>1, SubSeqProperties
  <2>4. QED
    BY <1>3, <2>2, <2>3
<1>5. operands = a \o b
  <2>1. SubSeq(operands, 1, l) = operands
    BY <1>3, SubSeqFull
  <2>2. n \in 0..l /\ l \in n..l /\ 1 \in 1..(l + 1)
    BY <1>3
  <2>3. a \o b = SubSeq(operands, 1, l)
    BY <1>3, <2>2, ConcatAdjacentSubSeq
  <2>4. QED
    BY <2>1, <2>3
<1> HIDE DEF a, b
<1>6. PICK e \in Seq(Value) : e = FullMerge(k, d, a) /\ Held(d, a) = e /\ ~Refuses(k, e)
  <2>1. FullMerge(k, d, a) # Nil
    BY <1>1, <1>2, <1>3 DEF a
  <2>2. FullMerge(k, d, a) = OrEmpty(d) \o FlattenSeq(a) /\ ~Refuses(k, OrEmpty(d) \o FlattenSeq(a))
    BY <1>4, <2>1, FullMergeIs, Zenon
  <2>3. Held(d, a) = OrEmpty(d) \o FlattenSeq(a) /\ Held(d, a) \in Seq(Value)
    BY <1>4, HeldIs
  <2>4. QED
    BY <2>2, <2>3, Zenon
<1>7. c = [base |-> e, operands |-> b]
  BY <1>1, <1>2, <1>3, <1>6 DEF a, b
<1>8. Held(d, a \o b) = Held(e, b)
  <2>1. Held(d, a \o b)
          = Held(Held(d, a), b)
    BY <1>4, HeldInParts, Zenon
  <2>2. QED
    BY <1>6, <2>1, Zenon
<1>9. c \in Stack
  BY <1>4, <1>7 DEF Stack, Operand
<1>10. c.base = e /\ c.operands = b /\ s.base = d /\ s.operands = a \o b
  BY <1>2, <1>5, <1>7
<1>11. Resolve(k, c) = Resolve(k, s)
  <2>1. Resolve(k, c) = IF b # <<>> /\ Refuses(k, Held(e, b)) THEN Failure ELSE Held(e, b)
    BY <1>4, <1>7, ResolveIs DEF Data
  <2>2. Resolve(k, s) = IF a \o b # <<>> /\ Refuses(k, Held(d, a \o b)) THEN Failure
                        ELSE Held(d, a \o b)
    BY <1>2, <1>5, ResolveIs
  <2>3. a \o b # <<>>
    BY <1>4, ConcatEqualIffEmpty
  <2>4. b = <<>> => Held(e, b) = e
    BY <1>4, HeldIs DEF Data
  <2>5. QED
    BY <1>6, <1>8, <2>1, <2>2, <2>3, <2>4
<1>12. QED
  BY <1>8, <1>9, <1>10, <1>11, Zenon DEF Same

\* ... or two operands into one, does not change what a read finds.
LEMMA PartialMergesKeep ==
  ASSUME NEW k, NEW s \in Stack, NEW c \in PartialMerges(k, s)
  PROVE  c \in Stack /\ Same(k, c, s)
<1>1. PICK n \in {m \in 1..(Len(s.operands) - 1) :
                    PartialMerge(k, s.operands[m], s.operands[m + 1]) # Nil} :
        c = [s EXCEPT !.operands =
               SubSeq(@, 1, n - 1) \o <<PartialMerge(k, @[n], @[n + 1])>> \o SubSeq(@, n + 2, Len(@))]
  BY Zenon DEF PartialMerges
<1>2. PICK d \in Data, operands \in Seq(Operand) :
        /\ d = s.base /\ operands = s.operands /\ operands \in Seq(Seq(Value))
        /\ s = [base |-> d, operands |-> operands]
  BY StackIs, Zenon
<1>3. PICK l \in Nat : l = Len(operands) /\ n \in 1..(l - 1)
  <2>1. n \in 1..(Len(s.operands) - 1)
    OBVIOUS
  <2>2. QED
    BY <1>2, <2>1
<1> DEFINE a == SubSeq(operands, 1, n - 1)
           b == SubSeq(operands, n + 2, l)
           x == operands[n]
           y == operands[n + 1]
           joined == (a \o <<x \o y>>) \o b
<1>4. x \in Operand /\ y \in Operand /\ x \in Seq(Value) /\ y \in Seq(Value)
  BY <1>3 DEF Operand
<1>5. PartialMerge(k, x, y) = x \o y /\ x \o y \in Operand
  BY <1>1, <1>2, <1>4, PartialMergeJoins, Zenon DEF Operand
<1>6. /\ a \in Seq(Operand) /\ b \in Seq(Operand)
      /\ a \in Seq(Seq(Value)) /\ b \in Seq(Seq(Value))
  <2>1. /\ 1 \in Int /\ n - 1 \in Int /\ n + 2 \in Int /\ l \in Int
        /\ \A i \in 1..(n - 1) : operands[i] \in Operand
        /\ \A i \in (n + 2)..l : operands[i] \in Operand
    BY <1>3
  <2>2. a \in Seq(Operand) /\ b \in Seq(Operand)
    BY <2>1, SubSeqProperties
  <2>3. Operand \subseteq Seq(Value)
    BY DEF Operand
  <2>4. QED
    BY <2>2, <2>3, SeqMonotonic
<1>7. operands = a \o (<<x>> \o (<<y>> \o b))
  <2>1. /\ n \in 1..l /\ l \in n..l /\ n + 1 \in 1..l /\ l \in (n + 1)..l
        /\ 1 \in 1..(l + 1) /\ n - 1 \in (1 - 1)..l /\ l \in (n - 1)..l
        /\ (n - 1) + 1 = n /\ (n + 1) + 1 = n + 2
    BY <1>3
  <2>2. SubSeq(operands, n, l) = <<x>> \o SubSeq(operands, n + 1, l)
    BY <1>3, <2>1, SubSeqRecursiveFirst
  <2>3. SubSeq(operands, n + 1, l) = <<y>> \o SubSeq(operands, (n + 1) + 1, l)
    BY <1>3, <2>1, SubSeqRecursiveFirst
  <2>4. SubSeq(operands, 1, n - 1) \o SubSeq(operands, (n - 1) + 1, l) = SubSeq(operands, 1, l)
    BY <1>3, <2>1, ConcatAdjacentSubSeq
  <2>5. SubSeq(operands, 1, l) = operands
    BY <1>3, SubSeqFull
  <2>6. QED
    BY <2>1, <2>2, <2>3, <2>4, <2>5
<1>8. c = [base |-> d, operands |-> joined]
  BY <1>1, <1>2, <1>3, <1>5
<1> HIDE DEF a, b, x, y
<1>9. joined \in Seq(Operand)
  <2>1. <<x \o y>> \in Seq(Operand)
    BY <1>5
  <2>2. QED
    BY <1>6, <2>1, ConcatProperties
<1>10. FlattenSeq(joined) = FlattenSeq(operands) /\ joined \in Seq(Seq(Value))
  <2>1. x \o y \in Seq(Value)
    BY <1>5 DEF Operand
  <2>2. <<x \o y>> \in Seq(Seq(Value)) /\ <<x>> \in Seq(Seq(Value)) /\ <<y>> \in Seq(Seq(Value))
    BY <1>4, <2>1
  <2>3. FlattenSeq(<<x \o y>>) = x \o y /\ FlattenSeq(<<x>>) = x /\ FlattenSeq(<<y>>) = y
    BY <1>4, <2>1, FlattenOne
  <2>4. PICK A \in Seq(Value), B \in Seq(Value) : A = FlattenSeq(a) /\ B = FlattenSeq(b)
    BY <1>6, FlattenConcat, Zenon
  <2>5. FlattenSeq(joined) = (A \o (x \o y)) \o B /\ joined \in Seq(Seq(Value))
    <3>1. a \o <<x \o y>> \in Seq(Seq(Value)) /\ FlattenSeq(a \o <<x \o y>>) = A \o (x \o y)
      <4>1. PICK w \in Seq(Seq(Value)) : w = <<x \o y>>
        BY <2>2, Zenon
      <4>2. a \o w \in Seq(Seq(Value)) /\ FlattenSeq(a \o w) = FlattenSeq(a) \o FlattenSeq(w)
        BY <1>6, FlattenConcat
      <4>3. QED
        BY <2>3, <2>4, <4>1, <4>2, Zenon
    <3>2. QED
      BY <1>6, <2>4, <3>1, FlattenConcat, ZenonT(60)
  <2>6. FlattenSeq(a \o (<<x>> \o (<<y>> \o b))) = A \o (x \o (y \o B))
    <3>1. <<y>> \o b \in Seq(Seq(Value)) /\ FlattenSeq(<<y>> \o b) = y \o B
      BY <1>6, <2>2, <2>3, <2>4, FlattenConcat, ZenonT(60)
    <3>2. <<x>> \o (<<y>> \o b) \in Seq(Seq(Value)) /\ FlattenSeq(<<x>> \o (<<y>> \o b)) = x \o (y \o B)
      <4>1. PICK u \in Seq(Seq(Value)) : u = <<y>> \o b
        BY <3>1, Zenon
      <4>2. <<x>> \o u \in Seq(Seq(Value)) /\ FlattenSeq(<<x>> \o u) = x \o FlattenSeq(u)
        BY <2>2, <2>3, FlattenConcat, ZenonT(60)
      <4>3. QED
        BY <3>1, <4>1, <4>2, Zenon
    <3>3. PICK u \in Seq(Seq(Value)) : u = <<x>> \o (<<y>> \o b)
      BY <3>2, Zenon
    <3>4. FlattenSeq(a \o u) = A \o FlattenSeq(u)
      BY <1>6, <2>4, FlattenConcat
    <3>5. QED
      BY <3>2, <3>3, <3>4, Zenon
  <2>7. (A \o (x \o y)) \o B = A \o ((x \o y) \o B) /\ (x \o y) \o B = x \o (y \o B)
    <3>1. PICK z \in Seq(Value) : z = x \o y
      BY <2>1, Zenon
    <3>2. (A \o z) \o B = A \o (z \o B)
      BY InAnyOrder, Zenon
    <3>3. (x \o y) \o B = x \o (y \o B)
      BY <1>4, InAnyOrder, SMTT(60)
    <3>4. QED
      BY <3>1, <3>2, <3>3, Zenon
  <2>8. QED
    BY <1>7, <2>5, <2>6, <2>7, Zenon
<1>11. joined # <<>> /\ operands # <<>>
  <2>1. Len(a \o <<x \o y>>) = Len(a) + 1 /\ a \o <<x \o y>> \in Seq(Operand)
    BY <1>5, <1>6
  <2>2. Len(joined) = Len(a) + 1 + Len(b)
    BY <1>6, <2>1, ConcatProperties
  <2>3. Len(a) \in Nat /\ Len(b) \in Nat
    BY <1>6
  <2>4. QED
    BY <1>3, <2>2, <2>3
<1> HIDE DEF joined
<1>12. /\ Held(d, joined) = OrEmpty(d) \o FlattenSeq(joined)
       /\ Held(d, operands) = OrEmpty(d) \o FlattenSeq(operands)
  <2>1. Held(d, joined) = OrEmpty(d) \o FlattenSeq(joined)
    BY <1>10, <1>11, HeldIs
  <2>2. Held(d, operands) = OrEmpty(d) \o FlattenSeq(operands)
    <3>1. operands \in Seq(Seq(Value)) /\ operands # <<>>
      BY <1>2, <1>11
    <3>2. QED
      BY <3>1, HeldIs
  <2>3. QED
    BY <2>1, <2>2, Zenon
<1>13. c \in Stack
  BY <1>8, <1>9 DEF Stack, Operand, Data
<1>14. c.base = d /\ c.operands = joined /\ s.base = d /\ s.operands = operands
  BY <1>2, <1>8
<1>15. Held(d, joined) = Held(d, operands)
  BY <1>10, <1>12, Zenon
<1>16. Resolve(k, c) = Resolve(k, s)
  <2>1. Resolve(k, c) = IF Refuses(k, Held(d, joined)) THEN Failure ELSE Held(d, joined)
    BY <1>8, <1>10, <1>11, ResolveIs
  <2>2. Resolve(k, s) = IF Refuses(k, Held(d, operands)) THEN Failure ELSE Held(d, operands)
    BY <1>2, <1>11, ResolveIs
  <2>3. QED
    BY <1>15, <2>1, <2>2
<1>17. QED
  BY <1>13, <1>14, <1>15, <1>16, Zenon DEF Same

LEMMA CompactionsKeep ==
  ASSUME NEW k, NEW s \in Stack, NEW c \in Compactions(k, s)
  PROVE  c \in Stack /\ Same(k, c, s)
BY FullMergesKeep, PartialMergesKeep DEF Compactions

-----------------------------------------------------------------------------
(* Applying a batch.                                                       *)

Stacks == [Key -> Stack]

\* What a record does to key k.
Puts(r, k)    == r.type = "put" /\ r.key = k
Merges(r, k)  == r.type = "merge" /\ r.key = k
Deletes(r, k) == \/ r.type \in {"delete", "single delete"} /\ r.key = k
                 \/ r.type = "delete range" /\ r.begin <= k /\ k < r.end

LEMMA EffectIs ==
  ASSUME NEW c \in Stacks, NEW r \in Record, NEW k \in Key
  PROVE  /\ Puts(r, k) => r.value \in Value /\ Effect(c, r)[k] = [base |-> <<r.value>>, operands |-> <<>>]
         /\ Merges(r, k) => /\ r.value \in Value
                            /\ Effect(c, r)[k] = [base |-> c[k].base,
                                                  operands |-> Append(c[k].operands, <<r.value>>)]
         /\ Deletes(r, k) => Effect(c, r)[k] = NoValue
         /\ ~Puts(r, k) /\ ~Merges(r, k) /\ ~Deletes(r, k) => Effect(c, r)[k] = c[k]
<1>1. c[k] = [base |-> c[k].base, operands |-> c[k].operands]
  BY DEF Stacks, Stack
<1>2. Puts(r, k) => r.value \in Value /\ Effect(c, r)[k] = [base |-> <<r.value>>, operands |-> <<>>]
  BY DEF Puts, Record, Effect
<1>3. Merges(r, k) => r.value \in Value
                      /\ Effect(c, r)[k] = [c[k] EXCEPT !.operands = Append(@, <<r.value>>)]
  BY DEF Merges, Record, Effect
<1>4. [c[k] EXCEPT !.operands = Append(@, <<r.value>>)]
        = [base |-> c[k].base, operands |-> Append(c[k].operands, <<r.value>>)]
  BY <1>1, SMTT(60)
<1>5. Deletes(r, k) => Effect(c, r)[k] = NoValue
  BY DEF Deletes, Record, Effect
<1>6. ~Puts(r, k) /\ ~Merges(r, k) /\ ~Deletes(r, k) => Effect(c, r)[k] = c[k]
  BY DEF Puts, Merges, Deletes, Effect
<1>7. QED
  BY <1>2, <1>3, <1>4, <1>5, <1>6, Zenon

LEMMA UpdateIs ==
  ASSUME NEW v \in [Key -> Data], NEW r \in Record, NEW k \in Key
  PROVE  /\ Puts(r, k) => Update(v, r)[k] = <<r.value>>
         /\ Merges(r, k) => Update(v, r)[k] = Append(OrEmpty(v[k]), r.value)
         /\ Deletes(r, k) => Update(v, r)[k] = Nil
         /\ ~Puts(r, k) /\ ~Merges(r, k) /\ ~Deletes(r, k) => Update(v, r)[k] = v[k]
BY DEF Puts, Merges, Deletes, Record, Update

LEMMA EffectTypes ==
  ASSUME NEW c \in Stacks, NEW r \in Record
  PROVE  Effect(c, r) \in Stacks
<1>1. ASSUME NEW k \in Key PROVE Effect(c, r)[k] \in Stack
  <2>1. /\ c[k] \in Stack /\ c[k].operands \in Seq(Seq(Value) \ {<<>>})
        /\ c[k].base \in Seq(Value) \cup {Nil}
    BY DEF Stacks, Stack
  <2>2. NoValue \in Stack
    BY DEF NoValue, Stack
  <2>3. ASSUME NEW x \in Value
        PROVE  /\ [base |-> <<x>>, operands |-> <<>>] \in Stack
               /\ [base |-> c[k].base, operands |-> Append(c[k].operands, <<x>>)] \in Stack
    <3>1. <<x>> \in Seq(Value) \ {<<>>}
      OBVIOUS
    <3>2. Append(c[k].operands, <<x>>) \in Seq(Seq(Value) \ {<<>>})
      BY <2>1, <3>1, AppendProperties
    <3>3. QED
      BY <2>1, <3>1, <3>2 DEF Stack
  <2>4. QED
    BY <2>1, <2>2, <2>3, EffectIs, Zenon
<1>2. Effect(c, r) = [k \in Key |-> Effect(c, r)[k]]
  BY DEF Effect
<1>3. QED
  BY <1>1, <1>2 DEF Stacks

\* What the first i records make of c, for each i.
Applies(f, rs, c) ==
  /\ f \in [0..Len(rs) -> Stacks] /\ f[0] = c
  /\ \A i \in 1..Len(rs) : f[i] = Effect(f[i - 1], rs[i])

LEMMA ApplyRuns ==
  ASSUME NEW rs \in Seq(Record), NEW c \in Stacks
  PROVE  \E f : Applies(f, rs, c) /\ Apply(rs, c) = f[Len(rs)]
<1> DEFINE N == Len(rs)
           applied == CHOOSE f : f = [i \in 0..N |-> IF i = 0 THEN c ELSE Effect(f[i - 1], rs[i])]
           step == [i \in 1..N |-> [d \in Stacks |-> Effect(d, rs[i])]]
<1>1. N \in Nat /\ \A i \in 1..N : rs[i] \in Record
  OBVIOUS
<1>2. Apply(rs, c) = applied[N]
  BY Zenon DEF Apply
<1>3. \A i \in 1..N : \A d \in Stacks : Effect(d, rs[i]) \in Stacks
  BY <1>1, EffectTypes
<1>4. step \in [1..N -> [Stacks -> Stacks]]
  BY <1>3
<1>5. \A i \in 1..N : \A d \in Stacks : step[i][d] = Effect(d, rs[i])
  OBVIOUS
<1> HIDE DEF N, step
<1>6. PICK f : IsRun(f, N, Stacks, c, step)
  BY <1>1, <1>4, Recursion
<1>7. \A i \in 1..N : i - 1 \in 0..N /\ i \in 0..N
  BY <1>1
<1>8. /\ f \in [0..N -> Stacks] /\ f[0] = c
      /\ \A i \in 1..N : f[i] = Effect(f[i - 1], rs[i])
  BY <1>5, <1>6, <1>7 DEF IsRun
<1>9. applied = [i \in 0..N |-> IF i = 0 THEN c ELSE Effect(applied[i - 1], rs[i])]
  <2>1. f = [i \in 0..N |-> IF i = 0 THEN c ELSE Effect(f[i - 1], rs[i])]
    BY <1>1, <1>8
  <2>2. QED
    BY <2>1, Zenon
<1> HIDE DEF applied
<1>10. applied[0] = c /\ \A i \in 1..N : applied[i] = Effect(applied[i - 1], rs[i])
  BY <1>1, <1>7, <1>9
<1> DEFINE P == {i \in 0..N : applied[i] = f[i]}
<1>11. 0 \in P
  BY <1>1, <1>8, <1>10
<1>12. ASSUME NEW i \in 1..N, i - 1 \in P PROVE i \in P
  <2>1. applied[i] = f[i]
    BY <1>8, <1>10, <1>12
  <2>2. QED
    BY <1>7, <2>1
<1>13. N \in P
  <2> HIDE DEF P
  <2>1. \A i \in 0..N : i \in P
    BY <1>1, <1>11, <1>12, Induction
  <2>2. QED
    BY <1>1, <2>1
<1>14. QED
  BY <1>2, <1>8, <1>13 DEF Applies, N

-----------------------------------------------------------------------------
(* What reads find before and after a batch is applied.                    *)

\* What reads find of stacks is what they would find if each record acted on
\* what reads find.
LEMMA ContentsType ==
  ASSUME NEW c \in Stacks
  PROVE  Contents(c) \in [Key -> Data] /\ \A k \in Key : Contents(c)[k] = Held(c[k].base, c[k].operands)
<1>1. ASSUME NEW k \in Key
      PROVE  /\ Contents(c)[k] = Held(c[k].base, c[k].operands)
             /\ Held(c[k].base, c[k].operands) \in Data
  <2>1. PICK s \in Stack : s = c[k]
    BY DEF Stacks
  <2>2. s = [base |-> s.base, operands |-> s.operands] /\ s.base \in Data /\ s.operands \in Seq(Seq(Value))
    BY StackIs, Zenon
  <2>3. Held(s.base, s.operands) \in Data
    BY <2>2, HeldIs
  <2>4. Contents(c)[k] = IF Resolve(k, s) = Failure THEN Joined(s.base, s.operands) ELSE Resolve(k, s)
    BY <2>1 DEF Contents
  <2>5. Resolve(k, s) = IF s.operands # <<>> /\ Refuses(k, Held(s.base, s.operands)) THEN Failure
                        ELSE Held(s.base, s.operands)
    BY <2>2, ResolveIs, Zenon
  <2>6. Held(s.base, s.operands) # Failure
    BY <2>3, NilAssumption DEF Data
  <2>7. s.operands # <<>> => Held(s.base, s.operands) = Joined(s.base, s.operands)
    BY Zenon DEF Held
  <2>8. QED
    BY <2>1, <2>3, <2>4, <2>5, <2>6, <2>7, Zenon
<1>2. Contents(c) = [k \in Key |-> Contents(c)[k]]
  BY DEF Contents
<1>3. QED
  BY <1>1, <1>2

LEMMA ContentsOfEffect ==
  ASSUME NEW c \in Stacks, NEW r \in Record
  PROVE  Contents(Effect(c, r)) = Update(Contents(c), r)
<1>1. Effect(c, r) \in Stacks
  BY EffectTypes
<1>2. Contents(c) \in [Key -> Data]
  BY ContentsType
<1>3. ASSUME NEW k \in Key PROVE Contents(Effect(c, r))[k] = Update(Contents(c), r)[k]
  <2> DEFINE new == Effect(c, r)[k]
  <2>1. Contents(Effect(c, r))[k] = Held(new.base, new.operands)
    BY <1>1, ContentsType
  <2>2. c[k].base \in Data /\ c[k].operands \in Seq(Seq(Value))
    <3>1. c[k] \in Stack
      BY DEF Stacks
    <3>2. QED
      BY <3>1, StackIs, Zenon
  <2> HIDE DEF new
  <2>3. /\ <<>> \in Seq(Seq(Value)) /\ Nil \in Data
        /\ \A x \in Value : <<x>> \in Data /\ <<x>> \in Seq(Value)
    BY DEF Data
  <2>4. CASE Puts(r, k)
    <3>1. r.value \in Value /\ new = [base |-> <<r.value>>, operands |-> <<>>]
      BY <2>4, EffectIs DEF new
    <3>2. new.base = <<r.value>> /\ new.operands = <<>>
      BY <3>1
    <3>3. Held(<<r.value>>, <<>>) = <<r.value>>
      BY <2>3, <3>1, HeldIs
    <3>4. Update(Contents(c), r)[k] = <<r.value>>
      BY <1>2, <2>4, UpdateIs
    <3>5. QED
      BY <2>1, <3>2, <3>3, <3>4, Zenon
  <2>5. CASE Deletes(r, k)
    <3>1. new = [base |-> Nil, operands |-> <<>>]
      BY <2>5, EffectIs DEF new, NoValue
    <3>2. new.base = Nil /\ new.operands = <<>>
      BY <3>1
    <3>3. Held(Nil, <<>>) = Nil
      BY <2>3, HeldIs
    <3>4. Update(Contents(c), r)[k] = Nil
      BY <1>2, <2>5, UpdateIs
    <3>5. QED
      BY <2>1, <3>2, <3>3, <3>4, Zenon
  <2>6. CASE Merges(r, k)
    <3>1. PICK d \in Data, operands \in Seq(Seq(Value)), x \in Value :
            d = c[k].base /\ operands = c[k].operands /\ x = r.value
      BY <2>2, <2>6, EffectIs, Zenon
    <3>2. new = [base |-> d, operands |-> Append(operands, <<x>>)]
      BY <2>6, <3>1, EffectIs DEF new
    <3>3. new.base = d /\ new.operands = Append(operands, <<x>>)
      BY <3>2
    <3>4. <<x>> \in Seq(Value) /\ <<<<x>>>> \in Seq(Seq(Value)) /\ <<<<x>>>> # <<>>
      OBVIOUS
    <3>5. Append(operands, <<x>>) = operands \o <<<<x>>>>
      BY <3>4, AppendIsConcat
    <3>6. PICK e \in Data : e = Held(d, operands)
      BY HeldIs, Zenon
    <3>7. Held(d, operands \o <<<<x>>>>) = Held(e, <<<<x>>>>)
      BY <3>4, <3>6, HeldInParts, ZenonT(60)
    <3>8. Held(e, <<<<x>>>>) = OrEmpty(e) \o <<x>>
      <4>1. Held(e, <<<<x>>>>) = OrEmpty(e) \o FlattenSeq(<<<<x>>>>)
        BY <3>4, HeldIs, ZenonT(60)
      <4>2. FlattenSeq(<<<<x>>>>) = <<x>>
        BY <3>4, FlattenOne
      <4>3. QED
        BY <4>1, <4>2, Zenon
    <3>9. Update(Contents(c), r)[k] = Append(OrEmpty(e), x)
      <4>1. Contents(c)[k] = e
        BY <3>1, <3>6, ContentsType, Zenon
      <4>2. QED
        BY <1>2, <2>6, <3>1, <4>1, UpdateIs, Zenon
    <3>10. Append(OrEmpty(e), x) = OrEmpty(e) \o <<x>>
      <4>1. OrEmpty(e) \in Seq(Value)
        BY OrEmptyIs, Zenon
      <4>2. QED
        BY <4>1, AppendIsConcat
    <3>11. QED
      BY <2>1, <3>3, <3>5, <3>7, <3>8, <3>9, <3>10, Zenon
  <2>7. CASE ~Puts(r, k) /\ ~Merges(r, k) /\ ~Deletes(r, k)
    <3>1. new = c[k]
      BY <2>7, EffectIs DEF new
    <3>2. Update(Contents(c), r)[k] = Contents(c)[k]
      BY <1>2, <2>7, UpdateIs
    <3>3. QED
      BY <2>1, <3>1, <3>2, ContentsType, Zenon
  <2>8. QED
    BY <2>4, <2>5, <2>6, <2>7
<1>4. /\ Contents(Effect(c, r)) = [k \in Key |-> Contents(Effect(c, r))[k]]
      /\ Update(Contents(c), r) = [k \in Key |-> Update(Contents(c), r)[k]]
  BY DEF Contents, Update
<1>5. QED
  BY <1>3, <1>4, Zenon

LEMMA ContentsOfApply ==
  ASSUME NEW rs \in Seq(Record), NEW c \in Stacks
  PROVE  Contents(Apply(rs, c)) = ApplyToContents(rs, Contents(c)) /\ Apply(rs, c) \in Stacks
<1> DEFINE N == Len(rs)
           v == Contents(c)
           updated == CHOOSE f : f = [i \in 0..N |-> IF i = 0 THEN v ELSE Update(f[i - 1], rs[i])]
<1>1. N \in Nat /\ \A i \in 1..N : rs[i] \in Record
  OBVIOUS
<1>2. ApplyToContents(rs, v) = updated[N]
  BY Zenon DEF ApplyToContents
<1>3. PICK f : Applies(f, rs, c) /\ Apply(rs, c) = f[N]
  BY ApplyRuns
<1> HIDE DEF N, v
<1>4. /\ f \in [0..N -> Stacks] /\ f[0] = c
      /\ \A i \in 1..N : f[i] = Effect(f[i - 1], rs[i])
  BY <1>3 DEF Applies, N
<1>5. \A i \in 1..N : i - 1 \in 0..N /\ i \in 0..N
  BY <1>1
<1>6. \A i \in 1..N : Contents(f[i]) = Update(Contents(f[i - 1]), rs[i])
  BY <1>1, <1>4, <1>5, ContentsOfEffect
<1> DEFINE g == [i \in 0..N |-> Contents(f[i])]
<1>7. g = [i \in 0..N |-> IF i = 0 THEN v ELSE Update(g[i - 1], rs[i])]
  <2>1. g[0] = v /\ \A i \in 1..N : g[i - 1] = Contents(f[i - 1])
    BY <1>1, <1>4, <1>5 DEF v
  <2>2. \A i \in 0..N : i = 0 \/ i \in 1..N
    BY <1>1
  <2>3. QED
    BY <1>4, <1>6, <2>1, <2>2 DEF v
<1>8. updated = [i \in 0..N |-> IF i = 0 THEN v ELSE Update(updated[i - 1], rs[i])]
  <2> HIDE DEF g
  <2>1. QED
    BY <1>7, Zenon
<1> HIDE DEF updated
<1>9. updated[0] = v /\ \A i \in 1..N : updated[i] = Update(updated[i - 1], rs[i])
  BY <1>1, <1>5, <1>8
<1> DEFINE P == {i \in 0..N : updated[i] = Contents(f[i])}
<1>10. 0 \in P
  BY <1>1, <1>4, <1>9 DEF v
<1>11. ASSUME NEW i \in 1..N, i - 1 \in P PROVE i \in P
  <2>1. updated[i] = Contents(f[i])
    BY <1>6, <1>9, <1>11
  <2>2. QED
    BY <1>5, <2>1
<1>12. N \in P
  <2> HIDE DEF P
  <2>1. \A i \in 0..N : i \in P
    BY <1>1, <1>10, <1>11, Induction
  <2>2. QED
    BY <1>1, <2>1
<1>13. f[N] \in Stacks
  BY <1>1, <1>4
<1>14. QED
  BY <1>2, <1>3, <1>12, <1>13 DEF v

-----------------------------------------------------------------------------
(* The bounds of the model, and the invariant of the whole.                *)

\* The bounds of the model, and what the database holds.
Bounds ==
  /\ kind \in {"plain", "indexed", "overwriting"} /\ limit \in Limit \cup {0} /\ db \in Stacks
  /\ Len(records) <= MaxRecords /\ Len(saves) <= MaxSaves

\* An indexed batch has no range.
IsRange(r) == r.type = "delete range"
Unranged   == kind # "plain" => \A i \in 1..Len(records) : ~IsRange(records[i])

WriteInv == BatchInv /\ Bounds /\ Unranged

LEMMA WriteInitially == Init => WriteInv
<1> SUFFICES ASSUME Init PROVE WriteInv
  OBVIOUS
<1>1. BatchInv
  BY EmptyBatch DEF Init
<1>2. NoValue \in Stack
  BY DEF NoValue, Stack
<1>3. Bounds
  BY <1>2, BoundAssumption DEF Init, Bounds, Stacks
<1>4. Unranged
  BY DEF Init, Unranged
<1>5. QED
  BY <1>1, <1>3, <1>4 DEF WriteInv

\* Adding a record keeps the bounds, and adds a range to a plain batch only.
LEMMA AddKeepsBounds ==
  ASSUME WriteInv, NEW r \in Record, Add(r), kind # "plain" => ~IsRange(r)
  PROVE  Bounds' /\ Unranged'
<1>1. /\ records \in Seq(Record) /\ records' = Append(records, r) /\ Len(records) < MaxRecords
      /\ UNCHANGED <<kind, saves, limit, db>>
  BY DEF WriteInv, BatchInv, Add
<1>2. PICK n \in Nat : n = Len(records)
  BY <1>1
<1>3. Len(records') = n + 1 /\ records'[n + 1] = r /\ \A i \in 1..n : records'[i] = records[i]
  BY <1>1, <1>2
<1>4. Bounds'
  BY <1>1, <1>2, <1>3, BoundAssumption DEF WriteInv, Bounds
<1>5. \A i \in 1..(n + 1) : i = n + 1 \/ i \in 1..n
  OBVIOUS
<1>6. Unranged'
  BY <1>1, <1>2, <1>3, <1>5 DEF WriteInv, Unranged
<1>7. QED
  BY <1>4, <1>6

LEMMA BoundsStep ==
  ASSUME WriteInv, [Next]_vars
  PROVE  Bounds' /\ Unranged'
<1>1. CASE UNCHANGED <<kind, records, saves, limit, db>>
  BY <1>1 DEF WriteInv, Bounds, Unranged
<1>2. ASSUME NEW k \in Key, NEW v \in Value, SetData(k, v) \/ MergeData(k, v)
      PROVE  Bounds' /\ Unranged'
  BY <1>2, AddKeepsBounds DEF SetData, MergeData, Record, IsRange
<1>3. ASSUME NEW k \in Key, DeleteData(k) \/ SingleDelete(k) PROVE Bounds' /\ Unranged'
  BY <1>3, AddKeepsBounds DEF DeleteData, SingleDelete, Record, IsRange
<1>4. ASSUME NEW b \in Key, NEW e \in RangeEnd, DeleteRange(b, e) PROVE Bounds' /\ Unranged'
  BY <1>4, AddKeepsBounds DEF DeleteRange, Record
<1>5. CASE PutLogData
  BY <1>5, AddKeepsBounds DEF PutLogData, Record, IsRange
<1>6. CASE Clear
  <2>1. records' = <<>> /\ saves' = <<>> /\ UNCHANGED <<kind, limit, db>> /\ Len(<<>>) = 0
    BY <1>6 DEF Clear
  <2>2. QED
    BY <2>1, BoundAssumption DEF WriteInv, Bounds, Unranged
<1>7. ASSUME NEW n \in Limit, SetMaxBytes(n) PROVE Bounds' /\ Unranged'
  BY <1>7 DEF SetMaxBytes, batchVars, WriteInv, Bounds, Unranged
<1>8. CASE SetSavePoint
  <2>1. saves \in Seq(Saved) /\ Len(saves) < MaxSaves /\ UNCHANGED <<kind, records, limit, db>>
    BY <1>8 DEF SetSavePoint, batchVars, WriteInv, BatchInv
  <2>2. saves' = Append(saves, Header) /\ Header \in Saved
    BY <1>8 DEF SetSavePoint, Header, WriteInv, BatchInv
  <2>3. Len(saves') <= MaxSaves
    BY <2>1, <2>2, BoundAssumption
  <2>4. QED
    BY <2>1, <2>3 DEF WriteInv, Bounds, Unranged
<1>9. CASE PopSavePoint
  <2>1. /\ saves \in Seq(Saved) /\ saves # <<>> /\ saves' = Front(saves)
        /\ UNCHANGED <<kind, records, limit, db>>
    BY <1>9 DEF PopSavePoint, batchVars, WriteInv, BatchInv
  <2>2. Len(saves) \in Nat \ {0} /\ Len(saves') = Len(saves) - 1
    BY <2>1, FrontKeeps
  <2>3. QED
    BY <2>1, <2>2, BoundAssumption DEF WriteInv, Bounds, Unranged
<1>10. CASE RollbackToSavePoint
  <2>1. /\ saves \in Seq(Saved) /\ saves # <<>> /\ saves' = Front(saves)
        /\ UNCHANGED <<kind, limit, db>>
    BY <1>10 DEF RollbackToSavePoint, WriteInv, BatchInv
  <2>2. Len(saves) \in Nat \ {0} /\ Len(saves') = Len(saves) - 1
    BY <2>1, FrontKeeps
  <2>3. PICK n \in 0..Len(records) : records' = SubSeq(records, 1, n)
    BY <1>10, RollbackKeeps DEF WriteInv
  <2>4. Len(records) \in Nat /\ Len(records') = n /\ \A i \in 1..n : records'[i] = records[i]
    BY <2>3 DEF WriteInv, BatchInv
  <2>5. Bounds'
    BY <2>1, <2>2, <2>4, BoundAssumption DEF WriteInv, Bounds
  <2>6. Unranged'
    BY <2>1, <2>4 DEF WriteInv, Unranged
  <2>7. QED
    BY <2>5, <2>6
<1>11. CASE ApplyWriteBatch
  <2>1. db' = Apply(records, db) /\ UNCHANGED <<kind, records, saves, limit>>
    BY <1>11 DEF ApplyWriteBatch, batchVars
  <2>2. Apply(records, db) \in Stacks
    BY ContentsOfApply DEF WriteInv, BatchInv, Bounds
  <2>3. QED
    BY <2>1, <2>2 DEF WriteInv, Bounds, Unranged
<1>12. ASSUME NEW k \in Key, Compact(k) PROVE Bounds' /\ Unranged'
  <2>1. PICK s \in Compactions(k, db[k]) : db' = [db EXCEPT ![k] = s]
    BY <1>12 DEF Compact
  <2>2. UNCHANGED <<kind, records, saves, limit>>
    BY <1>12 DEF Compact, batchVars
  <2>3. db \in Stacks /\ db[k] \in Stack
    BY DEF WriteInv, Bounds, Stacks
  <2>4. s \in Stack
    BY <2>3, CompactionsKeep
  <2>5. db' \in Stacks
    BY <2>1, <2>3, <2>4 DEF Stacks
  <2>6. QED
    BY <2>2, <2>5 DEF WriteInv, Bounds, Unranged
<1>13. ASSUME NEW k \in Key, NEW v \in Written, OtherWrite(k, v) PROVE Bounds' /\ Unranged'
  <2>1. /\ db' = [db EXCEPT ![k] = [base |-> v, operands |-> <<>>]]
        /\ UNCHANGED <<kind, records, saves, limit>>
    BY <1>13 DEF OtherWrite, batchVars
  <2>2. [base |-> v, operands |-> <<>>] \in Stack
    <3>1. v \in Seq(Value) \cup {Nil}
      <4>1. v = Nil \/ \E w \in Value : v = <<w>>
        BY DEF Written
      <4>2. \A w \in Value : <<w>> \in Seq(Value)
        OBVIOUS
      <4>3. QED
        BY <4>1, <4>2, Zenon
    <3>2. QED
      BY <3>1 DEF Stack
  <2>3. db' \in Stacks
    BY <2>1, <2>2 DEF WriteInv, Bounds, Stacks
  <2>4. QED
    BY <2>1, <2>3 DEF WriteInv, Bounds, Unranged
<1>14. QED
  BY <1>1, <1>2, <1>3, <1>4, <1>5, <1>6, <1>7, <1>8, <1>9, <1>10, <1>11, <1>12, <1>13
  DEF Next, vars, batchVars, RefusedUpdate, DeleteRangeUnsupported, NoSavePoint, ApplyFails

LEMMA WriteInvariant == Spec => []WriteInv
<1>1. WriteInv /\ [Next]_vars => WriteInv'
  BY BatchStep, BoundsStep DEF WriteInv
<1>2. QED
  BY WriteInitially, <1>1, PTL DEF Spec

-----------------------------------------------------------------------------
LEMMA CountBounded ==
  ASSUME NEW n \in Nat, NEW rs
  PROVE  CountOf(rs, n) \in 0..n
<1> DEFINE C == {i \in 1..n : Counted(rs[i])}
<1>1. IsFiniteSet(1..n) /\ Cardinality(1..n) = n /\ C \subseteq 1..n
  BY FS_Interval
<1> HIDE DEF C
<1>2. Cardinality(C) <= n /\ Cardinality(C) \in Nat
  BY <1>1, FS_Subset, FS_CardinalityType
<1>3. QED
  BY <1>2 DEF CountOf, C

\* Sizes, counts and flags keep their types, in the batch and in save points.
THEOREM BatchTypes == Spec => []TypeOK
<1>1. ASSUME WriteInv PROVE TypeOK
  <2>1. /\ records \in Seq(Record) /\ saves \in Seq(Saved) /\ Header \in Saved
        /\ Len(records) \in Nat /\ Len(records) <= MaxRecords /\ MaxRecords \in Nat
    BY <1>1, BoundAssumption DEF WriteInv, BatchInv, Bounds
  <2>2. UNION {FlagOf(r) : r \in Record} \subseteq {"put", "merge", "delete", "single delete", "delete range"}
    BY DEF FlagOf, Counted, Record
  <2>3. ASSUME NEW x \in Saved, NEW n \in 0..Len(records), True(x, n) PROVE x \in SavePoint
    <3>1. /\ x = [size |-> x.size, count |-> x.count, flags |-> x.flags]
          /\ x.flags \in SUBSET {"put", "merge", "delete", "single delete", "delete range"}
      BY <2>2 DEF Saved
    <3>2. x.size \in 0..MaxRecords /\ x.count \in 0..MaxRecords
      BY <2>1, <2>3, CountBounded DEF True
    <3>3. QED
      BY <3>1, <3>2 DEF SavePoint
  <2>4. Header \in SavePoint
    <3>1. True(Header, Len(records)) /\ Len(records) \in 0..Len(records)
      BY <1>1, <2>1 DEF WriteInv, BatchInv, HeaderTells
    <3>2. QED
      BY <2>1, <2>3, <3>1
  <2>5. \A i \in 1..Len(saves) : saves[i] \in SavePoint
    <3>1. \A i \in 1..Len(saves) : saves[i] \in Saved /\ \E n \in 0..Len(records) : True(saves[i], n)
      BY <1>1, <2>1 DEF WriteInv, BatchInv, HeaderTells
    <3>2. QED
      BY <2>3, <3>1
  <2>6. saves \in Seq(SavePoint)
    BY <2>1, <2>5
  <2>7. QED
    BY <1>1, <2>1, <2>4, <2>6 DEF TypeOK, WriteInv, Bounds, Header, Stacks
<1>2. QED
  BY <1>1, WriteInvariant, PTL

\* A batch without merges may be applied again.
THEOREM RetriesAreHarmless == Spec => []RetryHarmless
<1>1. ASSUME WriteInv, "merge" \notin flags
      PROVE  Apply(records, Apply(records, db)) = Apply(records, db)
  <2>1. PICK N \in Nat : N = Len(records)
    BY <1>1 DEF WriteInv, BatchInv
  <2>2. records \in Seq(Record) /\ db \in Stacks /\ Apply(records, db) \in Stacks
    BY <1>1, ContentsOfApply DEF WriteInv, BatchInv, Bounds
  <2>3. PICK f : Applies(f, records, db) /\ Apply(records, db) = f[N]
    BY <2>1, <2>2, ApplyRuns
  <2>4. PICK g : Applies(g, records, f[N]) /\ Apply(records, f[N]) = g[N]
    BY <2>1, <2>2, <2>3, ApplyRuns
  <2>5. /\ f \in [0..N -> Stacks] /\ f[0] = db
        /\ g \in [0..N -> Stacks] /\ g[0] = f[N]
        /\ \A i \in 1..N : f[i] = Effect(f[i - 1], records[i]) /\ g[i] = Effect(g[i - 1], records[i])
    BY <2>1, <2>3, <2>4 DEF Applies
  <2>6. \A i \in 1..N : records[i] \in Record /\ i - 1 \in 0..N /\ i \in 0..N
    BY <2>1, <2>2
  <2>7. \A i \in 1..N : records[i].type # "merge"
    <3>1. flags = UNION {FlagOf(records[i]) : i \in 1..N}
      BY <1>1, <2>1 DEF WriteInv, BatchInv, HeaderTells, True, Header, FlagsOf
    <3>2. QED
      BY <1>1, <3>1 DEF FlagOf, Counted
  <2> DEFINE P == {i \in 0..N : \A k \in Key : \/ g[i][k] = f[i][k]
                                               \/ f[i][k] = f[0][k] /\ g[i][k] = g[0][k]}
  <2>8. 0 \in P
    BY <2>1
  <2>9. ASSUME NEW i \in 1..N, i - 1 \in P PROVE i \in P
    <3>1. PICK a \in Stacks, b \in Stacks, r \in Record :
            a = f[i - 1] /\ b = g[i - 1] /\ r = records[i]
      <4>1. f[i - 1] \in Stacks /\ g[i - 1] \in Stacks /\ records[i] \in Record
        BY <2>5, <2>6
      <4>2. QED
        BY <4>1, Zenon
    <3>2. ASSUME NEW k \in Key
          PROVE  g[i][k] = f[i][k] \/ (f[i][k] = f[0][k] /\ g[i][k] = g[0][k])
      <4>1. ~Merges(r, k)
        BY <2>7, <3>1 DEF Merges
      <4>2. CASE Puts(r, k) \/ Deletes(r, k)
        <5>1. Effect(a, r)[k] = Effect(b, r)[k]
          <6>1. CASE Puts(r, k)
            <7>1. Effect(a, r)[k] = [base |-> <<r.value>>, operands |-> <<>>]
              BY <6>1, EffectIs
            <7>2. Effect(b, r)[k] = [base |-> <<r.value>>, operands |-> <<>>]
              BY <6>1, EffectIs
            <7>3. QED
              BY <7>1, <7>2, Zenon
          <6>2. CASE Deletes(r, k)
            <7>1. Effect(a, r)[k] = NoValue
              BY <6>2, EffectIs
            <7>2. Effect(b, r)[k] = NoValue
              BY <6>2, EffectIs
            <7>3. QED
              BY <7>1, <7>2, Zenon
          <6>3. QED
            BY <4>2, <6>1, <6>2
        <5>2. QED
          BY <2>5, <3>1, <5>1
      <4>3. CASE ~Puts(r, k) /\ ~Deletes(r, k)
        <5>0. Effect(a, r)[k] = a[k] /\ Effect(b, r)[k] = b[k]
          BY <4>1, <4>3, EffectIs, Zenon
        <5>1. f[i][k] = f[i - 1][k] /\ g[i][k] = g[i - 1][k]
          BY <2>5, <3>1, <5>0
        <5>2. g[i - 1][k] = f[i - 1][k] \/ (f[i - 1][k] = f[0][k] /\ g[i - 1][k] = g[0][k])
          BY <2>9
        <5>3. QED
          BY <5>1, <5>2, Zenon
      <4>4. QED
        BY <4>2, <4>3
    <3>3. QED
      BY <2>6, <3>2
  <2>10. N \in P
    <3> HIDE DEF P
    <3>1. \A i \in 0..N : i \in P
      BY <2>8, <2>9, Induction
    <3>2. QED
      BY <2>1, <3>1
  <2>11. \A k \in Key : g[N][k] = f[N][k]
    BY <2>5, <2>10
  <2>12. g[N] \in Stacks /\ f[N] \in Stacks
    BY <2>1, <2>5
  <2>13. g[N] = f[N]
    BY <2>11, <2>12 DEF Stacks
  <2>14. QED
    BY <2>3, <2>4, <2>13
<1>2. WriteInv => RetryHarmless
  BY <1>1 DEF RetryHarmless
<1>3. QED
  BY <1>2, WriteInvariant, PTL

-----------------------------------------------------------------------------
(* Reading an indexed batch.                                               *)

\* What a record that is no merge says its key is.
BaseOf(r) == IF r.type = "put" THEN <<r.value>> ELSE Nil

\* What the records of a key do to it.
LEMMA RecordOfKey ==
  ASSUME NEW r \in Record, ~IsRange(r), NEW k \in Key
  PROVE  /\ Counted(r) /\ r.key = k <=> Puts(r, k) \/ Merges(r, k) \/ Deletes(r, k)
         /\ Merges(r, k) <=> Counted(r) /\ r.key = k /\ r.type = "merge"
         /\ Puts(r, k) => BaseOf(r) = <<r.value>>
         /\ Deletes(r, k) => BaseOf(r) = Nil
<1>1. r.type \in {"put", "merge", "delete", "single delete", "log data"}
  BY DEF Record, IsRange
<1>2. QED
  BY <1>1 DEF Counted, Puts, Merges, Deletes, BaseOf

\* n is the place of the latest record that says what k is, 0 if there is none.
IsLatestBase(k, n) ==
  /\ \A j \in Bases(k) : j <= n
  /\ n \in Bases(k) \/ n = 0

LEMMA LatestBase ==
  ASSUME records \in Seq(Record), NEW k
  PROVE  \E n \in 0..Len(records) :
           /\ IsLatestBase(k, n)
           /\ Bases(k) = {} <=> n = 0
           /\ Bases(k) # {} => Latest(Bases(k)) = n
<1>1. Len(records) \in Nat /\ Bases(k) \in SUBSET (0..Len(records)) /\ 0 \notin Bases(k)
  BY DEF Bases, Of
<1>2. CASE Bases(k) = {}
  BY <1>1, <1>2 DEF IsLatestBase
<1>3. CASE Bases(k) # {}
  <2>1. \E i \in Bases(k) : \A j \in Bases(k) : j <= i
    BY <1>1, <1>3, LargestExists
  <2>2. PICK n \in Bases(k) : n = Latest(Bases(k)) /\ \A j \in Bases(k) : j <= n
    BY <2>1, Zenon DEF Latest
  <2>3. QED
    BY <1>1, <1>3, <2>2 DEF IsLatestBase
<1>4. QED
  BY <1>2, <1>3

LEMMA ListsInAnyOrder == \A s, t, u \in Seq(Seq(Value)) : (s \o t) \o u = s \o (t \o u)
<1> DEFINE S == Seq(Value)
<1> HIDE DEF S
<1>1. \A s, t, u \in Seq(S) : (s \o t) \o u = s \o (t \o u)
  BY Associates
<1>2. QED
  BY <1>1 DEF S

\* An indexed batch leaves of key k what its latest record says that is no
\* merge, or what was there, and the operands of the merges that follow.
LEMMA BatchDoes ==
  ASSUME WriteInv, kind # "plain", NEW k \in Key, NEW n \in 0..Len(records), IsLatestBase(k, n),
         NEW d \in Data, NEW o \in Seq(Seq(Value)),
         IF n = 0 THEN d = db[k].base /\ o = db[k].operands
                  ELSE d = BaseOf(records[n]) /\ o = <<>>
  PROVE  /\ MergesAfter(k, n) \in Seq(Seq(Value))
         /\ Apply(records, db)[k] = [base |-> d, operands |-> o \o MergesAfter(k, n)]
<1> DEFINE N == Len(records)
           lists == [i \in 1..N |-> IF i \in Of(k) /\ i > n THEN << <<records[i].value>> >> ELSE <<>>]
<1>1. /\ records \in Seq(Record) /\ db \in Stacks /\ N \in Nat /\ n \in 0..N
      /\ \A i \in 1..N : records[i] \in Record /\ ~IsRange(records[i]) /\ i - 1 \in 0..N /\ i \in 0..N
  BY DEF WriteInv, BatchInv, Bounds, Unranged
<1>2. \A i \in 1..N : i \in Of(k) <=> Counted(records[i]) /\ records[i].key = k
  BY DEF Of
<1>3. \A i \in 1..N : i \in Bases(k) <=> i \in Of(k) /\ ~Merges(records[i], k)
  BY <1>1, <1>2, RecordOfKey DEF Bases
<1>4. \A i \in 1..N : i \in Of(k) <=> \/ Puts(records[i], k) \/ Merges(records[i], k)
                                      \/ Deletes(records[i], k)
  BY <1>1, <1>2, RecordOfKey
<1>5. \A i \in 1..N : i > n /\ i \in Of(k) => Merges(records[i], k)
  BY <1>1, <1>3 DEF IsLatestBase
<1>6. \A i \in 1..N : Merges(records[i], k) => << <<records[i].value>> >> \in Seq(Seq(Value))
  <2>1. \A i \in 1..N : Merges(records[i], k) => records[i].value \in Value
    BY <1>1, EffectIs
  <2>2. \A x \in Value : << <<x>> >> \in Seq(Seq(Value))
    OBVIOUS
  <2>3. QED
    BY <2>1, <2>2
<1>7. lists \in Seq(Seq(Seq(Value))) /\ Len(lists) = N
  <2>1. \A i \in 1..N : lists[i] \in Seq(Seq(Value))
    BY <1>5, <1>6
  <2> DEFINE element(i) == IF i \in Of(k) /\ i > n THEN << <<records[i].value>> >> ELSE <<>>
  <2>2. \A i \in 1..N : element(i) \in Seq(Seq(Value))
    BY <2>1
  <2> HIDE DEF element
  <2>3. /\ [i \in 1..N |-> element(i)] \in Seq(Seq(Seq(Value)))
        /\ Len([i \in 1..N |-> element(i)]) = N
    BY <1>1, <2>2
  <2>4. QED
    BY <2>3 DEF element
<1>8. MergesAfter(k, n) = FlattenSeq(lists)
  BY Zenon DEF MergesAfter
<1>9. /\ \A i \in 1..N : i \in Of(k) /\ i > n => lists[i] = << <<records[i].value>> >>
      /\ \A i \in 1..N : ~(i \in Of(k) /\ i > n) => lists[i] = <<>>
  OBVIOUS
<1> HIDE DEF lists
<1>10. PICK g : Flattens(g, lists, Seq(Value)) /\ FlattenSeq(lists) = g[N]
  BY <1>7, FlattenRuns
<1>11. /\ g \in [0..N -> Seq(Seq(Value))] /\ g[0] = <<>>
       /\ \A i \in 1..N : g[i] = g[i - 1] \o lists[i]
  BY <1>7, <1>10 DEF Flattens
<1>12. PICK f : Applies(f, records, db) /\ Apply(records, db) = f[N]
  BY <1>1, ApplyRuns
<1>13. /\ f \in [0..N -> Stacks] /\ f[0] = db
       /\ \A i \in 1..N : f[i] = Effect(f[i - 1], records[i])
  BY <1>12 DEF Applies
<1>14. \A s \in Seq(Seq(Value)) : s \o <<>> = s /\ <<>> \o s = s
  BY ConcatEmptySeq
<1> DEFINE Good(i) == /\ i <= n => g[i] = <<>>
                      /\ i >= n => f[i][k] = [base |-> d, operands |-> o \o g[i]]
           P == {i \in 0..N : Good(i)}
<1>15. Good(0)
  <2>1. CASE n = 0
    <3>1. db[k] \in Stack
      BY <1>1 DEF Stacks
    <3>2. db[k] = [base |-> db[k].base, operands |-> db[k].operands]
      BY <3>1, StackIs
    <3>3. db[k] = [base |-> d, operands |-> o]
      BY <2>1, <3>2
    <3>4. o \o g[0] = o
      BY <1>11, <1>14
    <3>5. f[0][k] = [base |-> d, operands |-> o \o g[0]]
      BY <1>13, <3>3, <3>4
    <3>6. QED
      BY <1>11, <3>5
  <2>2. CASE n # 0
    BY <1>11, <2>2
  <2>3. QED
    BY <2>1, <2>2
<1>16. ASSUME NEW i \in 1..N, Good(i - 1) PROVE Good(i)
  <2>1. PICK a \in Stacks, r \in Record, s \in Seq(Seq(Value)) :
          a = f[i - 1] /\ r = records[i] /\ s = g[i - 1]
    <3>1. f[i - 1] \in Stacks /\ g[i - 1] \in Seq(Seq(Value)) /\ records[i] \in Record
      BY <1>1, <1>11, <1>13
    <3>2. QED
      BY <3>1, Zenon
  <2>2. f[i] = Effect(a, r) /\ g[i] = s \o lists[i] /\ ~IsRange(r)
    BY <1>1, <1>11, <1>13, <2>1
  <2>3. CASE i < n
    <3>1. s = <<>> /\ lists[i] = <<>>
      BY <1>1, <1>9, <1>16, <2>1, <2>3
    <3>2. QED
      BY <1>1, <1>14, <2>2, <2>3, <3>1
  <2>4. CASE i = n
    <3>1. s = <<>> /\ lists[i] = <<>>
      BY <1>1, <1>9, <1>16, <2>1, <2>4
    <3>2. g[i] = <<>> /\ o = <<>> /\ d = BaseOf(r)
      BY <1>1, <1>14, <2>1, <2>2, <2>4, <3>1
    <3>3. i \in Bases(k)
      BY <2>4 DEF IsLatestBase
    <3>4. Puts(r, k) \/ Deletes(r, k)
      BY <1>3, <1>4, <2>1, <3>3, Zenon
    <3>5. Effect(a, r)[k] = [base |-> d, operands |-> <<>>]
      <4>1. CASE Puts(r, k)
        <5>1. Effect(a, r)[k] = [base |-> <<r.value>>, operands |-> <<>>]
          BY <4>1, EffectIs
        <5>2. d = <<r.value>>
          BY <2>2, <3>2, <4>1, RecordOfKey
        <5>3. QED
          BY <5>1, <5>2, Zenon
      <4>2. CASE Deletes(r, k)
        <5>1. Effect(a, r)[k] = [base |-> Nil, operands |-> <<>>]
          BY <4>2, EffectIs DEF NoValue
        <5>2. d = Nil
          BY <2>2, <3>2, <4>2, RecordOfKey
        <5>3. QED
          BY <5>1, <5>2, Zenon
      <4>3. QED
        BY <3>4, <4>1, <4>2
    <3>6. o \o g[i] = <<>>
      BY <1>14, <3>2
    <3>7. QED
      BY <2>2, <3>2, <3>5, <3>6
  <2>5. CASE i > n
    <3>1. a[k] = [base |-> d, operands |-> o \o s]
      BY <1>1, <1>16, <2>1, <2>5
    <3>2. PICK u \in Seq(Seq(Value)) : u = o \o s
      BY ConcatProperties
    <3>3. a[k].base = d /\ a[k].operands = u
      BY <3>1, <3>2
    <3>4. CASE i \in Of(k)
      <4>1. Merges(r, k)
        BY <1>5, <2>1, <2>5, <3>4
      <4>2. PICK x \in Value : x = r.value
        BY <4>1, EffectIs
      <4>3. lists[i] = << <<x>> >> /\ << <<x>> >> \in Seq(Seq(Value))
        BY <1>9, <2>1, <2>5, <3>4, <4>2
      <4>4. Effect(a, r)[k] = [base |-> d, operands |-> Append(u, <<x>>)]
        BY <3>3, <4>1, <4>2, EffectIs, Zenon
      <4>5. Append(u, <<x>>) = u \o << <<x>> >>
        BY <4>3, AppendIsConcat
      <4>6. (o \o s) \o << <<x>> >> = o \o (s \o << <<x>> >>)
        BY <4>3, ListsInAnyOrder, Zenon
      <4>7. f[i][k] = [base |-> d, operands |-> o \o g[i]]
        BY <2>2, <3>2, <4>3, <4>4, <4>5, <4>6, Zenon
      <4>8. QED
        BY <2>5, <4>7
    <3>5. CASE i \notin Of(k)
      <4>1. Effect(a, r)[k] = a[k]
        BY <1>4, <2>1, <3>5, EffectIs, Zenon
      <4>2. g[i] = s
        BY <1>9, <1>14, <2>2, <3>5
      <4>3. QED
        BY <2>2, <2>5, <3>1, <4>1, <4>2
    <3>6. QED
      BY <3>4, <3>5
  <2>6. QED
    BY <1>1, <2>3, <2>4, <2>5
<1> HIDE DEF Good
<1>17. N \in P
  <2>1. 0 \in P
    BY <1>1, <1>15
  <2>2. \A i \in 1..N : i - 1 \in P => i \in P
    BY <1>1, <1>16
  <2> HIDE DEF P
  <2>3. \A i \in 0..N : i \in P
    BY <1>1, <2>1, <2>2, Induction
  <2>4. QED
    BY <1>1, <2>3
<1>18. f[N][k] = [base |-> d, operands |-> o \o g[N]] /\ g[N] \in Seq(Seq(Value))
  BY <1>1, <1>11, <1>17 DEF Good
<1>19. QED
  BY <1>8, <1>10, <1>12, <1>18

\* What follows corrupted data is refused with it.
LEMMA RefusesMore ==
  ASSUME NEW k, NEW v \in Seq(Value), NEW w \in Seq(Value), Refuses(k, v)
  PROVE  Refuses(k, v \o w)
<1>1. PICK i \in DOMAIN v : k \notin Associative /\ v[i] \in Corrupt
  BY Zenon DEF Refuses
<1>2. i \in DOMAIN (v \o w) /\ (v \o w)[i] = v[i]
  OBVIOUS
<1>3. QED
  BY <1>1, <1>2, Zenon DEF Refuses

\* A read through an indexed batch finds what it would find in the database if
\* the batch were applied at this moment, and fails only where a merge cannot
\* be resolved, or where the block of the full merge refuses it.
THEOREM ReadsFindTheBatchApplied == Spec => []ReadsAsApplied
<1>1. ASSUME WriteInv, kind # "plain", NEW k \in Key
      PROVE  LET applied == Resolve(k, Apply(records, db)[k])
                 found   == GetFromBatchAndDB(k, Resolve(k, db[k])) IN
             /\ found \in {applied, Failure}
             /\ Of(k) # {} => GetFromBatch(k) \in {applied, Failure}
             /\ kind = "indexed" => found = applied
  <2> DEFINE applied == Resolve(k, Apply(records, db)[k])
             v == Resolve(k, db[k])
             latest == Latest(Bases(k))
  <2>1. records \in Seq(Record) /\ db \in Stacks /\ Apply(records, db) \in Stacks
    BY <1>1, ContentsOfApply DEF WriteInv, BatchInv, Bounds
  <2>3. \A x \in Data : x # Failure
    BY NilAssumption DEF Data
  <2>4. PICK n \in 0..Len(records) :
          /\ IsLatestBase(k, n)
          /\ Bases(k) = {} <=> n = 0
          /\ Bases(k) # {} => latest = n
    BY <2>1, LatestBase
  <2>5. kind = "indexed" => ~MergeInProgress(k)
    BY DEF MergeInProgress
  <2> HIDE DEF applied, v, latest
  <2>6. CASE Bases(k) # {}
    <3>1. Of(k) # {} /\ n # 0
      BY <2>4, <2>6 DEF Bases
    <3>2. BaseInBatch(k) = BaseOf(records[n])
      BY <2>4, <2>6 DEF BaseInBatch, BaseOf, latest
    <3>3. BaseOf(records[n]) \in Data
      <4>1. records[n] \in Record
        BY <2>1, <2>4, <3>1
      <4>2. records[n].type = "put" => records[n].value \in Value
        BY <4>1 DEF Record
      <4>3. QED
        BY <4>2 DEF BaseOf, Data
    <3>4. PICK d \in Data, M \in Seq(Seq(Value)) :
            /\ d = BaseOf(records[n]) /\ M = MergesAfter(k, n)
            /\ Apply(records, db)[k] = [base |-> d, operands |-> M]
      <4>1. <<>> \in Seq(Seq(Value))
        OBVIOUS
      <4>2. /\ MergesAfter(k, n) \in Seq(Seq(Value))
            /\ Apply(records, db)[k] = [base |-> BaseOf(records[n]), operands |-> <<>> \o MergesAfter(k, n)]
        BY <1>1, <2>4, <3>1, <3>3, <4>1, BatchDoes
      <4>3. <<>> \o MergesAfter(k, n) = MergesAfter(k, n)
        BY <4>2, ConcatEmptySeq
      <4>4. QED
        BY <3>3, <4>2, <4>3, Zenon
    <3>5. applied = Resolve(k, [base |-> d, operands |-> M])
      BY <3>4 DEF applied
    <3>6. ~MergeInProgress(k) => GetFromBatch(k) = applied
      BY <2>4, <2>6, <3>1, <3>2, <3>4, <3>5, Zenon DEF GetFromBatch, latest
    <3>7. MergeInProgress(k) => GetFromBatch(k) = Failure
      BY DEF GetFromBatch
    <3>8. GetFromBatchAndDB(k, v) = GetFromBatch(k)
      BY <2>6 DEF GetFromBatchAndDB
    <3>9. QED
      BY <2>5, <3>6, <3>7, <3>8, Zenon DEF applied, v
  <2>7. CASE Bases(k) = {}
    <3>1. Of(k) # {} => GetFromBatch(k) = Failure
      BY <2>7 DEF GetFromBatch
    <3>2. MergeInProgress(k) => GetFromBatchAndDB(k, v) = Failure
      BY <3>1 DEF GetFromBatchAndDB, GetFromBatch
    <3>3. PICK d \in Data, o \in Seq(Seq(Value)) : d = db[k].base /\ o = db[k].operands
      <4>1. db[k] \in Stack
        BY <2>1 DEF Stacks
      <4>2. QED
        BY <4>1, StackIs, Zenon
    <3>4. n = 0
      BY <2>4, <2>7
    <3>5. PICK M \in Seq(Seq(Value)) :
            M = MergesAfter(k, 0) /\ Apply(records, db)[k] = [base |-> d, operands |-> o \o M]
      <4>1. /\ MergesAfter(k, n) \in Seq(Seq(Value))
            /\ Apply(records, db)[k] = [base |-> d, operands |-> o \o MergesAfter(k, n)]
        BY <1>1, <2>4, <3>3, <3>4, BatchDoes
      <4>2. QED
        BY <3>4, <4>1
    <3>6. applied = IF o \o M # <<>> /\ Refuses(k, Held(d, o \o M)) THEN Failure ELSE Held(d, o \o M)
      <4>1. o \o M \in Seq(Seq(Value))
        BY ConcatProperties
      <4>2. QED
        BY <3>5, <4>1, ResolveIs DEF applied
    <3>7. Held(d, o \o M) = Held(Held(d, o), M)
      BY HeldInParts
    <3>8. ~MergeInProgress(k) =>
            GetFromBatchAndDB(k, v) = IF v = Failure THEN Failure
                                      ELSE Resolve(k, [base |-> v, operands |-> M])
      BY <2>7, <3>5, Zenon DEF GetFromBatchAndDB
    <3>9. v = IF o # <<>> /\ Refuses(k, Held(d, o)) THEN Failure ELSE Held(d, o)
      <4>1. db[k] = [base |-> d, operands |-> o]
        <5>1. db[k] \in Stack
          BY <2>1 DEF Stacks
        <5>2. QED
          BY <3>3, <5>1, StackIs, Zenon
      <4>2. QED
        BY <4>1, ResolveIs DEF v
    <3>10. Held(d, o) \in Data /\ Held(d, o) # Failure
      BY <2>3, HeldIs
    <3>11. o \o M # <<>> <=> o # <<>> \/ M # <<>>
      BY ConcatEqualIffEmpty
    <3>12. ASSUME ~MergeInProgress(k), v = Failure PROVE applied = Failure
      <4>1. o # <<>> /\ Refuses(k, Held(d, o))
        BY <3>9, <3>10, <3>12, Zenon
      <4>2. PICK w \in Seq(Value), m \in Seq(Value) : w = Held(d, o) /\ m = FlattenSeq(M)
        BY <4>1, HeldIs, FlattenConcat, Zenon
      <4>3. OrEmpty(w) = w /\ w \in Data
        BY NilAssumption, Zenon DEF OrEmpty, Data
      <4>4. Held(d, o \o M) = w \/ Held(d, o \o M) = w \o m
        <5>1. Held(w, M) = w \/ Held(w, M) = OrEmpty(w) \o m
          BY <4>2, <4>3, HeldIs
        <5>2. QED
          BY <3>7, <4>2, <4>3, <5>1, Zenon
      <4>5. Refuses(k, Held(d, o \o M))
        BY <4>1, <4>2, <4>4, RefusesMore, Zenon
      <4>6. QED
        BY <3>6, <3>11, <4>1, <4>5, Zenon
    <3>13. ASSUME ~MergeInProgress(k), v # Failure PROVE GetFromBatchAndDB(k, v) = applied
      <4>1. v = Held(d, o) /\ ~(o # <<>> /\ Refuses(k, Held(d, o)))
        BY <3>9, <3>13, Zenon
      <4>2. GetFromBatchAndDB(k, v) = Resolve(k, [base |-> v, operands |-> M])
        BY <3>8, <3>13, Zenon
      <4>3. Resolve(k, [base |-> v, operands |-> M])
              = IF M # <<>> /\ Refuses(k, Held(v, M)) THEN Failure ELSE Held(v, M)
        BY <3>10, <4>1, ResolveIs
      <4>4. M = <<>> => Held(v, M) = v
        BY <3>10, <4>1, HeldIs
      <4>5. QED
        BY <3>6, <3>7, <3>11, <4>1, <4>2, <4>3, <4>4, Zenon
    <3>14. ~MergeInProgress(k) => GetFromBatchAndDB(k, v) = applied
      BY <3>8, <3>12, <3>13, Zenon
    <3>15. QED
      BY <2>5, <3>1, <3>2, <3>14, Zenon DEF applied, v
  <2>8. QED
    BY <2>6, <2>7
<1>2. WriteInv => ReadsAsApplied
  BY <1>1, Zenon DEF ReadsAsApplied
<1>3. QED
  BY <1>2, WriteInvariant, PTL

-----------------------------------------------------------------------------
(* A batch is one that can be put back.                                    *)

\* The batch as it was at each save point.
Copies == [i \in 1..Len(saves) |-> SubSeq(records, 1, saves[i].size)]

\* The first records of a list are the same in each list that begins alike.
LEMMA BeginAlike ==
  ASSUME NEW S, NEW s \in Seq(S), NEW t \in Seq(S), NEW n \in 0..Len(s), n <= Len(t),
         \A i \in 1..n : s[i] = t[i]
  PROVE  /\ SubSeq(s, 1, n) = SubSeq(t, 1, n) /\ SubSeq(s, 1, n) \in Seq(S)
         /\ SubSeq(s, 1, n) = [i \in 1..n |-> s[i]]
BY DEF SubSeq

LEMMA CopiesAre ==
  ASSUME BatchInv
  PROVE  /\ Copies \in Seq(Seq(Record)) /\ Len(Copies) = Len(saves) /\ Len(saves) \in Nat
         /\ \A i \in 1..Len(saves) : /\ saves[i].size \in 0..Len(records)
                                     /\ Copies[i] = SubSeq(records, 1, saves[i].size)
<1>1. records \in Seq(Record) /\ saves \in Seq(Saved) /\ Len(saves) \in Nat
  BY DEF BatchInv
<1>2. ASSUME NEW i \in 1..Len(saves)
      PROVE  saves[i].size \in 0..Len(records) /\ SubSeq(records, 1, saves[i].size) \in Seq(Record)
  <2>1. PICK n \in 0..Len(records) : n = saves[i].size
    BY DEF BatchInv, HeaderTells, True
  <2>2. SubSeq(records, 1, n) \in Seq(Record)
    BY <1>1, BeginAlike
  <2>3. QED
    BY <2>1, <2>2
<1>3. Copies \in [1..Len(saves) -> Seq(Record)]
  BY <1>2 DEF Copies
<1>4. Copies \in Seq(Seq(Record)) /\ Len(Copies) = Len(saves)
  BY <1>1, <1>3
<1>5. QED
  BY <1>1, <1>2, <1>4 DEF Copies

\* The copies stay as long as the records do that they are of.
LEMMA CopiesStay ==
  ASSUME BatchInv, BatchInv', NEW n \in 0..Len(saves), n <= Len(saves'),
         \A i \in 1..n : /\ saves'[i] = saves[i]
                         /\ saves[i].size <= Len(records')
                         /\ \A j \in 1..saves[i].size : records'[j] = records[j]
  PROVE  \A i \in 1..n : Copies'[i] = Copies[i]
<1> SUFFICES ASSUME NEW i \in 1..n PROVE Copies'[i] = Copies[i]
  OBVIOUS
<1>1. records \in Seq(Record) /\ records' \in Seq(Record) /\ Len(saves) \in Nat /\ Len(saves') \in Nat
  BY DEF BatchInv
<1>2. i \in 1..Len(saves) /\ i \in 1..Len(saves')
  BY <1>1
<1>3. PICK m \in 0..Len(records) : m = saves[i].size /\ Copies[i] = SubSeq(records, 1, m)
  BY <1>2, CopiesAre
<1>4. Copies'[i] = SubSeq(records', 1, m)
  BY <1>2, <1>3 DEF Copies
<1>5. SubSeq(records, 1, m) = SubSeq(records', 1, m)
  BY <1>1, <1>3, BeginAlike
<1>6. QED
  BY <1>3, <1>4, <1>5

LEMMA SameCardinality == \A S : Abstract!Cardinality(S) = Cardinality(S)
BY DEF Cardinality, Abstract!Cardinality

LEMMA SummaryTells ==
  ASSUME BatchInv'
  PROVE  Abstract!Summary'
<1>1. True(Header, Len(records))'
  BY DEF BatchInv, HeaderTells
<1>2. count' = CountOf(records', Len(records')) /\ flags' = FlagsOf(records', Len(records'))
  BY <1>1 DEF True, Header
<1>3. QED
  BY <1>2, SameCardinality, Zenon DEF CountOf, FlagsOf, Abstract!Summary

LEMMA AddRefines ==
  ASSUME BatchInv, BatchInv', NEW r \in Record, Add(r)
  PROVE  Abstract!AddTo
<1>1. records' = Append(records, r) /\ UNCHANGED <<saves, db>> /\ records \in Seq(Record)
  BY DEF Add, BatchInv
<1>2. \A i \in 1..Len(saves) : saves[i].size \in 0..Len(records)
  BY CopiesAre
<1>3. PICK l \in Nat : l = Len(records)
  BY <1>1
<1>4. Len(records') = l + 1 /\ \A j \in 1..l : records'[j] = records[j]
  BY <1>1, <1>3
<1>5. PICK n \in Nat : n = Len(saves) /\ n = Len(saves')
  BY <1>1 DEF BatchInv
<1>6. \A i \in 1..n : Copies'[i] = Copies[i]
  <2>1. n \in 0..Len(saves) /\ n <= Len(saves')
    BY <1>5
  <2>2. \A i \in 1..n : /\ saves'[i] = saves[i] /\ saves[i].size <= Len(records')
                        /\ \A j \in 1..saves[i].size : records'[j] = records[j]
    BY <1>1, <1>2, <1>3, <1>4, <1>5
  <2>3. QED
    BY <2>1, <2>2, CopiesStay
<1>7. Copies' = Copies
  <2>1. Copies = [i \in 1..n |-> Copies[i]] /\ Copies' = [i \in 1..n |-> Copies'[i]]
    BY <1>5 DEF Copies
  <2>2. QED
    BY <1>6, <2>1
<1>8. QED
  BY <1>1, <1>7 DEF Abstract!AddTo, Copies, Contents

LEMMA SaveRefines ==
  ASSUME BatchInv, BatchInv', SetSavePoint
  PROVE  Abstract!Save
<1>1. saves' = Append(saves, Header) /\ UNCHANGED <<records, db>>
  BY DEF SetSavePoint, batchVars, Header
<1>2. PICK n \in Nat : n = Len(saves)
  BY DEF BatchInv
<1>3. /\ Len(saves') = n + 1 /\ saves'[n + 1] = Header /\ \A i \in 1..n : saves'[i] = saves[i]
      /\ records \in Seq(Record)
  BY <1>1, <1>2 DEF BatchInv
<1>4. \A i \in 1..n : Copies'[i] = Copies[i]
  <2>1. \A i \in 1..Len(saves) : saves[i].size \in 0..Len(records)
    BY CopiesAre
  <2>2. n \in 0..Len(saves) /\ n <= Len(saves')
    BY <1>2, <1>3
  <2>3. \A i \in 1..n : /\ saves'[i] = saves[i] /\ saves[i].size <= Len(records')
                        /\ \A j \in 1..saves[i].size : records'[j] = records[j]
    BY <1>1, <1>2, <1>3, <2>1
  <2>4. QED
    BY <2>2, <2>3, CopiesStay
<1>5. Copies'[n + 1] = records
  <2>1. Copies'[n + 1] = SubSeq(records, 1, Len(records))
    BY <1>1, <1>3 DEF Copies, Header
  <2>2. QED
    BY <1>3, <2>1, SubSeqFull
<1>6. Copies' = Append(Copies, records)
  <2>1. Copies \in Seq(Seq(Record)) /\ Len(Copies) = n
    BY <1>2, CopiesAre
  <2>2. Copies' \in Seq(Seq(Record)) /\ Len(Copies') = n + 1
    <3>1. Copies' = [i \in 1..(n + 1) |-> Copies'[i]]
      BY <1>3 DEF Copies
    <3>2. \A i \in 1..(n + 1) : Copies'[i] \in Seq(Record)
      BY <1>3, <1>4, <1>5, <2>1
    <3>3. QED
      BY <3>1, <3>2
  <2>3. QED
    BY <1>3, <1>4, <1>5, <2>1, <2>2
<1>7. QED
  BY <1>1, <1>6 DEF Abstract!Save, Copies, Contents

\* The latest save point goes, and the copies at the others stay.
LEMMA CopiesGo ==
  ASSUME BatchInv, BatchInv', saves # <<>>, saves' = Front(saves),
         \A i \in 1..Len(saves') : /\ saves[i].size <= Len(records')
                                   /\ \A j \in 1..saves[i].size : records'[j] = records[j]
  PROVE  Copies # <<>> /\ Copies' = SubSeq(Copies, 1, Len(Copies) - 1)
<1>1. /\ Len(saves) \in Nat \ {0} /\ Len(saves') = Len(saves) - 1
      /\ \A i \in 1..Len(saves') : saves'[i] = saves[i]
  BY FrontKeeps DEF BatchInv
<1>2. PICK n \in Nat : Len(saves) = n + 1 /\ Len(saves') = n
  BY <1>1
<1>3. \A i \in 1..n : Copies'[i] = Copies[i]
  BY <1>1, <1>2, CopiesStay
<1>4. Copies \in Seq(Seq(Record)) /\ Len(Copies) = n + 1
  BY <1>2, CopiesAre
<1>5. SubSeq(Copies, 1, n) = [i \in 1..n |-> Copies[i]]
  BY <1>4, BeginAlike
<1>6. Copies' = [i \in 1..n |-> Copies'[i]]
  BY <1>2 DEF Copies
<1>7. Copies' = SubSeq(Copies, 1, n)
  BY <1>3, <1>5, <1>6
<1>8. Copies # <<>> /\ Len(Copies) - 1 = n
  BY <1>4
<1>9. QED
  BY <1>7, <1>8

LEMMA RollbackRefines ==
  ASSUME BatchInv, BatchInv', RollbackToSavePoint
  PROVE  Abstract!Restore
<1>1. /\ saves # <<>> /\ saves' = Front(saves) /\ UNCHANGED db
      /\ records' = SubSeq(records, 1, Last(saves).size)
  BY DEF RollbackToSavePoint
<1>2. Len(saves) \in Nat \ {0} /\ Len(saves') = Len(saves) - 1 /\ records \in Seq(Record)
  BY <1>1, FrontKeeps DEF BatchInv
<1>3. PICK l \in 1..Len(saves) : l = Len(saves) /\ Last(saves) = saves[l]
  BY <1>2 DEF Last
<1>4. PICK n \in 0..Len(records) : n = saves[l].size /\ Copies[l] = SubSeq(records, 1, n)
  BY <1>3, CopiesAre
<1>5. Len(records') = n /\ \A j \in 1..n : records'[j] = records[j]
  BY <1>1, <1>2, <1>3, <1>4
<1>6. ASSUME NEW i \in 1..Len(saves')
      PROVE  saves[i].size \in Nat /\ saves[i].size <= n
  <2>1. i \in 1..Len(saves) /\ l \in i..Len(saves)
    BY <1>2, <1>3
  <2>2. QED
    <3>1. saves[i].size \in 0..Len(records)
      BY <2>1, CopiesAre
    <3>2. saves[i].size <= saves[l].size
      BY <2>1 DEF BatchInv, Nested
    <3>3. QED
      BY <1>4, <3>1, <3>2
<1>7. Copies # <<>> /\ Copies' = SubSeq(Copies, 1, Len(Copies) - 1)
  <2>1. n \in Nat
    BY <1>2, <1>4
  <2>2. \A i \in 1..Len(saves') : /\ saves[i].size <= Len(records')
                                  /\ \A j \in 1..saves[i].size : records'[j] = records[j]
    BY <1>5, <1>6, <2>1
  <2>3. QED
    BY <1>1, <2>2, CopiesGo
<1>8. records' = Copies[Len(Copies)]
  BY <1>1, <1>3, <1>4, CopiesAre
<1>9. QED
  BY <1>1, <1>7, <1>8 DEF Abstract!Restore, Copies, Contents

LEMMA PopRefines ==
  ASSUME BatchInv, BatchInv', PopSavePoint
  PROVE  Abstract!Forget
<1>1. saves # <<>> /\ saves' = Front(saves) /\ UNCHANGED <<records, db>>
  BY DEF PopSavePoint, batchVars
<1>2. \A i \in 1..Len(saves') : saves[i].size <= Len(records')
  <2>1. Len(saves) \in Nat \ {0} /\ Len(saves') = Len(saves) - 1 /\ Len(records) \in Nat
    BY <1>1, FrontKeeps DEF BatchInv
  <2>2. QED
    <3>1. \A i \in 1..Len(saves) : saves[i].size \in 0..Len(records)
      BY CopiesAre
    <3>2. QED
      BY <1>1, <2>1, <3>1
<1>3. Copies # <<>> /\ Copies' = SubSeq(Copies, 1, Len(Copies) - 1)
  BY <1>1, <1>2, CopiesGo
<1>4. QED
  BY <1>1, <1>3 DEF Abstract!Forget, Copies, Contents

LEMMA OtherWriteRefines ==
  ASSUME WriteInv, WriteInv', NEW k \in Key, NEW v \in Written, OtherWrite(k, v)
  PROVE  Abstract!Others
<1>1. /\ db' = [db EXCEPT ![k] = [base |-> v, operands |-> <<>>]]
      /\ UNCHANGED <<records, saves>>
  BY DEF OtherWrite, batchVars
<1>2. db \in Stacks /\ db' \in Stacks
  BY DEF WriteInv, Bounds
<1>3. v \in Data
  <2>1. v = Nil \/ \E w \in Value : v = <<w>>
    BY DEF Written
  <2>2. \A w \in Value : <<w>> \in Data
    BY DEF Data
  <2>3. Nil \in Data
    BY DEF Data
  <2>4. QED
    BY <2>1, <2>2, <2>3, Zenon
<1>4. Held(v, <<>>) = v
  <2>1. <<>> \in Seq(Seq(Value))
    OBVIOUS
  <2>2. QED
    BY <1>3, <2>1, HeldIs
<1>5. db'[k].base = v /\ db'[k].operands = <<>> /\ \A j \in Key : j # k => db'[j] = db[j]
  BY <1>1, <1>2 DEF Stacks
<1>6. Contents(db')[k] = v
  <2>1. Contents(db')[k] = Held(db'[k].base, db'[k].operands)
    BY <1>2, ContentsType
  <2>2. QED
    BY <1>4, <1>5, <2>1, Zenon
<1>7. \A j \in Key : j # k => Contents(db')[j] = Contents(db)[j]
  BY <1>2, <1>5, ContentsType, Zenon
<1>8. Contents(db') \in [Key -> Data] /\ Contents(db) \in [Key -> Data]
  BY <1>2, ContentsType
<1>9. Contents(db') = [Contents(db) EXCEPT ![k] = v] /\ k \in DOMAIN Contents(db)
  BY <1>6, <1>7, <1>8
<1>10. Contents(db)' = Contents(db')
  BY DEF Contents
<1>11. QED
  BY <1>1, <1>9, <1>10 DEF Abstract!Others

LEMMA CompactStutters ==
  ASSUME WriteInv, NEW k \in Key, Compact(k)
  PROVE  UNCHANGED <<records, saves, count, flags>> /\ Contents(db)' = Contents(db)
<1>1. UNCHANGED <<records, saves, count, flags>>
  BY DEF Compact, batchVars
<1>2. PICK s \in Compactions(k, db[k]) : db' = [db EXCEPT ![k] = s]
  BY DEF Compact
<1>3. db \in Stacks /\ db[k] \in Stack
  BY DEF WriteInv, Bounds, Stacks
<1>4. Held(s.base, s.operands) = Held(db[k].base, db[k].operands) /\ s \in Stack
  BY <1>3, CompactionsKeep DEF Same
<1>5. db'[k] = s /\ \A j \in Key : j # k => db'[j] = db[j]
  BY <1>2, <1>3 DEF Stacks
<1>6. \A j \in Key : Held(db'[j].base, db'[j].operands) = Held(db[j].base, db[j].operands)
  BY <1>4, <1>5, Zenon
<1>7. db' \in Stacks
  BY <1>2, <1>3, <1>4 DEF Stacks
<1>8. Contents(db') = Contents(db)
  <2>1. \A j \in Key : Contents(db')[j] = Contents(db)[j]
    BY <1>3, <1>6, <1>7, ContentsType, Zenon
  <2>2. /\ Contents(db') = [j \in Key |-> Contents(db')[j]]
        /\ Contents(db) = [j \in Key |-> Contents(db)[j]]
    BY DEF Contents
  <2>3. QED
    BY <2>1, <2>2, Zenon
<1>9. Contents(db)' = Contents(db')
  BY DEF Contents
<1>10. QED
  BY <1>1, <1>8, <1>9

LEMMA StepRefines ==
  ASSUME WriteInv, WriteInv', [Next]_vars
  PROVE  [Abstract!Next]_(Abstract!vars)
<1> BatchInv /\ BatchInv'
  BY DEF WriteInv
<1>1. ASSUME UNCHANGED <<records, saves, count, flags>>, Contents(db)' = Contents(db)
      PROVE  UNCHANGED Abstract!vars
  BY <1>1 DEF Abstract!vars
<1>2. CASE UNCHANGED <<records, saves, count, flags, db>>
  BY <1>1, <1>2 DEF Contents
<1>3. ASSUME NEW r \in Record, Add(r) PROVE Abstract!Next
  BY <1>3, AddRefines, SummaryTells DEF Abstract!Next
<1>4. ASSUME NEW k \in Key, NEW v \in Value, SetData(k, v) \/ MergeData(k, v) PROVE Abstract!Next
  BY <1>3, <1>4 DEF SetData, MergeData, Record
<1>5. ASSUME NEW k \in Key, DeleteData(k) \/ SingleDelete(k) PROVE Abstract!Next
  BY <1>3, <1>5 DEF DeleteData, SingleDelete, Record
<1>6. ASSUME NEW b \in Key, NEW e \in RangeEnd, DeleteRange(b, e) PROVE Abstract!Next
  BY <1>3, <1>6 DEF DeleteRange, Record
<1>7. CASE PutLogData
  BY <1>3, <1>7 DEF PutLogData, Record
<1>8. CASE Clear
  <2>1. records' = <<>> /\ saves' = <<>> /\ UNCHANGED db
    BY <1>8 DEF Clear
  <2>2. Copies' = <<>>
    BY <2>1 DEF Copies
  <2>3. Abstract!Empty
    BY <2>1, <2>2 DEF Abstract!Empty, Copies, Contents
  <2>4. QED
    BY <2>3, SummaryTells DEF Abstract!Next
<1>9. CASE SetSavePoint
  <2>1. UNCHANGED <<count, flags>>
    BY <1>9 DEF SetSavePoint, batchVars
  <2>2. QED
    BY <1>9, <2>1, SaveRefines DEF Abstract!Next
<1>10. CASE RollbackToSavePoint
  BY <1>10, RollbackRefines, SummaryTells DEF Abstract!Next
<1>11. CASE PopSavePoint
  <2>1. UNCHANGED <<count, flags>>
    BY <1>11 DEF PopSavePoint, batchVars
  <2>2. QED
    BY <1>11, <2>1, PopRefines DEF Abstract!Next
<1>12. CASE ApplyWriteBatch
  <2>1. db' = Apply(records, db) /\ UNCHANGED <<records, saves, count, flags>>
    BY <1>12 DEF ApplyWriteBatch, batchVars
  <2>2. Contents(Apply(records, db)) = ApplyToContents(records, Contents(db))
    BY ContentsOfApply DEF WriteInv, BatchInv, Bounds
  <2>3. Contents(db)' = Contents(db')
    BY DEF Contents
  <2>4. Abstract!ApplyAll
    BY <2>1, <2>2, <2>3 DEF Abstract!ApplyAll
  <2>5. QED
    BY <2>1, <2>4 DEF Abstract!Next
<1>13. ASSUME NEW k \in Key, Compact(k) PROVE UNCHANGED Abstract!vars
  BY <1>1, <1>13, CompactStutters
<1>14. ASSUME NEW k \in Key, NEW v \in Written, OtherWrite(k, v) PROVE Abstract!Next
  <2>1. UNCHANGED <<count, flags>>
    BY <1>14 DEF OtherWrite, batchVars
  <2>2. QED
    BY <1>14, <2>1, OtherWriteRefines DEF Abstract!Next
<1>15. QED
  BY <1>1, <1>2, <1>4, <1>5, <1>6, <1>7, <1>8, <1>9, <1>10, <1>11, <1>12, <1>13, <1>14
  DEF Next, vars, batchVars, RefusedUpdate, DeleteRangeUnsupported, SetMaxBytes, NoSavePoint, ApplyFails

\* Save points, pops and rollbacks bring back exactly the batch each was set
\* at, -count and -hasPut and its siblings tell of it, and the database
\* changes as a whole, whenever and in whatever parts operands are merged.
THEOREM BatchCanBePutBack == Spec => IsBatch
<1>1. Init => Abstract!Init
  <2> SUFFICES ASSUME Init PROVE Abstract!Init
    OBVIOUS
  <2>1. records = <<>> /\ saves = <<>> /\ count = 0 /\ flags = {}
    BY DEF Init
  <2>2. Copies = <<>>
    BY <2>1 DEF Copies
  <2>3. Abstract!Summary
    BY <2>1, NoRecords, SameCardinality DEF Abstract!Summary, CountOf, FlagsOf
  <2>4. QED
    BY <2>1, <2>2, <2>3 DEF Abstract!Init, Copies
<1>2. WriteInv /\ WriteInv' /\ [Next]_vars => [Abstract!Next]_(Abstract!vars)
  BY StepRefines
<1>3. QED
  BY <1>1, <1>2, WriteInvariant, PTL DEF Spec, IsBatch, Abstract!Spec

-----------------------------------------------------------------------------
(* Enumerating an indexed batch.                                           *)

\* s lists the numbers of S in the order R.
Sorts(s, n, S, R) ==
  /\ s \in [1..n -> S]
  /\ \A i \in S : \E p \in 1..n : s[p] = i
  /\ \A p, q \in 1..n : p < q => <<s[p], s[q]>> \in R

\* A list in order and a number more.
LEMMA InsertSorted ==
  ASSUME NEW S, NEW R, NEW x, x \notin S, NEW n \in Nat, NEW s, Sorts(s, n, S, R),
         \A i \in S : <<i, x>> \in R \/ <<x, i>> \in R,
         \A i, j \in S : <<i, j>> \in R /\ <<j, x>> \in R => <<i, x>> \in R,
         \A i, j \in S : <<x, i>> \in R /\ <<i, j>> \in R => <<x, j>> \in R
  PROVE  \E t : Sorts(t, n + 1, S \cup {x}, R)
<1>1. PICK m \in 0..n : /\ m = 0 \/ <<s[m], x>> \in R
                        /\ \A p \in 1..n : p > m => <<x, s[p]>> \in R
  <2> DEFINE D == {p \in 0..n : p = 0 \/ <<s[p], x>> \in R}
  <2>1. PICK m \in D : \A p \in D : p <= m
    <3>1. 0 \in D /\ D \in SUBSET (0..n)
      OBVIOUS
    <3> HIDE DEF D
    <3>2. QED
      BY <3>1, LargestExists
  <2>2. \A p \in 1..n : p > m => p \notin D
    BY <2>1
  <2>3. \A p \in 1..n : p > m => <<x, s[p]>> \in R
    <3> SUFFICES ASSUME NEW p \in 1..n, p > m PROVE <<x, s[p]>> \in R
      OBVIOUS
    <3>1. s[p] \in S
      BY DEF Sorts
    <3>2. <<s[p], x>> \notin R
      BY <2>2
    <3>3. QED
      BY <3>1, <3>2
  <2>4. QED
    BY <2>1, <2>3
<1>2. /\ s \in [1..n -> S]
      /\ \A i \in S : \E p \in 1..n : s[p] = i
      /\ \A p, q \in 1..n : p < q => <<s[p], s[q]>> \in R
  BY DEF Sorts
<1>3. \A p \in 1..n : p <= m => <<s[p], x>> \in R
  <2> SUFFICES ASSUME NEW p \in 1..n, p <= m PROVE <<s[p], x>> \in R
    OBVIOUS
  <2>1. CASE p = m
    BY <1>1, <2>1
  <2>2. CASE p < m
    <3>1. m \in 1..n /\ <<s[p], s[m]>> \in R /\ <<s[m], x>> \in R
      BY <1>1, <1>2, <2>2
    <3>2. s[p] \in S /\ s[m] \in S
      BY <1>2, <3>1
    <3>3. QED
      BY <3>1, <3>2
  <2>3. QED
    BY <2>1, <2>2
<1> DEFINE t == [p \in 1..(n + 1) |-> IF p <= m THEN s[p] ELSE IF p = m + 1 THEN x ELSE s[p - 1]]
<1>4. /\ \A p \in 1..m : p \in 1..n /\ p \in 1..(n + 1) /\ t[p] = s[p]
      /\ m + 1 \in 1..(n + 1) /\ t[m + 1] = x
      /\ \A p \in (m + 1)..n : p \in 1..n /\ p + 1 \in 1..(n + 1) /\ t[p + 1] = s[p]
      /\ \A p \in 1..(n + 1) : p \in 1..m \/ p = m + 1 \/ p - 1 \in (m + 1)..n
      /\ \A p \in 1..n : p \in 1..m \/ p \in (m + 1)..n
  OBVIOUS
<1>5. t \in [1..(n + 1) -> S \cup {x}]
  BY <1>2
<1>6. ASSUME NEW i \in S \cup {x} PROVE \E p \in 1..(n + 1) : t[p] = i
  <2>1. CASE i = x
    BY <1>4, <2>1
  <2>2. CASE i # x
    <3>1. PICK p \in 1..n : s[p] = i
      BY <1>2, <2>2
    <3>2. QED
      BY <1>4, <3>1
  <2>3. QED
    BY <2>1, <2>2
<1>7. ASSUME NEW p \in 1..(n + 1), NEW q \in 1..(n + 1), p < q
      PROVE  <<t[p], t[q]>> \in R
  <2>1. CASE p \in 1..m
    <3>1. p \in 1..n /\ t[p] = s[p] /\ <<s[p], x>> \in R
      BY <1>3, <1>4, <2>1
    <3>2. CASE q \in 1..m
      BY <1>2, <1>4, <1>7, <3>1, <3>2
    <3>3. CASE q = m + 1
      BY <1>4, <3>1, <3>3
    <3>4. CASE q - 1 \in (m + 1)..n
      <4>1. q - 1 \in 1..n /\ t[q] = s[q - 1] /\ p < q - 1
        BY <2>1, <3>4
      <4>2. QED
        BY <1>2, <3>1, <4>1
    <3>5. QED
      BY <1>4, <3>2, <3>3, <3>4
  <2>2. CASE p = m + 1
    <3>1. q - 1 \in 1..n /\ q - 1 > m /\ t[q] = s[q - 1] /\ t[p] = x
      BY <1>7, <2>2
    <3>2. QED
      BY <1>1, <3>1
  <2>3. CASE p - 1 \in (m + 1)..n
    <3>1. p - 1 \in 1..n /\ q - 1 \in 1..n /\ t[p] = s[p - 1] /\ t[q] = s[q - 1] /\ p - 1 < q - 1
      BY <1>7, <2>3
    <3>2. QED
      BY <1>2, <3>1
  <2>4. QED
    BY <1>4, <2>1, <2>2, <2>3
<1> HIDE DEF t
<1>8. QED
  BY <1>5, <1>6, <1>7 DEF Sorts

\* Numbers up to N can be listed in any order that is total and transitive.
LEMMA SortedExists ==
  ASSUME NEW N \in Nat, NEW S \in SUBSET (1..N), NEW R,
         \A i, j \in S : i # j => <<i, j>> \in R \/ <<j, i>> \in R,
         \A i, j, k \in S : <<i, j>> \in R /\ <<j, k>> \in R => <<i, k>> \in R
  PROVE  \E n \in Nat : \E s : Sorts(s, n, S, R)
<1> DEFINE P == {m \in 0..N : \E n \in Nat : \E s : Sorts(s, n, S \cap 1..m, R)}
<1>1. 0 \in P
  <2>1. S \cap 1..0 = {} /\ 1..0 = {}
    OBVIOUS
  <2>2. Sorts([p \in 1..0 |-> p], 0, {}, R)
    BY <2>1 DEF Sorts
  <2>3. QED
    BY <2>1, <2>2
<1>2. ASSUME NEW m \in 1..N, m - 1 \in P PROVE m \in P
  <2>0. PICK n \in Nat : \E s : Sorts(s, n, S \cap 1..(m - 1), R)
    BY <1>2
  <2>1. PICK s : Sorts(s, n, S \cap 1..(m - 1), R)
    BY <2>0
  <2>2. CASE m \notin S
    <3>1. S \cap 1..(m - 1) = S \cap 1..m
      BY <2>2
    <3>2. QED
      BY <2>1, <3>1
  <2>3. CASE m \in S
    <3> DEFINE T == S \cap 1..(m - 1)
    <3>1. S \cap 1..m = T \cup {m} /\ m \notin T /\ T \subseteq S /\ \A i \in T : i # m
      BY <2>3
    <3>2. /\ \A i \in T : <<i, m>> \in R \/ <<m, i>> \in R
          /\ \A i, j \in T : <<i, j>> \in R /\ <<j, m>> \in R => <<i, m>> \in R
          /\ \A i, j \in T : <<m, i>> \in R /\ <<i, j>> \in R => <<m, j>> \in R
      BY <2>3, <3>1
    <3> HIDE DEF T
    <3>3. \E t : Sorts(t, n + 1, T \cup {m}, R)
      BY <2>1, <3>1, <3>2, InsertSorted DEF T
    <3>4. n + 1 \in Nat
      OBVIOUS
    <3>5. QED
      BY <3>1, <3>3, <3>4
  <2>4. QED
    BY <2>2, <2>3
<1> HIDE DEF P
<1>3. N \in P
  <2>1. \A m \in 0..N : m \in P
    BY <1>1, <1>2, Induction
  <2>2. QED
    BY <2>1
<1>4. S \cap 1..N = S
  OBVIOUS
<1>5. QED
  BY <1>3, <1>4 DEF P

\* The entries are the places shown, each once, in their order.
LEMMA EntriesAre ==
  ASSUME WriteInv, kind # "plain"
  PROVE  \E n \in Nat :
           /\ Entries \in Seq(1..Len(records)) /\ Len(Entries) = n
           /\ \A p \in 1..n : Entries[p] \in Shown
           /\ \A i \in Shown : \E p \in 1..n : Entries[p] = i
           /\ \A p, q \in 1..n : p < q => Precedes(Entries[p], Entries[q])
<1> DEFINE N == Len(records)
           R == {e \in (1..N) \X (1..N) : Precedes(e[1], e[2])}
<1>1. records \in Seq(Record) /\ N \in Nat /\ Shown \in SUBSET (1..N)
  BY DEF WriteInv, BatchInv, Shown
<1>2. ASSUME NEW i \in Shown PROVE records[i].key \in Nat /\ i \in Nat
  <2>1. i \in 1..N /\ Counted(records[i]) /\ records[i] \in Record /\ ~IsRange(records[i])
    BY <1>1 DEF Shown, WriteInv, Unranged
  <2>2. PICK r \in Record : r = records[i] /\ Counted(r) /\ ~IsRange(r)
    BY <2>1, Zenon
  <2>3. r.key \in Key
    BY <2>2 DEF Record, Counted, IsRange
  <2>4. \A k \in Key : k \in Nat
    BY KeyAssumption
  <2>5. i \in Nat
    BY <1>1, <2>1
  <2>6. QED
    BY <2>2, <2>3, <2>4, <2>5
<1>3. \A i, j \in Shown : <<i, j>> \in R <=> Precedes(i, j)
  BY <1>1
<1>4. \A i, j \in Shown : i # j => Precedes(i, j) \/ Precedes(j, i)
  BY <1>2 DEF Precedes
<1>5. \A i, j, k \in Shown : Precedes(i, j) /\ Precedes(j, k) => Precedes(i, k)
  BY <1>2 DEF Precedes
<1>6. \A i \in Shown : ~Precedes(i, i)
  BY <1>2 DEF Precedes
<1> HIDE DEF R, N
<1>0. PICK n \in Nat : \E s : Sorts(s, n, Shown, R)
  <2>1. \A i, j \in Shown : i # j => <<i, j>> \in R \/ <<j, i>> \in R
    BY <1>3, <1>4
  <2>2. \A i, j, k \in Shown : <<i, j>> \in R /\ <<j, k>> \in R => <<i, k>> \in R
    BY <1>3, <1>5
  <2>3. QED
    BY <1>1, <2>1, <2>2, SortedExists
<1>7. PICK s : Sorts(s, n, Shown, R)
  BY <1>0
<1>8. /\ s \in [1..n -> Shown]
      /\ \A i \in Shown : \E p \in 1..n : s[p] = i
      /\ \A p, q \in 1..n : p < q => Precedes(s[p], s[q])
  BY <1>3, <1>7 DEF Sorts
<1>9. \A p, q \in 1..n : p # q => s[p] # s[q]
  <2> SUFFICES ASSUME NEW p \in 1..n, NEW q \in 1..n, p # q, s[p] = s[q] PROVE FALSE
    OBVIOUS
  <2>1. s[p] \in Shown
    BY <1>8
  <2>2. Precedes(s[p], s[q]) \/ Precedes(s[q], s[p])
    BY <1>8
  <2>3. QED
    BY <1>6, <2>1, <2>2
<1>10. ExistsBijection(1..n, Shown)
  <2>1. s \in Bijection(1..n, Shown)
    BY <1>8, <1>9, Zenon DEF Bijection, Injection, Surjection, IsInjective
  <2>2. QED
    BY <2>1 DEF ExistsBijection
<1>11. Cardinality(Shown) = n /\ IsFiniteSet(Shown)
  BY <1>10, FS_CountingElements, FS_NatBijection
<1>12. /\ s \in SetToSeqs(Shown) /\ Len(s) = n
  BY <1>8, <1>9, <1>11 DEF SetToSeqs
<1>13. /\ Entries \in SetToSeqs(Shown)
       /\ \A p, q \in 1..Len(Entries) : p < q => Precedes(Entries[p], Entries[q])
  <2>1. \A p, q \in 1..Len(s) : p < q => Precedes(s[p], s[q])
    BY <1>8, <1>12
  <2>2. QED
    BY <1>12, <2>1, Zenon DEF Entries
<1>14. Entries \in [1..n -> Shown] /\ \A p, q \in 1..n : p # q => Entries[p] # Entries[q]
  BY <1>11, <1>13 DEF SetToSeqs
<1>15. \A i \in Shown : \E p \in 1..n : Entries[p] = i
  <2>1. Entries \in Injection(1..n, Shown)
    BY <1>14, Zenon DEF Injection, IsInjective
  <2>2. Cardinality(1..n) = n
    BY FS_Interval
  <2>3. Entries \in Surjection(1..n, Shown)
    BY <1>11, <2>1, <2>2, FS_Injection
  <2>4. QED
    BY <2>3 DEF Surjection
<1>16. Entries \in Seq(1..N) /\ Len(Entries) = n
  <2>1. Shown \subseteq 1..N
    BY <1>1
  <2>2. Entries \in [1..n -> 1..N]
    BY <1>14, <2>1
  <2>3. \A T0 : Entries \in [1..n -> T0] => Entries \in Seq(T0) /\ Len(Entries) = n
    OBVIOUS
  <2>4. QED
    BY <2>2, <2>3
<1>17. QED
  BY <1>13, <1>14, <1>15, <1>16 DEF N

\* What a record does to a key depends on nothing but what is there of the key.
LEMMA EffectLocal ==
  ASSUME NEW a, NEW b, NEW r, NEW k \in Key, a[k] = b[k]
  PROVE  Effect(a, r)[k] = Effect(b, r)[k]
BY DEF Effect

\* A stretch of a list.
LEMMA StretchIs ==
  ASSUME NEW T, NEW s \in Seq(T), NEW a \in 1..(Len(s) + 1), NEW b \in 0..Len(s), a <= b + 1
  PROVE  /\ SubSeq(s, a, b) \in Seq(T) /\ Len(SubSeq(s, a, b)) = b - a + 1
         /\ \A j \in 1..(b - a + 1) : SubSeq(s, a, b)[j] = s[a + j - 1]
OBVIOUS

\* The updates of a key alone do to it what the batch does, and so does the
\* latest one alone if it is no merge.
LEMMA Replays ==
  ASSUME WriteInv, kind # "plain", NEW k \in Key, NEW n \in Nat, NEW u \in [1..n -> Of(k)],
         \A p, q \in 1..n : p < q => u[p] < u[q],
         \/ \A i \in Of(k) : \E p \in 1..n : u[p] = i
         \/ /\ n = 1 /\ records[u[1]].type # "merge"
            /\ \A i \in Of(k) : i <= u[1]
  PROVE  Apply([i \in 1..n |-> records[u[i]]], db)[k] = Apply(records, db)[k]
<1> DEFINE N == Len(records)
           replayed == [i \in 1..n |-> records[u[i]]]
           Covers(m, i) == /\ \A p \in 1..m : u[p] <= i
                           /\ \A p \in 1..n : p > m => u[p] > i
<1>1. /\ records \in Seq(Record) /\ db \in Stacks /\ N \in Nat
      /\ \A i \in 1..N : records[i] \in Record /\ ~IsRange(records[i]) /\ i - 1 \in 0..N /\ i \in 0..N
  BY DEF WriteInv, BatchInv, Bounds, Unranged
<1>2. \A i \in 1..N : i \in Of(k) <=> \/ Puts(records[i], k) \/ Merges(records[i], k)
                                      \/ Deletes(records[i], k)
  BY <1>1, RecordOfKey DEF Of
<1>3. \A p \in 1..n : u[p] \in Of(k) /\ u[p] \in 1..N
  BY DEF Of
<1>4. replayed \in Seq(Record) /\ Len(replayed) = n /\ \A p \in 1..n : replayed[p] = records[u[p]]
  <2>1. replayed \in [1..n -> Record]
    BY <1>1, <1>3
  <2>2. QED
    BY <2>1
<1> HIDE DEF N, replayed
<1>5. PICK f : Applies(f, records, db) /\ Apply(records, db) = f[N]
  BY <1>1, ApplyRuns DEF N
<1>6. PICK g : Applies(g, replayed, db) /\ Apply(replayed, db) = g[n]
  BY <1>1, <1>4, ApplyRuns
<1>7. /\ f \in [0..N -> Stacks] /\ f[0] = db
      /\ \A i \in 1..N : f[i] = Effect(f[i - 1], records[i])
      /\ g \in [0..n -> Stacks] /\ g[0] = db
      /\ \A p \in 1..n : g[p] = Effect(g[p - 1], records[u[p]])
  BY <1>4, <1>5, <1>6 DEF Applies, N
<1>8. PICK L \in 0..N : \/ L = 0 /\ \A i \in Of(k) : \E p \in 1..n : u[p] = i
                        \/ /\ L # 0 /\ n = 1 /\ L = u[1] /\ records[L].type # "merge"
                           /\ \A i \in Of(k) : i <= L
  <2>1. CASE \A i \in Of(k) : \E p \in 1..n : u[p] = i
    <3>1. 0 \in 0..N
      BY <1>1
    <3>2. QED
      BY <2>1, <3>1, Zenon
  <2>2. CASE /\ n = 1 /\ records[u[1]].type # "merge"
             /\ \A i \in Of(k) : i <= u[1]
    <3>1. u[1] \in 1..N
      BY <1>3, <2>2
    <3>2. QED
      BY <1>1, <2>2, <3>1
  <2>3. QED
    BY <2>1, <2>2
<1> DEFINE P == {i \in 0..N : i >= L => \A m \in 0..n : Covers(m, i) => f[i][k] = g[m][k]}
<1>9. 0 \in P
  <2>1. ASSUME NEW m \in 0..n, Covers(m, 0) PROVE m = 0
    <3>1. SUFFICES ASSUME m # 0 PROVE FALSE
      OBVIOUS
    <3>2. 1 \in 1..m /\ 1 \in 1..n
      BY <3>1
    <3>3. u[1] <= 0 /\ u[1] \in 1..N
      BY <1>3, <2>1, <3>2
    <3>4. QED
      BY <1>1, <3>3
  <2> HIDE DEF Covers
  <2>2. QED
    BY <1>1, <1>7, <2>1
<1>10. ASSUME NEW i \in 1..N, i - 1 \in P, i >= L, NEW m \in 0..n, Covers(m, i)
       PROVE  f[i][k] = g[m][k]
  <2>1. PICK a \in Stacks, r \in Record : a = f[i - 1] /\ r = records[i] /\ ~IsRange(r)
    <3>1. f[i - 1] \in Stacks /\ records[i] \in Record
      BY <1>1, <1>7
    <3>2. QED
      BY <1>1, <3>1, Zenon
  <2>2. f[i] = Effect(a, r)
    BY <1>7, <2>1
  <2>3. ASSUME i > L, NEW l \in 0..n, Covers(l, i - 1) PROVE a[k] = g[l][k]
    <3> HIDE DEF Covers
    <3>1. i - 1 >= L
      BY <1>1, <2>3
    <3>2. QED
      BY <1>10, <2>1, <2>3, <3>1
  <2>4. CASE i = L
    <3>1. n = 1 /\ u[1] = i /\ r.type # "merge" /\ i \in Of(k)
      BY <1>3, <1>8, <2>1, <2>4
    <3>2. m = 1
      <4>1. m # 0
        BY <1>1, <1>10, <3>1
      <4>2. QED
        BY <3>1, <4>1
    <3>3. g[1] = Effect(db, r)
      <4>1. g[1] = Effect(g[1 - 1], records[u[1]])
        BY <1>7, <3>1
      <4>2. 1 - 1 = 0
        OBVIOUS
      <4>3. QED
        BY <1>7, <2>1, <3>1, <4>1, <4>2, Zenon
    <3>4. ~Merges(r, k) /\ (Puts(r, k) \/ Deletes(r, k))
      BY <1>2, <2>1, <3>1 DEF Merges
    <3>5. Effect(a, r)[k] = Effect(db, r)[k]
      <4>1. CASE Puts(r, k)
        <5>1. Effect(a, r)[k] = [base |-> <<r.value>>, operands |-> <<>>]
          BY <4>1, EffectIs
        <5>2. Effect(db, r)[k] = [base |-> <<r.value>>, operands |-> <<>>]
          BY <1>1, <4>1, EffectIs
        <5>3. QED
          BY <5>1, <5>2, Zenon
      <4>2. CASE Deletes(r, k)
        <5>1. Effect(a, r)[k] = NoValue
          BY <4>2, EffectIs
        <5>2. Effect(db, r)[k] = NoValue
          BY <1>1, <4>2, EffectIs
        <5>3. QED
          BY <5>1, <5>2, Zenon
      <4>3. QED
        BY <3>4, <4>1, <4>2
    <3>6. QED
      BY <2>2, <3>2, <3>3, <3>5, Zenon
  <2>5. CASE i > L /\ \E p \in 1..n : u[p] = i
    <3>1. PICK p \in 1..n : u[p] = i
      BY <2>5
    <3>2. p <= m
      BY <1>10, <3>1
    <3>3. p = m
      <4>1. SUFFICES ASSUME p < m PROVE FALSE
        BY <3>2
      <4>2. u[p] < u[m] /\ u[m] <= i /\ u[m] \in 1..N
        BY <1>3, <1>10, <4>1
      <4>3. QED
        BY <1>1, <3>1, <4>2
    <3>4. m - 1 \in 0..n /\ m \in 1..n
      BY <3>3
    <3>5. Covers(m - 1, i - 1)
      <4>1. ASSUME NEW q \in 1..(m - 1) PROVE u[q] <= i - 1
        <5>1. q \in 1..n /\ q < m
          OBVIOUS
        <5>2. u[q] < i /\ u[q] \in 1..N
          BY <1>3, <3>1, <3>3, <3>4, <5>1
        <5>3. QED
          BY <1>1, <5>2
      <4>2. ASSUME NEW q \in 1..n, q > m - 1 PROVE u[q] > i - 1
        <5>1. q = m \/ q > m
          BY <4>2
        <5>2. CASE q = m
          <6>1. u[q] = i
            BY <3>1, <3>3, <5>2
          <6>2. QED
            BY <1>1, <6>1
        <5>3. CASE q > m
          <6>1. u[q] > i /\ u[q] \in 1..N
            BY <1>3, <1>10, <5>3
          <6>2. QED
            BY <1>1, <6>1
        <5>4. QED
          BY <5>1, <5>2, <5>3
      <4>3. QED
        BY <4>1, <4>2
    <3>6. a[k] = g[m - 1][k]
      BY <2>3, <2>5, <3>4, <3>5
    <3>7. g[m] = Effect(g[m - 1], r)
      BY <1>7, <2>1, <3>1, <3>3, <3>4, Zenon
    <3>8. Effect(a, r)[k] = Effect(g[m - 1], r)[k]
      <4>1. PICK b : b = g[m - 1]
        OBVIOUS
      <4>2. Effect(a, r)[k] = Effect(b, r)[k]
        <5>1. a[k] = b[k] /\ k \in Key
          BY <3>6, <4>1, Zenon
        <5>2. QED
          BY <5>1, EffectLocal
      <4>3. QED
        BY <4>1, <4>2
    <3>9. QED
      BY <2>2, <3>7, <3>8, Zenon
  <2>6. CASE i > L /\ ~\E p \in 1..n : u[p] = i
    <3>1. i \notin Of(k)
      BY <1>1, <1>8, <2>6
    <3>2. Effect(a, r)[k] = a[k]
      BY <1>2, <2>1, <3>1, EffectIs, Zenon
    <3>3. Covers(m, i - 1)
      <4>1. ASSUME NEW q \in 1..m PROVE u[q] <= i - 1
        <5>1. q \in 1..n /\ u[q] # i /\ u[q] <= i
          BY <1>10, <2>6
        <5>2. u[q] \in 1..N
          BY <1>3, <5>1
        <5>3. QED
          BY <1>1, <5>1, <5>2
      <4>2. ASSUME NEW q \in 1..n, q > m PROVE u[q] > i - 1
        BY <1>1, <1>3, <1>10, <4>2
      <4>3. QED
        BY <4>1, <4>2
    <3>4. a[k] = g[m][k]
      BY <2>3, <2>6, <3>3
    <3>5. QED
      BY <2>2, <3>2, <3>4, Zenon
  <2>7. QED
    BY <1>1, <1>10, <2>4, <2>5, <2>6
<1>11. Covers(n, N)
  BY <1>1, <1>3
<1> HIDE DEF Covers
<1>12. N \in P
  <2>1. \A i \in 1..N : i - 1 \in P => i \in P
    BY <1>1, <1>10
  <2> HIDE DEF P
  <2>2. \A i \in 0..N : i \in P
    BY <1>1, <1>9, <2>1, Induction
  <2>3. QED
    BY <1>1, <2>2
<1>13. f[N][k] = g[n][k]
  BY <1>1, <1>11, <1>12
<1>14. QED
  BY <1>5, <1>6, <1>13 DEF replayed

\* Where seeks leave an iterator: the entries of a key are those between.
LEMMA SeeksMeet ==
  ASSUME WriteInv, kind # "plain", NEW k \in Key
  PROVE  \E M \in Nat : \E a \in 1..(M + 1) : \E b \in 0..M :
           /\ Len(Entries) = M /\ a = SeekToKey(k) /\ b = SeekForPrev(k) /\ a <= b + 1
           /\ \A p \in 1..M : KeyAt(p) = k <=> a <= p /\ p <= b
<1>1. PICK M \in Nat :
        /\ Len(Entries) = M
        /\ \A p \in 1..M : Entries[p] \in Shown
        /\ \A p, q \in 1..M : p < q => Precedes(Entries[p], Entries[q])
  BY EntriesAre
<1>2. \A p \in 1..M : KeyAt(p) \in Nat
  <2> SUFFICES ASSUME NEW p \in 1..M PROVE KeyAt(p) \in Nat
    OBVIOUS
  <2>1. PICK i \in 1..Len(records) : i = Entries[p] /\ Counted(records[i])
    BY <1>1 DEF Shown
  <2>2. PICK r \in Record : r = records[i] /\ Counted(r) /\ ~IsRange(r)
    BY <2>1 DEF WriteInv, BatchInv, Unranged
  <2>3. r.key \in Key
    BY <2>2 DEF Record, Counted, IsRange
  <2>4. \A j \in Key : j \in Nat
    BY KeyAssumption
  <2>5. QED
    BY <2>1, <2>2, <2>3, <2>4 DEF KeyAt
<1>3. \A p, q \in 1..M : p < q => KeyAt(p) <= KeyAt(q)
  BY <1>1, <1>2 DEF Precedes, KeyAt
<1>4. k \in Nat
  BY KeyAssumption
<1>5. PICK a \in 1..(M + 1) : /\ a = SeekToKey(k)
                              /\ \A q \in 1..(a - 1) : KeyAt(q) < k
                              /\ a <= M => KeyAt(a) >= k
  <2> DEFINE D == {p \in 1..(M + 1) : p = M + 1 \/ KeyAt(p) >= k}
  <2>1. PICK a \in D : \A p \in D : a <= p
    <3>1. M + 1 \in D /\ D \in SUBSET Nat
      OBVIOUS
    <3> HIDE DEF D
    <3>2. QED
      BY <3>1, LeastExists
  <2>2. ASSUME NEW q \in 1..(a - 1) PROVE KeyAt(q) < k
    <3>1. q \in 1..M /\ q \notin D
      BY <2>1
    <3>2. QED
      BY <1>2, <1>4, <3>1
  <2>3. /\ a \in 1..(Len(Entries) + 1)
        /\ \A q \in 1..(a - 1) : KeyAt(q) < k
        /\ a <= Len(Entries) => KeyAt(a) >= k
    BY <1>1, <2>1, <2>2
  <2> HIDE DEF D
  <2>4. /\ SeekToKey(k) \in 1..(Len(Entries) + 1)
        /\ \A q \in 1..(SeekToKey(k) - 1) : KeyAt(q) < k
        /\ SeekToKey(k) <= Len(Entries) => KeyAt(SeekToKey(k)) >= k
    BY <2>3, Zenon DEF SeekToKey
  <2>5. QED
    BY <1>1, <2>4, Zenon
<1>6. PICK b \in 0..M : /\ b = SeekForPrev(k)
                        /\ \A q \in (b + 1)..M : KeyAt(q) > k
                        /\ b >= 1 => KeyAt(b) <= k
  <2> DEFINE D == {p \in 0..M : p = 0 \/ KeyAt(p) <= k}
  <2>1. PICK b \in D : \A p \in D : p <= b
    <3>1. 0 \in D /\ D \in SUBSET (0..M)
      OBVIOUS
    <3> HIDE DEF D
    <3>2. QED
      BY <3>1, LargestExists
  <2>2. ASSUME NEW q \in (b + 1)..M PROVE KeyAt(q) > k
    <3>1. q \in 1..M /\ q \notin D
      BY <2>1
    <3>2. QED
      BY <1>2, <1>4, <3>1
  <2>3. /\ b \in 0..Len(Entries)
        /\ \A q \in (b + 1)..Len(Entries) : KeyAt(q) > k
        /\ b >= 1 => KeyAt(b) <= k
    BY <1>1, <2>1, <2>2
  <2> HIDE DEF D
  <2>4. /\ SeekForPrev(k) \in 0..Len(Entries)
        /\ \A q \in (SeekForPrev(k) + 1)..Len(Entries) : KeyAt(q) > k
        /\ SeekForPrev(k) >= 1 => KeyAt(SeekForPrev(k)) <= k
    BY <2>3, Zenon DEF SeekForPrev
  <2>5. QED
    BY <1>1, <2>4, Zenon
<1>7. a <= b + 1
  <2>1. SUFFICES ASSUME b + 1 < a PROVE FALSE
    OBVIOUS
  <2>2. a - 1 \in 1..(a - 1) /\ a - 1 \in (b + 1)..M /\ a - 1 \in 1..M
    BY <2>1
  <2>3. KeyAt(a - 1) < k /\ KeyAt(a - 1) > k
    BY <1>5, <1>6, <2>2
  <2>4. QED
    BY <1>2, <1>4, <2>2, <2>3
<1>8. ASSUME NEW p \in 1..M PROVE KeyAt(p) = k <=> a <= p /\ p <= b
  <2>1. CASE p < a
    <3>1. p \in 1..(a - 1)
      BY <2>1
    <3>2. QED
      BY <1>2, <1>4, <1>5, <2>1, <3>1
  <2>2. CASE p > b
    <3>1. p \in (b + 1)..M
      BY <2>2
    <3>2. QED
      BY <1>2, <1>4, <1>6, <2>2, <3>1
  <2>3. CASE a <= p /\ p <= b
    <3>1. a \in 1..M /\ b \in 1..M /\ KeyAt(a) >= k /\ KeyAt(b) <= k
      BY <1>5, <1>6, <2>3
    <3>2. KeyAt(a) <= KeyAt(p) /\ KeyAt(p) <= KeyAt(b)
      BY <1>2, <1>3, <2>3, <3>1
    <3>3. QED
      BY <1>2, <1>4, <2>3, <3>1, <3>2
  <2>4. QED
    BY <2>1, <2>2, <2>3
<1>9. QED
  BY <1>1, <1>5, <1>6, <1>7, <1>8

\* The entries an iterator shows of a key, from either side, are its updates
\* in their order, and replayed they do what the batch does.
THEOREM EntriesTellTheBatch == Spec => []EntriesTellBatch
<1>1. ASSUME WriteInv, kind # "plain", NEW k \in Key, NEW n, NEW updates,
             n = Cardinality({i \in Shown : records[i].key = k}),
             updates = SubSeq(ForwardFrom(k), 1, n)
      PROVE  /\ SubSeq(BackwardFrom(k), 1, n) = Reverse(updates)
             /\ ~MergeInProgress(k) =>
                  Apply([i \in 1..n |-> records[updates[i]]], db)[k] = Apply(records, db)[k]
  <2>1. PICK M \in Nat :
          /\ Entries \in Seq(1..Len(records)) /\ Len(Entries) = M
          /\ \A p \in 1..M : Entries[p] \in Shown
          /\ \A i \in Shown : \E p \in 1..M : Entries[p] = i
          /\ \A p, q \in 1..M : p < q => Precedes(Entries[p], Entries[q])
    BY <1>1, EntriesAre
  <2>2. PICK a \in 1..(M + 1), b \in 0..M :
          /\ a = SeekToKey(k) /\ b = SeekForPrev(k) /\ a <= b + 1
          /\ \A p \in 1..M : KeyAt(p) = k <=> a <= p /\ p <= b
    BY <1>1, <2>1, SeeksMeet
  <2>3. PICK l \in Nat : l = b + 1 - a
    BY <2>2
  <2> DEFINE Ks == {i \in Shown : records[i].key = k}
             u == [j \in 1..l |-> Entries[a + j - 1]]
  <2>4. \A j \in 1..l : /\ a + j - 1 \in 1..M /\ a <= a + j - 1 /\ a + j - 1 <= b
                        /\ u[j] = Entries[a + j - 1]
    BY <2>2, <2>3
  <2>5. u \in [1..l -> Ks]
    <3> SUFFICES ASSUME NEW j \in 1..l PROVE Entries[a + j - 1] \in Ks
      OBVIOUS
    <3>1. KeyAt(a + j - 1) = k /\ Entries[a + j - 1] \in Shown
      BY <2>1, <2>2, <2>4
    <3>2. QED
      BY <3>1 DEF KeyAt
  <2>6. \A i \in Ks : \E j \in 1..l : u[j] = i
    <3> SUFFICES ASSUME NEW i \in Ks PROVE \E j \in 1..l : u[j] = i
      OBVIOUS
    <3>1. PICK p \in 1..M : Entries[p] = i
      BY <2>1
    <3>2. KeyAt(p) = k
      BY <3>1 DEF KeyAt
    <3>3. a <= p /\ p <= b
      BY <2>2, <3>2
    <3>4. p - a + 1 \in 1..l /\ a + (p - a + 1) - 1 = p
      BY <2>2, <2>3, <3>3
    <3>5. QED
      BY <2>4, <3>1, <3>4
  <2>7. Ks \subseteq 1..Len(records) /\ records \in Seq(Record)
    BY <1>1 DEF Shown, WriteInv, BatchInv
  <2>8. \A p, q \in 1..l : p < q => u[p] < u[q]
    <3> SUFFICES ASSUME NEW p \in 1..l, NEW q \in 1..l, p < q PROVE u[p] < u[q]
      OBVIOUS
    <3>1. Precedes(u[p], u[q])
      <4>1. /\ a + p - 1 \in 1..M /\ a + q - 1 \in 1..M /\ a + p - 1 < a + q - 1
            /\ u[p] = Entries[a + p - 1] /\ u[q] = Entries[a + q - 1]
        BY <2>4
      <4> HIDE DEF u
      <4>2. QED
        BY <2>1, <4>1, Zenon
    <3>2. records[u[p]].key = k /\ records[u[q]].key = k
      BY <2>5
    <3>3. k \in Nat
      BY KeyAssumption
    <3> HIDE DEF u
    <3>4. QED
      BY <3>1, <3>2, <3>3 DEF Precedes
  <2> HIDE DEF u
  <2>9. n = l
    <3>1. \A p, q \in 1..l : u[p] = u[q] => p = q
      <4>1. \A p \in 1..l : u[p] \in Nat
        BY <2>5, <2>7
      <4>2. QED
        BY <2>8, <4>1
    <3>2. u \in Bijection(1..l, Ks)
      BY <2>5, <2>6, <3>1, Zenon DEF Bijection, Injection, Surjection, IsInjective
    <3>3. ExistsBijection(1..l, Ks)
      BY <3>2 DEF ExistsBijection
    <3> HIDE DEF Ks
    <3>4. Cardinality(Ks) = l
      BY <3>3, FS_CountingElements
    <3>5. QED
      BY <1>1, <3>4 DEF Ks
  <2>10. updates = u
    <3>1. ForwardFrom(k) = SubSeq(Entries, a, M)
      BY <2>1, <2>2 DEF ForwardFrom
    <3>2. /\ ForwardFrom(k) \in Seq(1..Len(records)) /\ Len(ForwardFrom(k)) = M - a + 1
          /\ \A j \in 1..(M - a + 1) : ForwardFrom(k)[j] = Entries[a + j - 1]
      <4>0. PICK T : T = 1..Len(records)
        OBVIOUS
      <4>1. PICK s \in Seq(T) : s = Entries /\ Len(s) = M
        BY <2>1, <4>0
      <4>2. a \in 1..(Len(s) + 1) /\ M \in 0..Len(s) /\ a <= M + 1
        BY <2>1, <2>2, <4>1
      <4>3. /\ SubSeq(s, a, M) \in Seq(T) /\ Len(SubSeq(s, a, M)) = M - a + 1
            /\ \A j \in 1..(M - a + 1) : SubSeq(s, a, M)[j] = s[a + j - 1]
        BY <4>2, StretchIs
      <4>4. QED
        BY <3>1, <4>0, <4>1, <4>3, Zenon
    <3>3. n \in 0..Len(ForwardFrom(k))
      BY <2>2, <2>3, <2>9, <3>2, SMTT(60)
    <3>4. updates = [j \in 1..n |-> ForwardFrom(k)[j]]
      BY <1>1, <3>2, <3>3, BeginAlike
    <3>5. \A j \in 1..n : j \in 1..(M - a + 1)
      BY <2>2, <2>3, <2>9
    <3>6. QED
      BY <2>9, <3>2, <3>4, <3>5 DEF u
  <2>11. SubSeq(BackwardFrom(k), 1, n) = Reverse(updates)
    <3>1. PICK s \in Seq(1..Len(records)) : /\ s = SubSeq(Entries, 1, b) /\ Len(s) = b
                                            /\ \A j \in 1..b : s[j] = Entries[j]
      <4>1. PICK T : T = 1..Len(records)
        OBVIOUS
      <4>2. PICK t \in Seq(T) : t = Entries /\ Len(t) = M
        BY <2>1, <4>1
      <4>3. 1 \in 1..(Len(t) + 1) /\ b \in 0..Len(t) /\ 1 <= b + 1
        BY <2>2, <4>2
      <4>4. /\ SubSeq(t, 1, b) \in Seq(T) /\ Len(SubSeq(t, 1, b)) = b - 1 + 1
            /\ \A j \in 1..(b - 1 + 1) : SubSeq(t, 1, b)[j] = t[1 + j - 1]
        BY <4>3, StretchIs
      <4>5. PICK s : s = SubSeq(t, 1, b)
        OBVIOUS
      <4>6. s \in Seq(T) /\ Len(s) = b /\ \A j \in 1..b : s[j] = t[j]
        <5>1. b - 1 + 1 = b /\ \A j \in 1..b : 1 + j - 1 = j
          BY <2>2
        <5>2. QED
          BY <4>4, <4>5, <5>1
      <4>7. QED
        BY <4>1, <4>2, <4>5, <4>6, Zenon
    <3>2. BackwardFrom(k) = [j \in 1..b |-> s[b - j + 1]]
      BY <2>2, <3>1 DEF BackwardFrom, Reverse
    <3>3. \A j \in 1..b : b - j + 1 \in 1..b /\ s[b - j + 1] \in 1..Len(records)
      BY <3>1
    <3>4. BackwardFrom(k) \in Seq(1..Len(records)) /\ Len(BackwardFrom(k)) = b
      <4>1. \A T : [j \in 1..b |-> s[b - j + 1]] \in [1..b -> T]
              => [j \in 1..b |-> s[b - j + 1]] \in Seq(T) /\ Len([j \in 1..b |-> s[b - j + 1]]) = b
        OBVIOUS
      <4>2. [j \in 1..b |-> s[b - j + 1]] \in [1..b -> 1..Len(records)]
        BY <3>3
      <4>3. QED
        BY <3>2, <4>1, <4>2
    <3>5. n \in 0..b
      BY <2>2, <2>3, <2>9
    <3>6. SubSeq(BackwardFrom(k), 1, n) = [j \in 1..n |-> BackwardFrom(k)[j]]
      BY <3>4, <3>5, BeginAlike
    <3>7. \A j \in 1..n : BackwardFrom(k)[j] = Entries[b - j + 1]
      BY <3>1, <3>2, <3>3, <3>5
    <3>8. Reverse(updates) = [j \in 1..n |-> updates[n - j + 1]]
      <4>1. Len(updates) = n
        BY <2>3, <2>9, <2>10 DEF u
      <4>2. QED
        BY <4>1 DEF Reverse
    <3>9. \A j \in 1..n : updates[n - j + 1] = Entries[b - j + 1]
      <4> SUFFICES ASSUME NEW j \in 1..n PROVE updates[n - j + 1] = Entries[b - j + 1]
        OBVIOUS
      <4>1. n - j + 1 \in 1..l /\ a + (n - j + 1) - 1 = b - j + 1
        <5>1. a \in Int /\ b \in Int /\ l = b + 1 - a /\ j \in 1..l
          BY <2>2, <2>3, <2>9
        <5>2. \A x, y, z \in Int : z \in 1..(y + 1 - x) =>
                /\ (y + 1 - x) - z + 1 \in 1..(y + 1 - x)
                /\ x + ((y + 1 - x) - z + 1) - 1 = y - z + 1
          OBVIOUS
        <5>3. QED
          BY <2>9, <5>1, <5>2
      <4>2. QED
        BY <2>4, <2>10, <4>1
    <3>10. QED
      BY <3>6, <3>7, <3>8, <3>9
  <2>12. ASSUME ~MergeInProgress(k)
         PROVE  Apply([i \in 1..n |-> records[updates[i]]], db)[k] = Apply(records, db)[k]
    <3>1. u \in [1..l -> Of(k)]
      BY <2>5 DEF Shown, Of
    <3>2. CASE kind # "overwriting" \/ Of(k) = {}
      <4>1. \A i \in Of(k) : i \in Ks
        BY <3>2 DEF Of, Shown
      <4>2. \A i \in Of(k) : \E p \in 1..l : u[p] = i
        BY <2>6, <4>1
      <4>3. Apply([i \in 1..l |-> records[u[i]]], db)[k] = Apply(records, db)[k]
        BY <1>1, <2>8, <3>1, <4>2, Replays
      <4>4. QED
        BY <2>9, <2>10, <4>3
    <3>3. CASE kind = "overwriting" /\ Of(k) # {}
      <4>1. PICK m \in Of(k) : m = Latest(Of(k)) /\ \A j \in Of(k) : j <= m
        <5>1. Len(records) \in Nat /\ Of(k) \in SUBSET (0..Len(records))
          BY <2>7 DEF Of
        <5>2. \E i \in Of(k) : \A j \in Of(k) : j <= i
          BY <3>3, <5>1, LargestExists
        <5>3. QED
          BY <5>2, Zenon DEF Latest
      <4>2. m \in Ks /\ \A i \in Ks : i = m
        BY <3>3, <4>1 DEF Shown, Of
      <4>3. l = 1 /\ u[1] = m
        <5>1. PICK p \in 1..l : u[p] = m
          BY <2>6, <4>2
        <5>2. \A q \in 1..l : u[q] = m
          BY <2>5, <4>2
        <5>3. l # 0
          BY <5>1
        <5>4. SUFFICES ASSUME l > 1 PROVE FALSE
          BY <5>2, <5>3
        <5>5. 1 \in 1..l /\ 2 \in 1..l
          BY <5>4
        <5>6. u[1] < u[2] /\ u[1] = m /\ u[2] = m /\ m \in Nat
          BY <2>7, <2>8, <4>2, <5>2, <5>5
        <5>7. QED
          BY <5>6
      <4>4. records[m].type # "merge"
        BY <2>12, <3>3, <4>1 DEF MergeInProgress
      <4>5. Apply([i \in 1..l |-> records[u[i]]], db)[k] = Apply(records, db)[k]
        BY <1>1, <2>8, <3>1, <4>1, <4>3, <4>4, Replays, ZenonT(60)
      <4>6. QED
        BY <2>9, <2>10, <4>5
    <3>4. QED
      BY <3>2, <3>3
  <2>13. QED
    BY <2>11, <2>12
<1>2. WriteInv => EntriesTellBatch
  BY <1>1, ZenonT(60) DEF EntriesTellBatch
<1>3. QED
  BY <1>2, WriteInvariant, PTL
=============================================================================
