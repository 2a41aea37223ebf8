------------------------ MODULE RocksDBIteratorProofs ------------------------
(* An enumeration is the walk EnumerationWalk describes: for any keys, of  *)
(* which there is a last, any width of prefixes and any requests, if the   *)
(* database's comparator is the bytewise one.                              *)
EXTENDS RocksDBIterator, FirstOrderInduction

Finitely == \E n \in Nat : Key \subseteq 1..n
Bytewise == ~Descending

Visited == ToSet(visited)

\* What lies ahead of a key on the way of the enumeration.
Ahead(a, b) == IF call.reverse THEN b < a ELSE a < b

\* A key the loop may have come to, from where the request starts.
Started(r, k) ==
  r.kind = "range" /\ r.start # None =>
    IF r.reverse THEN k <= r.start ELSE r.start <= k

\* The keys still owed are those ahead, and in the loop the present one too.
WalkInv ==
  Owes =>
    /\ visited \in Seq(Key) /\ Visited \subseteq Wanted(call)
    /\ at = "loop" => ~stop
    /\ at = "loop" /\ ~failed =>
         IF pos = None THEN Wanted(call) \subseteq Visited
         ELSE /\ Started(call, pos)
              /\ \A k \in Wanted(call) : k \notin Visited <=> k = pos \/ Ahead(pos, k)
    /\ at = "block" =>
         /\ pos \in Visited /\ Started(call, pos)
         /\ \A k \in Wanted(call) : k \notin Visited <=> Ahead(pos, k)

IteratorInv == IteratorTypeOK /\ WalkInv

-----------------------------------------------------------------------------
(* First and last keys.                                                    *)

LEMMA LastExists ==
  ASSUME Finitely, NEW S \in SUBSET Key, S # {}
  PROVE  \E i \in S : \A j \in S : j <= i
<1>1. PICK n \in Nat : S \in SUBSET (0..n)
  BY DEF Finitely
<1>2. QED
  BY <1>1, LargestExists

LEMMA KeysAreStrings == \A k \in Key : k \in Nat /\ k # None
BY KeyAssumption

LEMMA FirstIs ==
  ASSUME Finitely, NEW S \in SUBSET Key, S # {}
  PROVE  FirstKey(S) \in S /\ \A j \in S \ {FirstKey(S)} : Precedes(FirstKey(S), j)
<1>1. S \in SUBSET Nat
  BY KeysAreStrings
<1>2. \E k \in S : \A j \in S \ {k} : Precedes(k, j)
  <2>1. CASE Descending
    <3>1. PICK k \in S : \A j \in S : j <= k
      BY LastExists
    <3>2. \A j \in S \ {k} : j < k
      BY <1>1, <3>1
    <3>3. QED
      BY <2>1, <3>2 DEF Precedes
  <2>2. CASE ~Descending
    <3>1. PICK k \in S : \A j \in S : k <= j
      BY <1>1, LeastExists
    <3>2. \A j \in S \ {k} : k < j
      BY <1>1, <3>1
    <3>3. QED
      BY <2>2, <3>2 DEF Precedes
  <2>3. QED
    BY <2>1, <2>2
<1>3. FirstKey(S) = CHOOSE k \in S : \A j \in S \ {k} : Precedes(k, j)
  BY DEF FirstKey
<1>4. QED
  BY <1>2, <1>3

LEMMA LastIs ==
  ASSUME Finitely, NEW S \in SUBSET Key, S # {}
  PROVE  LastKey(S) \in S /\ \A j \in S \ {LastKey(S)} : Precedes(j, LastKey(S))
<1>1. S \in SUBSET Nat
  BY KeysAreStrings
<1>2. \E k \in S : \A j \in S \ {k} : Precedes(j, k)
  <2>1. CASE ~Descending
    <3>1. PICK k \in S : \A j \in S : j <= k
      BY LastExists
    <3>2. \A j \in S \ {k} : j < k
      BY <1>1, <3>1
    <3>3. QED
      BY <2>1, <3>2 DEF Precedes
  <2>2. CASE Descending
    <3>1. PICK k \in S : \A j \in S : k <= j
      BY <1>1, LeastExists
    <3>2. \A j \in S \ {k} : k < j
      BY <1>1, <3>1
    <3>3. QED
      BY <2>2, <3>2 DEF Precedes
  <2>3. QED
    BY <2>1, <2>2
<1>3. LastKey(S) = CHOOSE k \in S : \A j \in S \ {k} : Precedes(j, k)
  BY DEF LastKey
<1>4. QED
  BY <1>2, <1>3

\* In bytewise order, with None for no key at all.
LEMMA FirstBytewise ==
  ASSUME Finitely, Bytewise, NEW S \in SUBSET Key
  PROVE  IF S = {} THEN FirstKey(S) = None
         ELSE /\ FirstKey(S) \in S /\ FirstKey(S) # None
              /\ \A j \in S : FirstKey(S) <= j
<1>1. CASE S = {}
  BY <1>1 DEF FirstKey
<1>2. CASE S # {}
  <2>1. FirstKey(S) \in S /\ \A j \in S \ {FirstKey(S)} : FirstKey(S) < j
    BY <1>2, FirstIs DEF Bytewise, Precedes
  <2>2. \A j \in S : j \in Nat /\ j # None
    BY KeysAreStrings
  <2>3. \A j \in S : FirstKey(S) <= j
    BY <2>1, <2>2
  <2>4. QED
    BY <1>2, <2>1, <2>2, <2>3
<1>3. QED
  BY <1>1, <1>2

LEMMA LastBytewise ==
  ASSUME Finitely, Bytewise, NEW S \in SUBSET Key
  PROVE  IF S = {} THEN LastKey(S) = None
         ELSE /\ LastKey(S) \in S /\ LastKey(S) # None
              /\ \A j \in S : j <= LastKey(S)
<1>1. CASE S = {}
  BY <1>1 DEF LastKey
<1>2. CASE S # {}
  <2>1. LastKey(S) \in S /\ \A j \in S \ {LastKey(S)} : j < LastKey(S)
    BY <1>2, LastIs DEF Bytewise, Precedes
  <2>2. \A j \in S : j \in Nat /\ j # None
    BY KeysAreStrings
  <2>3. \A j \in S : j <= LastKey(S)
    BY <2>1, <2>2
  <2>4. QED
    BY <1>2, <2>1, <2>2, <2>3
<1>3. QED
  BY <1>1, <1>2

\* A string starts with no prefix that comes after it.
LEMMA PrefixComesFirst ==
  ASSUME NEW k \in Nat, NEW p \in Nat, StartsWith(k, p)
  PROVE  p <= k
<1>1. CASE k = p
  BY <1>1
<1>2. CASE p % Width = 0 /\ k \div Width = p \div Width
  <2>1. Width \in Nat /\ Width > 0
    BY OrderAssumption
  <2>2. \A a \in Nat : a = Width * (a \div Width) + (a % Width) /\ a % Width \in Nat
    BY <2>1
  <2>3. Width * (k \div Width) \in Nat
    BY <2>1
  <2>4. QED
    BY <1>2, <2>2, <2>3
<1>3. QED
  BY <1>1, <1>2 DEF StartsWith

-----------------------------------------------------------------------------
(* Types, in either order.                                                 *)

LEMMA MoveTypes ==
  ASSUME Finitely, IteratorTypeOK, NEW k \in view \cup {None}, MoveTo(k)
  PROVE  pos' \in view \cup {None} /\ failed' \in BOOLEAN /\ (failed' => pos' = None)
BY DEF MoveTo

LEMMA SeekTypes ==
  ASSUME Finitely, IteratorTypeOK
  PROVE  /\ FirstKey(view) \in view \cup {None} /\ LastKey(view) \in view \cup {None}
         /\ \A k : /\ Seek(k) \in view \cup {None} /\ SeekForPrev(k) \in view \cup {None}
                   /\ After(k) \in view \cup {None} /\ Preceding(k) \in view \cup {None}
<1>1. \A S \in SUBSET view : FirstKey(S) \in S \cup {None} /\ LastKey(S) \in S \cup {None}
  <2>1. ASSUME NEW S \in SUBSET view PROVE S \in SUBSET Key
    BY DEF IteratorTypeOK
  <2>2. FirstKey({}) = None /\ LastKey({}) = None
    BY DEF FirstKey, LastKey
  <2>3. QED
    BY <2>1, <2>2, FirstIs, LastIs
<1>2. QED
  BY <1>1 DEF Seek, SeekForPrev, After, Preceding

LEMMA StartTypes ==
  ASSUME Finitely, IteratorTypeOK, NEW r \in Request
  PROVE  StartOf(r) \in view \cup {None}
BY SeekTypes DEF StartOf

LEMMA AdvanceTypes ==
  ASSUME Finitely, IteratorTypeOK, Advance
  PROVE  pos' \in view \cup {None} /\ failed' \in BOOLEAN /\ (failed' => pos' = None)
BY SeekTypes, MoveTypes DEF Advance

LEMMA NothingVisited == \A i \in 1..Len(<<>>) : <<>>[i] \in {}
OBVIOUS

LEMMA TypeInitially == IteratorInit => IteratorTypeOK
<1> SUFFICES ASSUME IteratorInit PROVE IteratorTypeOK
  OBVIOUS
<1>1. Entire \in Request
  BY DEF Entire, Request
<1>2. QED
  BY <1>1, NothingVisited DEF IteratorInit, IteratorTypeOK

LEMMA TypeStep ==
  ASSUME Finitely, IteratorTypeOK, [IteratorNext]_iteratorVars
  PROVE  IteratorTypeOK'
<1>1. CASE UNCHANGED iteratorVars
  BY <1>1 DEF iteratorVars, IteratorTypeOK
<1>2. CASE Write
  BY <1>2 DEF Write, IteratorTypeOK
<1>3. CASE NewIterator
  BY <1>3, NothingVisited DEF NewIterator, IteratorTypeOK
<1>4. CASE Move
  <2>1. pos' \in view \cup {None} /\ failed' \in BOOLEAN /\ (failed' => pos' = None)
    BY <1>4, SeekTypes, MoveTypes DEF Move
  <2>2. QED
    BY <1>4, <2>1 DEF Move, IteratorTypeOK
<1>5. ASSUME NEW r \in Request, Enumerate(r) PROVE IteratorTypeOK'
  <2>1. pos' \in view \cup {None} /\ failed' \in BOOLEAN /\ (failed' => pos' = None)
    BY <1>5, StartTypes, MoveTypes DEF Enumerate
  <2>2. QED
    BY <1>5, <2>1, NothingVisited DEF Enumerate, IteratorTypeOK
<1>6. CASE Visit
  <2>1. pos \in view
    BY <1>6 DEF Visit, Goes, IteratorTypeOK
  <2>2. \A i \in 1..Len(visited') : visited'[i] \in view
    BY <1>6, <2>1 DEF Visit, IteratorTypeOK
  <2>3. QED
    BY <1>6, <2>2 DEF Visit, IteratorTypeOK
<1>7. CASE Skip
  BY <1>7, AdvanceTypes DEF Skip, IteratorTypeOK
<1>8. CASE BlockStops
  BY <1>8 DEF BlockStops, IteratorTypeOK
<1>9. CASE BlockReturns
  BY <1>9, AdvanceTypes DEF BlockReturns, IteratorTypeOK
<1>10. CASE Finish
  BY <1>10 DEF Finish, IteratorTypeOK
<1>11. QED
  BY <1>1, <1>2, <1>3, <1>4, <1>5, <1>6, <1>7, <1>8, <1>9, <1>10 DEF IteratorNext, Loop

-----------------------------------------------------------------------------
(* The loop, in bytewise order.                                            *)

LEMMA WantedIs ==
  ASSUME Finitely, Bytewise, IteratorTypeOK, NEW r \in Request, NEW k \in Key
  PROVE  k \in Wanted(r) <=>
           /\ k \in view /\ Started(r, k) /\ WithinLimit(r, k)
           /\ r.kind = "prefix" => StartsWith(k, r.start)
<1>1. k \in Nat /\ (r.start # None => r.start \in Nat) /\ (r.end # None => r.end \in Nat)
  BY KeysAreStrings, KeyAssumption DEF Request
<1>3. CASE r.kind = "prefix"
  BY <1>3 DEF Request, Wanted, Started, WithinLimit
<1>4. CASE r.kind = "range"
  <2>1. Wanted(r) =
          {i \in view :
             /\ r.start # None => IF r.reverse THEN ~(r.start < i) ELSE ~(i < r.start)
             /\ r.end # None => IF r.reverse THEN r.end < i ELSE i < r.end}
    BY <1>4 DEF Wanted, Before, Precedes, Bytewise
  <2>2. CASE r.start = None
    BY <1>1, <1>4, <2>1, <2>2 DEF Started, WithinLimit
  <2>3. CASE r.start # None /\ ~r.reverse
    BY <1>1, <1>4, <2>1, <2>3 DEF Started, WithinLimit
  <2>4. CASE r.start # None /\ r.reverse
    BY <1>1, <1>4, <2>1, <2>4 DEF Started, WithinLimit
  <2>5. QED
    BY <2>2, <2>3, <2>4
<1>5. QED
  BY <1>3, <1>4 DEF Request

\* Where the loop begins, nothing that is owed lies behind.
LEMMA StartIs ==
  ASSUME Finitely, Bytewise, IteratorTypeOK, NEW r \in Request, Undisputed(r)
  PROVE  LET p == StartOf(r) IN
         IF p = None THEN Wanted(r) = {}
         ELSE /\ p \in view /\ Started(r, p)
              /\ \A k \in Wanted(r) : IF r.reverse THEN k <= p ELSE p <= k
<1> DEFINE p == StartOf(r)
<1>1. view \in SUBSET Key /\ \A k \in view : k \in Nat /\ k # None
  BY KeysAreStrings DEF IteratorTypeOK
<1>2. \A k \in Wanted(r) : k \in view /\ Started(r, k) /\
        (r.kind = "prefix" => StartsWith(k, r.start))
  BY <1>1, WantedIs DEF Wanted
<1>3. CASE r.start = None
  <2>1. r.kind = "range"
    BY <1>3, KeyAssumption DEF Request
  <2>2. p = IF r.reverse THEN LastKey(view) ELSE FirstKey(view)
    BY <1>3 DEF StartOf
  <2>3. QED
    BY <1>1, <1>2, <1>3, <2>1, <2>2, FirstBytewise, LastBytewise DEF Started
<1>4. CASE r.start # None
  <2> DEFINE S == {j \in view : ~(j < r.start)}
  <2>1. r.start \in Nat
    BY <1>4, KeyAssumption DEF Request
  <2>2. p = Seek(r.start) /\ p = FirstKey(S)
    BY <1>4 DEF StartOf, Seek, Precedes, Bytewise
  <2>3. S \in SUBSET Key /\ \A j \in view : j \in S <=> r.start <= j
    BY <1>1, <2>1
  <2> HIDE DEF S
  <2>4. IF S = {} THEN p = None
        ELSE p \in S /\ p # None /\ \A j \in S : p <= j
    BY <2>2, <2>3, FirstBytewise
  <2>5. S \subseteq view
    BY DEF S
  <2>6. CASE r.reverse
    <3>1. r.kind = "range" /\ r.start \in view
      BY <1>4, <2>6 DEF Request, Undisputed
    <3>2. \A k \in Wanted(r) : k <= r.start
      BY <1>2, <1>4, <2>6, <3>1 DEF Started
    <3>3. r.start \in S
      BY <2>1, <2>3, <3>1
    <3>4. p \in view /\ p # None /\ p <= r.start /\ r.start <= p
      BY <2>3, <2>4, <2>5, <3>3
    <3>5. p = r.start
      BY <1>1, <2>1, <3>4
    <3>6. QED
      BY <2>6, <3>1, <3>2, <3>4, <3>5 DEF Started
  <2>7. CASE ~r.reverse
    <3>1. ASSUME NEW k \in Wanted(r) PROVE r.start <= k
      <4>1. CASE r.kind = "prefix"
        BY <1>1, <1>2, <2>1, <4>1, PrefixComesFirst
      <4>2. CASE r.kind # "prefix"
        BY <1>2, <1>4, <2>7, <4>2 DEF Started, Request
      <4>3. QED
        BY <4>1, <4>2
    <3>2. \A k \in Wanted(r) : k \in S
      BY <1>2, <2>3, <3>1
    <3>3. p # None => r.start <= p /\ p \in view
      BY <2>3, <2>4, <2>5
    <3>4. QED
      BY <2>4, <2>7, <3>2, <3>3 DEF Started
  <2>8. QED
    BY <2>6, <2>7
<1>5. QED
  BY <1>3, <1>4

\* The next key is the nearest of those ahead, and there too the loop may be.
LEMMA NextIs ==
  ASSUME Finitely, Bytewise, IteratorTypeOK, pos # None, Started(call, pos)
  PROVE  LET p == IF call.reverse THEN Preceding(pos) ELSE After(pos) IN
         IF p = None THEN \A k \in view : ~Ahead(pos, k)
         ELSE /\ p \in view /\ Started(call, p) /\ Ahead(pos, p)
              /\ \A k \in view : Ahead(pos, k) <=> k = p \/ Ahead(p, k)
<1> DEFINE p == IF call.reverse THEN Preceding(pos) ELSE After(pos)
           S == {j \in view : Ahead(pos, j)}
<1>1. view \in SUBSET Key /\ pos \in view /\ \A k \in view : k \in Nat /\ k # None
  BY KeysAreStrings DEF IteratorTypeOK
<1>2. call.start # None => call.start \in Nat
  BY KeyAssumption DEF IteratorTypeOK, Request
<1>3. p = IF call.reverse THEN LastKey(S) ELSE FirstKey(S)
  BY DEF Preceding, After, Ahead, Precedes, Bytewise
<1>4. S \in SUBSET Key /\ \A k \in view : k \in S <=> Ahead(pos, k)
  BY <1>1
<1>5. S \subseteq view
  OBVIOUS
<1> HIDE DEF S, p
<1>6. IF S = {} THEN p = None
      ELSE p \in S /\ p # None /\ \A k \in S : IF call.reverse THEN k <= p ELSE p <= k
  BY <1>3, <1>4, FirstBytewise, LastBytewise
<1>7. CASE p = None
  BY <1>4, <1>6, <1>7 DEF p
<1>8. CASE p # None
  <2>1. p \in view /\ Ahead(pos, p) /\ p \in Nat /\ pos \in Nat
    BY <1>1, <1>4, <1>5, <1>6, <1>8
  <2>2. ASSUME NEW k \in view PROVE Ahead(pos, k) <=> k = p \/ Ahead(p, k)
    <3>1. k \in Nat
      BY <1>1
    <3>2. k \in S => IF call.reverse THEN k <= p ELSE p <= k
      BY <1>6
    <3>3. QED
      BY <1>4, <2>1, <3>1, <3>2 DEF Ahead
  <2>3. Started(call, p)
    <3>1. CASE call.kind = "range" /\ call.start # None /\ call.reverse
      <4>1. pos <= call.start /\ p < pos
        BY <2>1, <3>1 DEF Started, Ahead
      <4>2. p <= call.start
        BY <1>2, <2>1, <3>1, <4>1
      <4>3. QED
        BY <3>1, <4>2 DEF Started
    <3>2. CASE call.kind = "range" /\ call.start # None /\ ~call.reverse
      <4>1. call.start <= pos /\ pos < p
        BY <2>1, <3>2 DEF Started, Ahead
      <4>2. call.start <= p
        BY <1>2, <2>1, <3>2, <4>1
      <4>3. QED
        BY <3>2, <4>2 DEF Started
    <3>3. CASE ~(call.kind = "range" /\ call.start # None)
      BY <3>3 DEF Started
    <3>4. QED
      BY <3>1, <3>2, <3>3
  <2>4. QED
    BY <1>8, <2>1, <2>2, <2>3 DEF p
<1>9. QED
  BY <1>7, <1>8

\* So the loop goes on as it should, once the present key is dealt with.
LEMMA AdvanceIs ==
  ASSUME Finitely, Bytewise, IteratorTypeOK, pos # None, Started(call, pos), Advance,
         UNCHANGED <<view, call>>, NEW V, ~failed',
         \A k \in Wanted(call) : k \notin V <=> Ahead(pos, k)
  PROVE  IF pos' = None THEN Wanted(call) \subseteq V
         ELSE /\ Started(call, pos')
              /\ \A k \in Wanted(call) : k \notin V <=> k = pos' \/ Ahead(pos', k)
<1>1. pos' = IF call.reverse THEN Preceding(pos) ELSE After(pos)
  BY DEF Advance, MoveTo
<1>2. Wanted(call) \subseteq view
  BY DEF Wanted
<1>3. QED
  BY <1>1, <1>2, NextIs

-----------------------------------------------------------------------------
(* The invariant.                                                          *)

LEMMA WantedHolds ==
  ASSUME UNCHANGED <<view, call>>
  PROVE  /\ Wanted(call)' = Wanted(call) /\ \A k : Started(call, k)' = Started(call, k)
         /\ Undisputed(call)' = Undisputed(call)
BY DEF Wanted, Started, Undisputed

\* The present key is owed if the loop neither ends here nor passes it over.
LEMMA VisitIs ==
  ASSUME Finitely, Bytewise, IteratorInv, at = "loop", Goes, Owes
  PROVE  /\ pos \in view /\ pos # None /\ ~failed /\ ~stop
         /\ pos \in Wanted(call) <=> ~Skips
<1>1. pos \in view /\ pos # None /\ ~failed /\ ~stop /\ Started(call, pos)
  BY DEF Goes, IteratorInv, IteratorTypeOK, WalkInv
<1>2. pos \in Key /\ WithinLimit(call, pos) /\ call \in Request
  BY <1>1 DEF Goes, IteratorInv, IteratorTypeOK
<1>3. QED
  BY <1>1, <1>2, WantedIs DEF IteratorInv, Skips

LEMMA Visits ==
  ASSUME visited \in Seq(Key), NEW k \in Key
  PROVE  /\ Append(visited, k) \in Seq(Key)
         /\ ToSet(Append(visited, k)) = Visited \cup {k}
<1>1. /\ Append(visited, k) \in Seq(Key) /\ Len(Append(visited, k)) = Len(visited) + 1
      /\ Append(visited, k)[Len(visited) + 1] = k
      /\ \A i \in 1..Len(visited) : Append(visited, k)[i] = visited[i]
  OBVIOUS
<1>2. DOMAIN visited = 1..Len(visited) /\ DOMAIN Append(visited, k) = 1..(Len(visited) + 1)
  BY <1>1
<1>3. 1..(Len(visited) + 1) = 1..Len(visited) \cup {Len(visited) + 1}
  OBVIOUS
<1>4. QED
  BY <1>1, <1>2, <1>3 DEF Visited, ToSet

LEMMA EnumerateKeeps ==
  ASSUME Finitely, Bytewise, IteratorTypeOK, NEW r \in Request, Enumerate(r)
  PROVE  WalkInv'
<1> SUFFICES ASSUME Owes' PROVE WalkInv'
  BY DEF WalkInv
<1>0. Undisputed(r)
  BY DEF Enumerate, Owes, Undisputed
<1>1. /\ at' = "loop" /\ call' = r /\ visited' = <<>> /\ stop' = FALSE /\ view' = view
      /\ MoveTo(StartOf(r))
  BY DEF Enumerate
<1>2. Visited' = {} /\ visited' \in Seq(Key)
  BY <1>1 DEF Visited, ToSet
<1>3. Wanted(call)' = Wanted(r) /\ \A k : Started(call, k)' = Started(r, k)
  BY <1>1 DEF Wanted, Started
<1>4. ~failed' => pos' = StartOf(r)
  BY <1>1 DEF MoveTo
<1>5. \A k \in Wanted(r) : k \in Nat
  BY KeysAreStrings DEF Wanted, IteratorTypeOK
<1>6. ASSUME ~failed', pos' # None
      PROVE  /\ Started(r, pos')
             /\ \A k \in Wanted(r) : k = pos' \/ Ahead(pos, k)'
  <2>1. /\ pos' \in view /\ Started(r, pos')
        /\ \A k \in Wanted(r) : IF r.reverse THEN k <= pos' ELSE pos' <= k
    BY <1>0, <1>4, <1>6, StartIs
  <2>2. pos' \in Nat
    BY <2>1, KeysAreStrings DEF IteratorTypeOK
  <2>3. \A k : Ahead(pos, k)' <=> IF r.reverse THEN k < pos' ELSE pos' < k
    BY <1>1 DEF Ahead
  <2>4. QED
    BY <1>5, <2>1, <2>2, <2>3
<1>7. ~failed' /\ pos' = None => Wanted(r) = {}
  BY <1>0, <1>4, StartIs
<1>8. QED
  BY <1>1, <1>2, <1>3, <1>6, <1>7 DEF WalkInv

LEMMA VisitKeeps ==
  ASSUME Finitely, Bytewise, IteratorInv, Visit, Owes
  PROVE  WalkInv'
<1>1. /\ at = "loop" /\ Goes /\ ~Skips /\ visited' = Append(visited, pos) /\ at' = "block"
      /\ UNCHANGED <<view, pos, call>>
  BY DEF Visit
<1>2. pos \in Wanted(call) /\ pos \in view /\ pos # None /\ ~failed
  BY <1>1, VisitIs
<1>3. pos \in Key
  BY <1>2 DEF IteratorInv, IteratorTypeOK
<1>4. visited' \in Seq(Key) /\ Visited' = Visited \cup {pos}
  BY <1>1, <1>3, Visits DEF IteratorInv, WalkInv, Visited
<1>5. /\ Started(call, pos) /\ Visited \subseteq Wanted(call)
      /\ \A k \in Wanted(call) : k \notin Visited <=> k = pos \/ Ahead(pos, k)
  BY <1>1, <1>2 DEF IteratorInv, WalkInv
<1>6. ~Ahead(pos, pos)
  BY <1>3, KeysAreStrings DEF Ahead
<1>7. /\ Wanted(call)' = Wanted(call) /\ Started(call, pos)' = Started(call, pos)
      /\ \A k : Ahead(pos, k)' = Ahead(pos, k)
  BY <1>1, WantedHolds DEF Ahead, Wanted, Started
<1>8. QED
  BY <1>1, <1>2, <1>4, <1>5, <1>6, <1>7 DEF WalkInv

\* Skip, and the block's return.
LEMMA AdvanceKeeps ==
  ASSUME Finitely, Bytewise, IteratorInv, Skip \/ (BlockReturns /\ ~stop), Owes
  PROVE  WalkInv'
<1>1. /\ at # "idle" /\ at' = "loop" /\ Advance /\ UNCHANGED <<view, call, visited, stop>>
      /\ ~stop
  BY DEF Skip, BlockReturns, IteratorInv, WalkInv
<1>2. /\ pos \in view /\ pos # None /\ Started(call, pos)
      /\ \A k \in Wanted(call) : k \notin Visited <=> Ahead(pos, k)
  <2>1. CASE Skip
    <3>1. at = "loop" /\ Goes /\ Skips
      BY <2>1 DEF Skip
    <3>2. pos \in view /\ pos # None /\ ~failed /\ pos \notin Wanted(call)
      BY <3>1, VisitIs
    <3>3. QED
      BY <3>1, <3>2 DEF IteratorInv, WalkInv
  <2>2. CASE BlockReturns
    <3>1. at = "block"
      BY <2>2 DEF BlockReturns
    <3>2. /\ pos \in Visited /\ Visited \subseteq Wanted(call) /\ Started(call, pos)
          /\ \A k \in Wanted(call) : k \notin Visited <=> Ahead(pos, k)
      BY <3>1 DEF IteratorInv, WalkInv
    <3>3. pos \in view
      BY <3>2 DEF Wanted
    <3>4. QED
      BY <3>2, <3>3, KeysAreStrings DEF IteratorInv, IteratorTypeOK
  <2>3. QED
    BY <2>1, <2>2
<1>3. ~failed' =>
        IF pos' = None THEN Wanted(call) \subseteq Visited
        ELSE /\ Started(call, pos')
             /\ \A k \in Wanted(call) : k \notin Visited <=> k = pos' \/ Ahead(pos', k)
  BY <1>1, <1>2, AdvanceIs DEF IteratorInv
<1>4. /\ Visited' = Visited /\ Wanted(call)' = Wanted(call)
      /\ Started(call, pos)' = Started(call, pos')
      /\ \A k : Ahead(pos, k)' = Ahead(pos', k)
  BY <1>1 DEF Visited, Wanted, Started, Ahead
<1>5. QED
  BY <1>1, <1>3, <1>4 DEF IteratorInv, WalkInv

LEMMA CallHolds ==
  ASSUME [IteratorNext]_iteratorVars, at # "idle"
  PROVE  UNCHANGED <<view, call>> /\ (Owes' => Owes)
<1>1. UNCHANGED <<view, call>>
  BY DEF IteratorNext, Loop, Write, NewIterator, Move, Enumerate, Visit, Skip, BlockStops,
         BlockReturns, Finish, iteratorVars
<1>2. QED
  BY <1>1, WantedHolds DEF Owes

LEMMA IteratorStep ==
  ASSUME Finitely, Bytewise, IteratorInv, [IteratorNext]_iteratorVars
  PROVE  IteratorInv'
<1>1. IteratorTypeOK'
  BY TypeStep DEF IteratorInv
<1> SUFFICES ASSUME Owes' PROVE WalkInv'
  BY <1>1 DEF IteratorInv, WalkInv
<1>2. CASE at = "idle"
  <2>1. PICK r \in Request : Enumerate(r)
    BY <1>2 DEF IteratorNext, Loop, Write, NewIterator, Move, Visit, Skip, BlockStops, BlockReturns,
                Finish, Owes, iteratorVars
  <2>2. QED
    BY <2>1, EnumerateKeeps DEF IteratorInv
<1>3. CASE at # "idle"
  <2>1. Owes
    BY <1>3, CallHolds
  <2>2. CASE Visit
    BY <2>1, <2>2, VisitKeeps
  <2>3. CASE Skip \/ BlockReturns
    BY <2>1, <2>3, AdvanceKeeps DEF BlockReturns, Owes
  <2>4. CASE BlockStops
    <3>1. at = "block" /\ UNCHANGED <<view, pos, failed, at, call, visited>>
      BY <2>4 DEF BlockStops
    <3>2. QED
      BY <2>1, <3>1 DEF IteratorInv, WalkInv, Visited, Wanted, Started, Ahead
  <2>5. CASE UNCHANGED <<view, pos, failed, at, call, visited, stop>>
    BY <2>1, <2>5 DEF IteratorInv, WalkInv, Visited, Wanted, Started, Ahead
  <2>6. QED
    BY <1>3, <2>2, <2>3, <2>4, <2>5
    DEF IteratorNext, Loop, Write, NewIterator, Move, Enumerate, Finish, Owes, iteratorVars
<1>4. QED
  BY <1>2, <1>3

\* The iterator is on a key it sees, or on none, and the block gets such keys
\* only, whichever way the keys are ordered.
THEOREM IteratorTypes == ASSUME Finitely PROVE IteratorSpec => []IteratorTypeOK
<1>1. IteratorTypeOK /\ [IteratorNext]_iteratorVars => IteratorTypeOK'
  BY TypeStep
<1>2. QED
  BY <1>1, TypeInitially, PTL DEF IteratorSpec

LEMMA IteratorInvariant == ASSUME Finitely, Bytewise PROVE IteratorSpec => []IteratorInv
<1>1. IteratorInit => IteratorInv
  BY TypeInitially DEF IteratorInit, IteratorInv, WalkInv, Owes
<1>2. IteratorInv /\ [IteratorNext]_iteratorVars => IteratorInv'
  BY IteratorStep
<1>3. QED
  BY <1>1, <1>2, PTL DEF IteratorSpec

-----------------------------------------------------------------------------
(* The refinement.                                                         *)

\* What of an enumeration is seen in the walk.
Owed     == IF Owes THEN Wanted(call) \ Visited ELSE {}
Called   == IF Owes THEN visited ELSE <<>>
Backward == Owes /\ call.reverse
State    == IF ~Owes THEN "idle" ELSE IF stop THEN "stopped"
            ELSE IF failed THEN "failed" ELSE "walking"

WalkVars == <<Owed, Called, Backward, State>>
WalkNext == Walk!Begin \/ Walk!Visit \/ Walk!Interrupt \/ Walk!End

\* Between the enumerations nothing is seen.
LEMMA IdleShows ==
  ASSUME ~Owes, ~Owes'
  PROVE  UNCHANGED WalkVars
BY DEF WalkVars, Owed, Called, Backward, State

\* While one goes on, what was asked does not change.
LEMMA SeenIs ==
  ASSUME Owes, UNCHANGED <<view, call>>, at' # "idle"
  PROVE  /\ Owes' /\ Backward' = Backward
         /\ Owed = Wanted(call) \ Visited /\ Called = visited
         /\ Owed' = Wanted(call) \ Visited' /\ Called' = visited'
         /\ State = IF stop THEN "stopped" ELSE IF failed THEN "failed" ELSE "walking"
         /\ State' = IF stop' THEN "stopped" ELSE IF failed' THEN "failed" ELSE "walking"
<1>1. Owes'
  BY WantedHolds DEF Owes
<1>2. Wanted(call)' = Wanted(call)
  BY WantedHolds
<1>3. QED
  BY <1>1, <1>2 DEF Owed, Called, Backward, State

LEMMA BeginShows ==
  ASSUME IteratorInv, NEW r \in Request, Enumerate(r), Owes'
  PROVE  WalkNext
<1>1. /\ at = "idle" /\ at' = "loop" /\ call' = r /\ visited' = <<>> /\ ~stop'
      /\ view' = view
  BY DEF Enumerate
<1>2. ~Owes
  BY <1>1 DEF Owes
<1>3. Owed' \in SUBSET Key /\ Backward' \in BOOLEAN
  BY <1>1 DEF Owed, Backward, Wanted, IteratorInv, IteratorTypeOK
<1>4. State = "idle" /\ State' \in {"walking", "failed"} /\ Called' = Called
  BY <1>1, <1>2 DEF State, Called
<1>5. QED
  BY <1>3, <1>4 DEF WalkNext, Walk!Begin, Owed, Called, Backward, State, Visited

LEMMA VisitShows ==
  ASSUME Finitely, Bytewise, IteratorInv, Visit, Owes
  PROVE  WalkNext
<1>1. /\ at = "loop" /\ Goes /\ ~Skips /\ visited' = Append(visited, pos) /\ at' = "block"
      /\ UNCHANGED <<view, pos, failed, call, stop>>
  BY DEF Visit
<1>2. /\ pos \in Wanted(call) /\ pos \in Key /\ ~failed /\ ~stop /\ pos # None
  BY <1>1, VisitIs DEF IteratorInv, IteratorTypeOK
<1>3. \A k \in Wanted(call) : k \notin Visited <=> k = pos \/ Ahead(pos, k)
  BY <1>1, <1>2 DEF IteratorInv, WalkInv
<1>4. /\ Owed = Wanted(call) \ Visited /\ Owed' = Wanted(call) \ Visited'
      /\ Called = visited /\ Called' = visited' /\ Backward' = Backward
      /\ State = "walking" /\ State' = "walking"
  BY <1>1, <1>2, SeenIs
<1>5. pos \in Owed /\ \A j \in Owed \ {pos} : Ahead(pos, j)
  BY <1>2, <1>3, <1>4
<1>6. Visited' = Visited \cup {pos}
  BY <1>1, <1>2, Visits DEF IteratorInv, WalkInv, Visited
<1>7. Owed' = Owed \ {pos} /\ Called' = Append(Called, pos)
  BY <1>1, <1>4, <1>6
<1>8. Backward = call.reverse
  BY DEF Backward, IteratorInv, IteratorTypeOK, Request
<1>9. Walk!Nearest(pos)
  BY <1>5, <1>8 DEF Walk!Nearest, Ahead, Precedes, Bytewise, Owed, Backward, Visited
<1>10. Walk!Visit
  BY <1>4, <1>5, <1>7, <1>9 DEF Walk!Visit, Owed, Called, Backward, State, Visited
<1>11. QED
  BY <1>10 DEF WalkNext

\* A move of the cursor within the loop is not seen, unless the read fails.
LEMMA AdvanceShows ==
  ASSUME IteratorInv, Skip \/ (BlockReturns /\ ~stop), Owes
  PROVE  WalkNext \/ UNCHANGED WalkVars
<1>1. /\ at # "idle" /\ at' = "loop" /\ UNCHANGED <<view, call, visited, stop>> /\ ~stop
      /\ pos # None
  <2>1. CASE Skip
    BY <2>1 DEF Skip, Goes, IteratorInv, WalkInv
  <2>2. CASE BlockReturns /\ ~stop
    <3>1. pos \in Wanted(call)
      BY <2>2 DEF BlockReturns, IteratorInv, WalkInv
    <3>2. QED
      BY <2>2, <3>1, KeysAreStrings DEF BlockReturns, Wanted, IteratorInv, IteratorTypeOK
  <2>3. QED
    BY <2>1, <2>2
<1>2. ~failed /\ failed' \in BOOLEAN
  BY <1>1 DEF IteratorInv, IteratorTypeOK, Skip, BlockReturns, Advance, MoveTo
<1>3. /\ Owed' = Owed /\ Called' = Called /\ Backward' = Backward
      /\ State = "walking" /\ State' = IF failed' THEN "failed" ELSE "walking"
  BY <1>1, <1>2, SeenIs DEF Visited
<1>4. CASE failed'
  BY <1>3, <1>4 DEF WalkNext, Walk!Interrupt, Owed, Called, Backward, State, Visited
<1>5. CASE ~failed'
  BY <1>3, <1>5 DEF WalkVars
<1>6. QED
  BY <1>4, <1>5

LEMMA StopShows ==
  ASSUME IteratorInv, BlockStops, Owes
  PROVE  WalkNext
<1>1. /\ at = "block" /\ ~stop /\ stop' /\ UNCHANGED <<view, pos, failed, at, call, visited>>
  BY DEF BlockStops
<1>2. ~failed
  <2>1. pos \in Wanted(call)
    BY <1>1 DEF IteratorInv, WalkInv
  <2>2. QED
    BY <2>1, KeysAreStrings DEF Wanted, IteratorInv, IteratorTypeOK
<1>3. /\ Owed' = Owed /\ Called' = Called /\ Backward' = Backward
      /\ State = "walking" /\ State' = "stopped"
  BY <1>1, <1>2, SeenIs DEF Visited
<1>4. QED
  BY <1>3 DEF WalkNext, Walk!Interrupt, Owed, Called, Backward, State, Visited

\* When the loop ends and nothing failed, nothing is owed.
LEMMA EndShows ==
  ASSUME Finitely, Bytewise, IteratorInv, Finish \/ (BlockReturns /\ stop), Owes
  PROVE  WalkNext
<1>1. at' = "idle"
  BY DEF Finish, BlockReturns
<1>2. ~Owes'
  BY <1>1 DEF Owes
<1>3. State # "idle" /\ State' = "idle" /\ Owed' = {} /\ Called' = <<>> /\ Backward' \in BOOLEAN
  BY <1>2 DEF State, Owed, Called, Backward
<1>4. ASSUME State = "walking" PROVE Owed = {}
  <2>1. /\ at = "loop" /\ ~Goes /\ ~failed
    BY <1>4 DEF State, Finish, BlockReturns
  <2>2. CASE pos = None
    BY <2>1, <2>2 DEF IteratorInv, WalkInv, Owed
  <2>3. CASE pos # None
    <3>1. ~WithinLimit(call, pos)
      BY <2>1, <2>3 DEF Goes
    <3>2. ASSUME NEW k \in Wanted(call) PROVE ~(k = pos \/ Ahead(pos, k))
      <4>1. k \in Key /\ call \in Request /\ pos \in Key
        BY <2>3 DEF Wanted, IteratorInv, IteratorTypeOK
      <4>2. WithinLimit(call, k)
        BY <4>1, WantedIs DEF IteratorInv
      <4>3. k \in Nat /\ pos \in Nat /\ (call.end # None => call.end \in Nat)
        BY <4>1, KeysAreStrings, KeyAssumption DEF Request
      <4>4. QED
        BY <3>1, <4>2, <4>3 DEF WithinLimit, Ahead
    <3>3. QED
      BY <2>1, <2>3, <3>2 DEF IteratorInv, WalkInv, Owed
  <2>4. QED
    BY <2>2, <2>3
<1>5. QED
  BY <1>3, <1>4 DEF WalkNext, Walk!End, Owed, Called, Backward, State, Visited

LEMMA StepShows ==
  ASSUME Finitely, Bytewise, IteratorInv, [IteratorNext]_iteratorVars
  PROVE  [WalkNext]_WalkVars
<1>1. CASE ~Owes /\ ~Owes'
  BY <1>1, IdleShows
<1>2. CASE ~Owes /\ Owes'
  <2>1. PICK r \in Request : Enumerate(r)
    BY <1>2, CallHolds DEF IteratorNext, Loop, Write, NewIterator, Move, Visit, Skip, BlockStops,
                BlockReturns, Finish, Owes, iteratorVars
  <2>2. QED
    BY <1>2, <2>1, BeginShows
<1>3. CASE Owes
  <2>1. at # "idle"
    BY <1>3 DEF Owes
  <2>2. CASE Visit \/ BlockStops \/ Finish
    BY <1>3, <2>2, VisitShows, StopShows, EndShows
  <2>3. CASE Skip \/ BlockReturns
    BY <1>3, <2>3, AdvanceShows, EndShows DEF IteratorInv, IteratorTypeOK
  <2>4. CASE UNCHANGED <<view, failed, at, call, visited, stop>>
    BY <1>3, <2>1, <2>4, SeenIs DEF WalkVars, Visited
  <2>5. QED
    BY <2>1, <2>2, <2>3, <2>4 DEF IteratorNext, Loop, Write, NewIterator, Move, Enumerate, iteratorVars
<1>4. QED
  BY <1>1, <1>2, <1>3

LEMMA StartShows == IteratorInit => Walk!Init
BY DEF IteratorInit, Walk!Init, Owes

\* The block is called with each key the arguments ask for, nearest first and
\* once, whatever is written meanwhile, until the block or an error ends it.
\* Nothing is said of the walks that README and code have different ideas of.
THEOREM ImplementsWalk == ASSUME Finitely, Bytewise PROVE IteratorSpec => IsWalk
<1>1. IteratorInv /\ [IteratorNext]_iteratorVars => [WalkNext]_WalkVars
  BY StepShows
<1>2. QED
  BY <1>1, StartShows, IteratorInvariant, PTL
  DEF IteratorSpec, IsWalk, Walk!Spec, WalkNext, WalkVars, Owed, Called, Backward, State, Visited
=============================================================================
