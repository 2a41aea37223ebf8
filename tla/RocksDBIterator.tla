-------------------------- MODULE RocksDBIterator --------------------------
(***************************************************************************)
(* A RocksDBIterator (RocksDBIterator.mm): the cursor methods and the      *)
(* enumerations, which call the application's block for every key of a     *)
(* range or with a prefix, while other threads write to the database and   *)
(* reads of the disk may fail.                                             *)
(*                                                                         *)
(* A byte string is a natural number, bytewise order is <, and None stands *)
(* for nil.  A multiple of Width is a prefix of the Width - 1 strings that *)
(* follow it ("10" of "10.1", "10.2", ...).                                *)
(***************************************************************************)
EXTENDS Naturals, SequencesExt

CONSTANTS
  Key,          \* the keys that may be stored
  Width,
  Bound,        \* the strings a request may name
  Descending    \* the database's comparator orders keys the other way

None == 0

ASSUME KeyAssumption == Key \subseteq Nat \ {None} /\ Bound \subseteq Nat \ {None}
ASSUME OrderAssumption == Width \in Nat \ {0} /\ Descending \in BOOLEAN

Request == [kind : {"range"}, start : Bound \cup {None}, end : Bound \cup {None},
            reverse : BOOLEAN]
      \cup [kind : {"prefix"}, start : Bound, end : {None}, reverse : {FALSE}]

VARIABLES
  store,    \* the keys in the database
  view,     \* the keys the iterator sees: the store when it was created
  pos,      \* the iterator's key, None when it is not Valid()
  failed,   \* the iterator's status is an error
  at,       \* "idle", "loop" (in an enumeration) or "block" (in the block)
  call,     \* the enumeration's arguments
  visited,  \* the keys the block was called with
  stop      \* the enumeration's BOOL

iteratorVars == <<store, view, pos, failed, at, call, visited, stop>>

Entire == [kind |-> "range", start |-> None, end |-> None, reverse |-> FALSE]

IteratorTypeOK ==
  /\ store \subseteq Key /\ view \subseteq Key
  /\ pos \in view \cup {None}
  /\ failed \in BOOLEAN /\ stop \in BOOLEAN
  /\ failed => pos = None
  /\ at \in {"idle", "loop", "block"}
  /\ call \in Request
  /\ \A i \in 1..Len(visited) : visited[i] \in view

-----------------------------------------------------------------------------
(* rocksdb::Iterator.                                                      *)

\* The database's comparator.
Precedes(a, b) == IF Descending THEN b < a ELSE a < b

FirstKey(S) ==
  IF S = {} THEN None ELSE CHOOSE k \in S : \A j \in S \ {k} : Precedes(k, j)
LastKey(S) ==
  IF S = {} THEN None ELSE CHOOSE k \in S : \A j \in S \ {k} : Precedes(j, k)

Seek(k)        == FirstKey({j \in view : ~Precedes(j, k)})
SeekForPrev(k) == LastKey({j \in view : ~Precedes(k, j)})
AfterLive(k)   == FirstKey({j \in store : Precedes(k, j)})  \* mutant: no snapshot
After(k)       == FirstKey({j \in view : Precedes(k, j)})
Preceding(k)   == LastKey({j \in view : Precedes(j, k)})

\* The iterator moves to k, or a read fails and it is not Valid() any more.
MoveTo(k) == \/ pos' = k /\ failed' = FALSE
             \/ pos' = None /\ failed' = TRUE

StartsWith(k, p) == k = p \/ (p % Width = 0 /\ k \div Width = p \div Width)

-----------------------------------------------------------------------------
(* The application.                                                        *)

IteratorInit ==
  /\ store \in SUBSET Key /\ view = store
  /\ pos = None /\ failed = FALSE
  /\ at = "idle" /\ call = Entire /\ visited = <<>> /\ stop = FALSE

\* Another thread, or the block itself, puts or deletes a key.
Write ==
  /\ \E k \in Key : store' \in {store \cup {k}, store \ {k}}
  /\ UNCHANGED <<view, pos, failed, at, call, visited, stop>>

\* -[RocksDB iterator] and its overloads: a new iterator takes the place.
NewIterator ==
  /\ at = "idle"
  /\ view' = store /\ pos' = None /\ failed' = FALSE /\ visited' = <<>>
  /\ UNCHANGED <<store, at, call, stop>>

\* seekToFirst, seekToLast, seekToKey:, seekForPrev:, next and previous; the
\* last two only when isValid.
Move ==
  /\ at = "idle"
  /\ \/ MoveTo(FirstKey(view)) \/ MoveTo(LastKey(view))
     \/ \E k \in Bound : MoveTo(Seek(k)) \/ MoveTo(SeekForPrev(k))
     \/ pos # None /\ (MoveTo(After(pos)) \/ MoveTo(Preceding(pos)))
  /\ UNCHANGED <<store, view, at, call, visited, stop>>

-----------------------------------------------------------------------------
(* enumerateKeysAndValuesInRange:reverse:usingBlock:,                      *)
(* enumerateKeysAndValuesWithPrefix:usingBlock: and all that call them.    *)

StartOf(r) ==
  IF r.start # None THEN Seek(r.start)
  ELSE IF r.reverse THEN LastKey(view) ELSE FirstKey(view)

Enumerate(r) ==
  /\ at = "idle" /\ at' = "loop"
  /\ call' = r /\ visited' = <<>> /\ stop' = FALSE
  /\ MoveTo(StartOf(r))
  /\ UNCHANGED <<store, view>>

WithinLimitInclusive(r, k) ==  \* mutant: off by one at the end of the range
  r.end = None \/ IF r.reverse THEN k >= r.end ELSE k <= r.end

\* checkLimit compares the strings as std::string does, byte by byte.
WithinLimit(r, k) ==
  \/ r.end = None
  \/ IF r.reverse THEN k > r.end ELSE k < r.end

Goes  == pos # None /\ WithinLimit(call, pos)
Skips == call.kind = "prefix" /\ ~StartsWith(pos, call.start)

Advance == IF call.reverse THEN MoveTo(Preceding(pos)) ELSE MoveTo(After(pos))

Visit ==
  /\ at = "loop" /\ Goes /\ ~Skips
  /\ visited' = Append(visited, pos)
  /\ at' = "block"
  /\ UNCHANGED <<store, view, pos, failed, call, stop>>

SkipForever ==  \* mutant: `continue' in a loop that advances at its end
  /\ at = "loop" /\ Goes /\ Skips
  /\ UNCHANGED iteratorVars

\* A key without the prefix does not end the loop: it is passed over.
Skip ==
  /\ at = "loop" /\ Goes /\ Skips
  /\ Advance
  /\ UNCHANGED <<store, view, at, call, visited, stop>>

BlockStops ==
  /\ at = "block" /\ ~stop
  /\ stop' = TRUE
  /\ UNCHANGED <<store, view, pos, failed, at, call, visited>>

BlockReturns ==
  /\ at = "block"
  /\ IF stop THEN at' = "idle" /\ UNCHANGED <<pos, failed>>
             ELSE at' = "loop" /\ Advance
  /\ UNCHANGED <<store, view, call, visited, stop>>

Finish ==
  /\ at = "loop" /\ ~Goes
  /\ at' = "idle"
  /\ UNCHANGED <<store, view, pos, failed, call, visited, stop>>

Loop == Visit \/ Skip \/ BlockReturns \/ Finish
IteratorNext == Write \/ NewIterator \/ Move \/ BlockStops \/ Loop
          \/ \E r \in Request : Enumerate(r)

IteratorSpec == IteratorInit /\ [][IteratorNext]_iteratorVars

\* The enumerating thread keeps running, and the block returns.
IteratorFairSpec == IteratorSpec /\ WF_iteratorVars(Loop)

-----------------------------------------------------------------------------
(* Properties.                                                             *)

\* a comes before b on the way of an enumeration.
Before(r, a, b) == IF r.reverse THEN Precedes(b, a) ELSE Precedes(a, b)

\* The keys an enumeration owes its block: those with the prefix, or those from
\* the start, which is part of the range, to the end, which is not.  Going
\* backwards a range is written from its higher bound to its lower one, as in
\* the playground (Iteration: start "E", end "C", reverse).
Wanted(r) ==
  IF r.kind = "prefix" THEN {k \in view : StartsWith(k, r.start)}
  ELSE {k \in view : /\ r.start # None => ~Before(r, k, r.start)
                     /\ r.end # None => Before(r, k, r.end)}

\* The enumerations of which tests, playground, README and header say the same.
\* The playground goes backwards from a stored key, down to a lower one, and the
\* tests name whole prefixes; WalksAsDocumented is about the other cases, where
\* README and header ask for what the code does not do.
Undisputed(r) ==
  /\ r.reverse /\ r.start # None => r.start \in view
  /\ r.reverse /\ None \notin {r.start, r.end} => ~Precedes(r.start, r.end)
  /\ r.kind = "prefix" => r.start % Width = 0

Owes == at # "idle" /\ Undisputed(call)

\* With a bytewise comparator every undisputed enumeration calls its block with
\* each key it owes, once and in order, no matter what is written meanwhile, how
\* the cursor was moved before, and which keys the prefix loop passes over; it
\* ends early only if the block asked for it or if -status: tells of an error.
Walk == INSTANCE EnumerationWalk WITH
  owed     <- IF Owes THEN Wanted(call) \ ToSet(visited) ELSE {},
  called   <- IF Owes THEN visited ELSE <<>>,
  backward <- Owes /\ call.reverse,
  state    <- IF ~Owes THEN "idle" ELSE IF stop THEN "stopped"
              ELSE IF failed THEN "failed" ELSE "walking"
IsWalk == Walk!Spec

\* An enumeration comes to an end although other threads keep writing.
EnumerationEnds == at # "idle" ~> at = "idle"

\* The loop is over, and not because of an error.
Finished == at = "loop" /\ ~Goes /\ ~failed

\* README.md, "Enumeration in a given key-range [start, end)": with reverse the
\* range from "A" to "C" is the same range, gone through in the other order.
ReverseKeepsRange ==
  /\ call.reverse /\ None \notin {call.start, call.end}
  /\ Precedes(call.start, call.end)
  => ToSet(visited) =
       {k \in view : ~Precedes(k, call.start) /\ Precedes(k, call.end)}

\* README.md, "Prefix-Seek Iteration": a walk by prefix "starts with the key
\* that is Greater-Than-Or-Equal" to its argument ("10.2") and goes on with the
\* keys that have the argument's prefix, the one the extractor sees ("10").
PrefixIsExtracted ==
  call.kind = "prefix"
    => ToSet(visited) =
         {k \in view : /\ k \div Width = call.start \div Width
                       /\ ~Precedes(k, call.start)}

\* RocksDBIterator.h: the block is executed "for each key in the iterator in
\* the given key range": backwards too for none outside of it.
BackwardStaysInRange == call.reverse => ToSet(visited) \subseteq Wanted(call)

\* What the README's examples and the header say of the keys a block has been
\* called with when an enumeration is over.  The code does otherwise in each of
\* the three.
WalksAsDocumented ==
  Finished => ReverseKeepsRange /\ PrefixIsExtracted /\ BackwardStaysInRange
=============================================================================
