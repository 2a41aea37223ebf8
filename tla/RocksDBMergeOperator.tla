------------------------ MODULE RocksDBMergeOperator ------------------------
(***************************************************************************)
(* Merge operators (RocksDBMergeOperator.mm) and the C++ classes that call *)
(* them (RocksDBCallbackMergeOperator.cpp and                              *)
(* RocksDBCallbackAssociativeMergeOperator.cpp): how the trampolines turn  *)
(* what a block returns into what RocksDB is told, and what RocksDB does   *)
(* with it when it reads a key and when it compacts it.                    *)
(*                                                                         *)
(* A value or operand is the list of all that was merged into it.          *)
(***************************************************************************)
EXTENDS Naturals, SequencesExt

CONSTANTS
  Nil,          \* no data: nil, nullptr
  Failure,      \* what a read returns that fails: nil, with an error
  Associative,  \* the keys in column families with an associative operator
  Corrupt       \* what the block of a full merge takes for corrupted data

OrEmpty(data) == IF data = Nil THEN <<>> ELSE data

\* Blocks of an application.  The partial one joins only operands that begin
\* alike, and leaves others apart; the full one refuses corrupted data.
AssociativeMergeBlock(existing, v)  == OrEmpty(existing) \o v
PartialMergeBlock(left, right)      == IF left[1] = right[1] THEN left \o right ELSE Nil
Joined(existing, operands)          == OrEmpty(existing) \o FlattenSeq(operands)
FullMergeBlock(existing, operands)  ==
  LET joined == Joined(existing, operands)
  IN IF \E i \in DOMAIN joined : joined[i] \in Corrupt THEN Nil ELSE joined

\* The associative trampoline always succeeds: nil becomes an empty value.
\* For RocksDB a Merge of operands one by one is a full merge and a Merge of
\* two operands a partial one.
Merge(existing, v) == OrEmpty(AssociativeMergeBlock(existing, v))

\* The trampolines of a generic operator report nil as false.
PartialMergeSwapped(k, left, right) ==  \* mutant: left and right exchanged
  IF k \in Associative THEN Merge(right, left) ELSE PartialMergeBlock(right, left)
PartialMerge(k, left, right) ==
  IF k \in Associative THEN Merge(left, right) ELSE PartialMergeBlock(left, right)
FullMerge(k, existing, operands) ==
  LET merged[i \in 0..Len(operands)] ==
        IF i = 0 THEN existing ELSE Merge(merged[i - 1], operands[i])
  IN IF k \in Associative THEN merged[Len(operands)] ELSE FullMergeBlock(existing, operands)

-----------------------------------------------------------------------------
(* A key in the database: the value it was last put, or Nil, and the       *)
(* operands stacked onto it since.                                         *)

NoValue == [base |-> Nil, operands |-> <<>>]

\* What a read of k finds: it fails if the full merge does.
ResolveIgnoringNil(k, s) ==  \* mutant: a refusal of the full merge reads as no value
  IF s.operands = <<>> THEN s.base ELSE FullMerge(k, s.base, s.operands)

Resolve(k, s) ==
  LET merged == FullMerge(k, s.base, s.operands)
  IN IF s.operands = <<>> THEN s.base ELSE IF merged = Nil THEN Failure ELSE merged

\* Compactions merge the oldest operands into the value, or two operands that
\* follow each other into one if they may be joined.  What is refused stays.
FullMerges(k, s) ==
  {[base |-> FullMerge(k, s.base, SubSeq(s.operands, 1, n)),
    operands |-> SubSeq(s.operands, n + 1, Len(s.operands))] :
     n \in {m \in 1..Len(s.operands) : FullMerge(k, s.base, SubSeq(s.operands, 1, m)) # Nil}}

PartialMerges(k, s) ==
  {[s EXCEPT !.operands =
      SubSeq(@, 1, n - 1) \o <<PartialMerge(k, @[n], @[n + 1])>> \o SubSeq(@, n + 2, Len(@))] :
     n \in {m \in 1..Len(s.operands) - 1 :
              PartialMerge(k, s.operands[m], s.operands[m + 1]) # Nil}}

Compactions(k, s) == FullMerges(k, s) \cup PartialMerges(k, s)
=============================================================================
