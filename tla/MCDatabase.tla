----------------------------- MODULE MCDatabase -----------------------------
(* Small instances of RocksDBLifecycle and RocksDBIterator for TLC: the    *)
(* life of the native objects, and what one of them, an iterator, goes     *)
(* through.  They share no state: a step of one means nothing to the       *)
(* other, so it is enough to let one of them run while the other rests     *)
(* where it began.                                                         *)
EXTENDS RocksDBLifecycle, RocksDBIterator

VARIABLE moves  \* which of the two it is

MCInit ==
  \/ moves = "objects"  /\ Init /\ IteratorInit /\ store = {}
  \/ moves = "iterator" /\ Init /\ IteratorInit

MCNext ==
  \/ moves = "objects"  /\ Next /\ UNCHANGED <<moves, iteratorVars>>
  \/ moves = "iterator" /\ IteratorNext /\ UNCHANGED <<moves, vars>>

\* IteratorFairSpec, of the instances.
MCSpec ==
  /\ MCInit /\ [][MCNext]_<<moves, vars, iteratorVars>>
  /\ WF_iteratorVars(Loop)
=============================================================================
