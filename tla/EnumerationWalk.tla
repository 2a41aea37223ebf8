-------------------------- MODULE EnumerationWalk --------------------------
(***************************************************************************)
(* What a block-based enumeration of a RocksDBIterator promises: the block *)
(* is called once with every key it owes, nearest first, until none is     *)
(* left, unless the block asks it to stop or the iterator fails.           *)
(***************************************************************************)
EXTENDS Sequences

CONSTANTS Key, Precedes(_, _)

VARIABLES
  owed,      \* keys the block has yet to be called with
  called,    \* keys it has been called with
  backward,  \* the direction of the walk
  state      \* "idle", "walking", "stopped" or "failed"

Nearest(k) == \A j \in owed \ {k} : IF backward THEN Precedes(j, k) ELSE Precedes(k, j)

Init == owed = {} /\ called = <<>> /\ backward \in BOOLEAN /\ state = "idle"

Begin ==
  /\ state = "idle" /\ state' \in {"walking", "failed"}
  /\ owed' \in SUBSET Key /\ backward' \in BOOLEAN /\ UNCHANGED called

Visit ==
  /\ state = "walking" /\ UNCHANGED <<state, backward>>
  /\ \E k \in owed : Nearest(k) /\ owed' = owed \ {k} /\ called' = Append(called, k)

Interrupt ==
  /\ state = "walking" /\ state' \in {"stopped", "failed"}
  /\ UNCHANGED <<owed, called, backward>>

End ==
  /\ state = "walking" => owed = {}
  /\ state # "idle" /\ state' = "idle"
  /\ owed' = {} /\ called' = <<>> /\ backward' \in BOOLEAN

Spec == Init /\ [][Begin \/ Visit \/ Interrupt \/ End]_<<owed, called, backward, state>>
=============================================================================
