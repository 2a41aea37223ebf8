------------------------ MODULE BatchWithSavePoints ------------------------
(***************************************************************************)
(* What a write batch promises: a list of updates that can be put back to  *)
(* what it was at each save point that is still set, and that does nothing *)
(* to the database until it is applied, all of it at once and in order.    *)
(***************************************************************************)
EXTENDS FiniteSets, Naturals, Sequences

CONSTANTS
  Record,         \* the updates a batch can hold
  Counted(_),     \* the batch counts this update
  FlagOf(_),      \* the flags of an update that -hasPut and its siblings ask for
  Apply(_, _),    \* what a list of updates makes of a database
  Written         \* what others may write to a key of it

VARIABLES
  batch,     \* the updates
  copies,    \* the batch at each save point, the oldest first
  contents,  \* the database
  size,      \* what -count returns
  kinds      \* the flags for which -hasPut and its siblings say YES

vars == <<batch, copies, contents, size, kinds>>

Summary ==
  /\ size = Cardinality({i \in 1..Len(batch) : Counted(batch[i])})
  /\ kinds = UNION {FlagOf(batch[i]) : i \in 1..Len(batch)}

Init == batch = <<>> /\ copies = <<>> /\ Summary

AddTo == \E r \in Record : batch' = Append(batch, r) /\ UNCHANGED <<copies, contents>>
Empty == batch' = <<>> /\ copies' = <<>> /\ UNCHANGED contents
Save  == copies' = Append(copies, batch) /\ UNCHANGED <<batch, contents>>

Restore ==
  /\ copies # <<>>
  /\ batch' = copies[Len(copies)]
  /\ copies' = SubSeq(copies, 1, Len(copies) - 1)
  /\ UNCHANGED contents

Forget ==
  /\ copies # <<>>
  /\ copies' = SubSeq(copies, 1, Len(copies) - 1)
  /\ UNCHANGED <<batch, contents>>

ApplyAll == contents' = Apply(batch, contents) /\ UNCHANGED <<batch, copies>>

\* Somebody else writes a key of the database.
Others ==
  /\ UNCHANGED <<batch, copies>>
  /\ \E k \in DOMAIN contents, v \in Written : contents' = [contents EXCEPT ![k] = v]

Next ==
  \/ (Others \/ ApplyAll \/ Save \/ Forget) /\ UNCHANGED <<size, kinds>>
  \/ (Empty \/ Restore \/ AddTo) /\ Summary'

Spec == Init /\ [][Next]_vars
=============================================================================
