-------------------------- MODULE MCConfiguration --------------------------
(* Small instances of RocksDBHelpers, RocksDBColumnFamilies and            *)
(* RocksDBOptions for TLC.  They say different things of the same objects  *)
(* (who owns what is plugged in, what a name reaches, which settings run)  *)
(* and share no state: a step of one means nothing to the others, so it is *)
(* enough to let one of them run while the others rest where they began.   *)
(* So it is with helpers: who owns one is not changed by what is done to   *)
(* another.                                                                *)
EXTENDS RocksDBHelpers, RocksDBColumnFamilies, RocksDBOptions, TLC

VARIABLE moves  \* which module it is, or which helper

MCInit ==
  /\ moves \in {"families", "options"} \cup Helper
  /\ Init /\ FamiliesInit /\ OptionsInit

\* The application keeps all other helpers, and plugs them in nowhere.  Only a
\* merge operator is given again: then it has two owners, which a factory always
\* has, and a comparator never.
Alone(h) ==
  /\ \A g \in Helper \ {h} : g \in refs' /\ times'[g] = 0
  /\ h \in MergeOperator \/ times'[h] <= 1

MCNext ==
  \/ moves = "families" /\ FamiliesNext /\ UNCHANGED <<moves, vars, optionsVars>>
  \/ moves = "options"  /\ OptionsNext  /\ UNCHANGED <<moves, vars, familiesVars>>
  \/ /\ moves \in Helper /\ Next /\ Alone(moves)
     /\ UNCHANGED <<moves, familiesVars, optionsVars>>

MCSpec == MCInit /\ [][MCNext]_<<moves, vars, familiesVars, optionsVars>>

\* Options objects only differ by identity.  (So do facades, the parts they keep
\* and the names of families, but there are fewer states to gain than
\* permutations to try.)
Symmetry == Permutations(Options)
=============================================================================
