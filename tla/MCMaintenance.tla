--------------------------- MODULE MCMaintenance ---------------------------
(* Small instances of RocksDBMaintenance for TLC.  A pause is only felt by *)
(* the jobs: what it does to calls that last, a single pause shows.  It is *)
(* enough to have several about while there are no such calls.             *)
EXTENDS RocksDBMaintenance

CONSTANTS
  FewFiles,  \* bound on files where pauses nest
  Pauser     \* the threads that pause where they do not

VARIABLE nesting  \* which of the two it is

MCInit == Init /\ nesting \in BOOLEAN

\* Pauses of several threads, inside each other, and jobs.
Nested ==
  \/ Job /\ named' <= FewFiles
  \/ EnableFileDeletions \/ \E t \in Thread : PauseOrContinue(t)

\* One pause at a time, beside all other calls.
Single ==
  \/ Job \/ Maintain
  \/ \E t \in Pauser : PauseOrContinue(t) /\ (pausing' = {} \/ paused' = 0)

MCNext ==
  \/ nesting /\ Nested /\ UNCHANGED nesting
  \/ ~nesting /\ Single /\ UNCHANGED nesting

\* FairSpec, of the instances.
MCSpec ==
  /\ MCInit /\ [][MCNext]_<<vars, nesting>>
  /\ WF_vars(\E f \in File : CopyFile(f))
=============================================================================
