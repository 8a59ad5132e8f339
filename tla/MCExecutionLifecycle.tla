------------------------- MODULE MCExecutionLifecycle -------------------------
(***************************************************************************)
(* Instances of ExecutionLifecycle for TLC.  Execution ids are 1..MCRows;  *)
(* each run needs one row, and one more for every crash or expired lock    *)
(* that makes the queue hand it out again, so the bounds in the .cfg files *)
(* never leave initExecution without an id.                                *)
(***************************************************************************)
EXTENDS ExecutionLifecycle, TLC

CONSTANTS MCRows

MCExecs == 1..MCRows

\* For the runs in which no job, or the only one, is SMART.
Symmetry == Permutations(Runs) \cup Permutations(Workers) \cup Permutations(Texts)
            \cup Permutations(Jobs)
=============================================================================
