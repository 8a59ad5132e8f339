---------------------------- MODULE MCJobScheduling ----------------------------
(***************************************************************************)
(* Instances of JobScheduling for TLC.                                     *)
(***************************************************************************)
EXTENDS JobScheduling, TLC

Symmetry == Permutations(Jobs) \cup Permutations(Reqs)
=============================================================================
