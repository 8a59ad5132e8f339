------------------------------ MODULE MCDelivery ------------------------------
(***************************************************************************)
(* Instances of Delivery for TLC; execution ids are 1..MCRows, as in       *)
(* MCExecutionLifecycle.                                                   *)
(***************************************************************************)
EXTENDS Delivery, TLC

CONSTANTS MCRows

MCExecs == 1..MCRows

Symmetry == Permutations(Runs) \cup Permutations(Texts)
=============================================================================
