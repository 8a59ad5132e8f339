------------------------------- MODULE MCCatalog -------------------------------
(***************************************************************************)
(* The instance of Catalog for TLC: two urls that fetch accepts, and one   *)
(* without a scheme.                                                       *)
(***************************************************************************)
EXTENDS Catalog, TLC

Symmetry == Permutations(Targets) \cup Permutations(Points) \cup Permutations(Slots)
            \cup Permutations(Absolute)
=============================================================================
