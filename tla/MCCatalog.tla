------------------------------ MODULE MCCatalog ------------------------------
(***************************************************************************)
(* Small instances of Catalog.                                             *)
(***************************************************************************)
EXTENDS Catalog, TLC

Symmetry == Permutations(Calls) \cup Permutations(Versions) \cup Permutations(Requests)
=============================================================================
