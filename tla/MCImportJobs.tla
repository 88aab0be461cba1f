----------------------------- MODULE MCImportJobs -----------------------------
(***************************************************************************)
(* Small instances of ImportJobs.                                          *)
(***************************************************************************)
EXTENDS ImportJobs, TLC

Symmetry == Permutations(Workers) \cup Permutations(Contents)
=============================================================================
