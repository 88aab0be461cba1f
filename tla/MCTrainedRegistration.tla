----------------------- MODULE MCTrainedRegistration -----------------------
(***************************************************************************)
(* Small instances of TrainedRegistration.                                 *)
(***************************************************************************)
EXTENDS TrainedRegistration, TLC

Symmetry == Permutations(Calls) \cup Permutations(Regs)
=============================================================================
