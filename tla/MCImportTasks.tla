---------------------------- MODULE MCImportTasks ----------------------------
(***************************************************************************)
(* Small instances of ImportTasks.  All workers write the same owner, as   *)
(* replicas do that share ANI_IMPORT_WORKER_OWNER: the hard case for       *)
(* fencing.                                                                *)
(***************************************************************************)
EXTENDS ImportTasks, TLC

CONSTANT o1

SharedOwner == [w \in Workers |-> o1]

WorkerSymmetry == Permutations(Workers)
=============================================================================
