------------------------------ MODULE RowLocks ------------------------------
(***************************************************************************)
(* The row locks of PostgreSQL that the statements of the catalog take     *)
(* (table "Conflicting Row-Level Locks" of its manual).  A lock is held    *)
(* until the transaction that took it ends.                                *)
(***************************************************************************)

\* FOR KEY SHARE, FOR SHARE, an UPDATE that leaves the keys alone, FOR UPDATE.
LockModes == {"keyShare", "share", "noKeyUpdate", "update"}

ConflictsWith == [keyShare    |-> {"update"},
                  share       |-> {"noKeyUpdate", "update"},
                  noKeyUpdate |-> {"share", "noKeyUpdate", "update"},
                  update      |-> LockModes]
=============================================================================
