------------------------------- MODULE TaskRow -------------------------------
(***************************************************************************)
(* One row of public.model_import_tasks and the conditional UPDATE         *)
(* statements of queries/model.sql that move it.  Every statement is one   *)
(* atomic compare-and-set: a guard over the row (its WHERE clause) and a   *)
(* new row (its SET list).                                                 *)
(*                                                                         *)
(* Time is the database clock.  lease_until and next_attempt_at are only   *)
(* ever compared with clock_timestamp(), so the row keeps the time LEFT    *)
(* until each of them: lease = 0 stands for lease_until IS NULL as well as *)
(* lease_until <= clock_timestamp(), which no statement tells apart, and   *)
(* wait = 0 for next_attempt_at <= clock_timestamp().                      *)
(***************************************************************************)
EXTENDS Integers

CONSTANTS
    Owners,      \* lease_owner values of the running workers
    NoOwner,     \* lease_owner = ''
    Versions,    \* ids of model versions
    NoVersion,   \* model_version_id IS NULL
    Lease,       \* lease length granted by Claim and Renew, in clock ticks
    RetryAfter   \* delay before the next attempt set by Retry, in clock ticks

ASSUME TaskRowAssumption ==
    /\ NoOwner \notin Owners
    /\ NoVersion \notin Versions
    /\ Lease \in Nat \ {0}
    /\ RetryAfter \in Nat

TaskStatus == {"absent", "pending", "importing", "completed", "failed"}

Row == [status  : TaskStatus,
        owner   : Owners \cup {NoOwner},
        epoch   : Nat,
        lease   : Nat,
        attempt : Nat,
        wait    : Nat,
        version : Versions \cup {NoVersion}]

\* The row before its INSERT.
NoRow == [status |-> "absent", owner |-> NoOwner, epoch |-> 0, lease |-> 0,
          attempt |-> 0, wait |-> 0, version |-> NoVersion]

\* INSERT of a pending task, optionally bound to a version (CreateImportTask).
NewRow(v) == [NoRow EXCEPT !.status = "pending", !.version = v]

-----------------------------------------------------------------------------
\* WHERE clauses.

\* Mutant of Due: a task whose worker died is never listed again.
DuePendingOnly(r) ==
    /\ r.status = "pending"
    /\ r.wait = 0
    /\ r.lease = 0

\* ClaimImportTask and ListDueImportTasks(All).
Due(r) ==
    /\ r.status \in {"pending", "importing"}
    /\ r.wait = 0
    /\ r.lease = 0

\* Mutant of Fenced: the owner alone identifies a claim.
FencedByOwner(r, o, e) ==
    /\ r.status = "importing"
    /\ r.owner = o
    /\ r.lease > 0

\* Renew, Bind, Complete, Retry, Fail and MarkModelVersionErrorForTask: the
\* caller names the owner and epoch it claimed with, and the lease must be live.
Fenced(r, o, e) ==
    /\ r.status = "importing"
    /\ r.owner = o
    /\ r.epoch = e
    /\ r.lease > 0

-----------------------------------------------------------------------------
\* SET lists.


ClaimRow(r, o) ==
    [r EXCEPT !.status = "importing", !.owner = o, !.epoch = @ + 1,
              !.lease = Lease, !.attempt = @ + 1]

RenewRow(r) == [r EXCEPT !.lease = Lease]

BindRow(r, v) == [r EXCEPT !.version = v]

CompleteRow(r) ==
    [r EXCEPT !.status = "completed", !.owner = NoOwner, !.lease = 0]

RetryRow(r) ==
    [r EXCEPT !.status = "pending", !.owner = NoOwner, !.lease = 0,
              !.wait = RetryAfter]

FailRow(r) ==
    [r EXCEPT !.status = "failed", !.owner = NoOwner, !.lease = 0]

\* The user's retry starts the attempt count over but keeps lease_epoch.
RetryFailedRow(r) ==
    [r EXCEPT !.status = "pending", !.attempt = 0, !.owner = NoOwner,
              !.lease = 0, !.wait = 0]

-----------------------------------------------------------------------------
\* One tick of the database clock.


CountDown(n) == IF n > 0 THEN n - 1 ELSE 0

Elapse(r) == [r EXCEPT !.lease = CountDown(@), !.wait = CountDown(@)]

Ticking(r) == r.lease > 0 \/ r.wait > 0
=============================================================================
