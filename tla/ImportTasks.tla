----------------------------- MODULE ImportTasks -----------------------------
(***************************************************************************)
(* Import tasks, the worker processes that run them and the model versions *)
(* they fill: internal/worker/import_worker.go over                        *)
(* internal/data/postgres/work_store.go and version_store.go.              *)
(*                                                                         *)
(* A worker goes through one task at a time:                               *)
(*   list due tasks - claim - bind (when the task names no version) -      *)
(*   execute, which ends by recording the artifact and the checksum -      *)
(*   mark the version ready - complete the task;                           *)
(* every error leads to a retry or, when the attempts are used up, to the  *)
(* version being marked in error and the task failed.  Each of these is    *)
(* one statement of the database, so other workers, users and the clock    *)
(* act between any two of them.  A lease is renewed while the executor     *)
(* runs; the statements on the task row are fenced by owner, epoch and     *)
(* lease, those on the version and its artifact are not.                   *)
(*                                                                         *)
(* The rows and the clock are those of module TaskRow.  The owner string   *)
(* of a worker comes from the environment and may be shared by several     *)
(* workers, so fencing must not depend on it.                              *)
(***************************************************************************)
EXTENDS TaskRow, FiniteSets

CONSTANTS
    Tasks,           \* ids of import tasks
    NoTask,          \* a worker between two tasks
    Workers,         \* worker processes (one per replica of the service)
    OwnerOf,         \* the lease_owner each worker writes
    Contents,        \* what a download may turn out to contain (its SHA-256)
    NoContent,       \* the empty checksum
    NoArtifact,      \* a version without a row in model_artifacts
    Batch,           \* Worker.Batch: tasks taken by one due scan
    MaxAttempts,     \* Worker.MaxAttempts
    MaxFaults,       \* bound: crashes, failed calls and late clocks
    MaxUserRetries   \* bound: RetryFailed calls

ASSUME ImportTasksAssumption ==
    /\ IsFiniteSet(Tasks)
    /\ NoTask \notin Tasks
    /\ OwnerOf \in [Workers -> Owners]
    /\ NoContent \notin Contents
    /\ NoArtifact \notin [task : Tasks, content : Contents]
    /\ Batch \in Nat \ {0}
    /\ MaxAttempts \in Nat \ {0}
    /\ MaxFaults \in Nat
    /\ MaxUserRetries \in Nat

VARIABLES
    row,      \* row[t]: the row of task t
    ver,      \* ver[v]: version v, its artifact and whether its model is deleted
    wk,       \* wk[w]: where worker w is and what it remembers of its claim
    todo,     \* todo[w]: tasks of the last due scan it has not tried to claim
    faults,   \* faults so far
    retries   \* RetryFailed calls so far

vars == <<row, ver, wk, todo, faults, retries>>

Artifact == [task : Tasks, content : Contents]

VersionStatus == {"pending", "ready", "error", "deleted"}

Version == [status   : VersionStatus,
            artifact : Artifact \cup {NoArtifact},
            checksum : Contents \cup {NoContent},
            orphan   : BOOLEAN]

\* "execute" and "checksum" are both inside Executor.Execute: before and after
\* the artifact row is written.
Executing == {"execute", "checksum"}
Busy == {"resolve", "bind", "markReady", "complete", "markError", "fail", "retry"}
            \cup Executing

Worker == [pc      : Busy \cup {"idle", "down"},
           task    : Tasks \cup {NoTask},
           epoch   : Nat,
           attempt : Nat,
           version : Versions \cup {NoVersion},
           found   : Versions \cup {NoVersion},
           content : Contents \cup {NoContent},
           lost    : BOOLEAN]

At(pc) == [pc |-> pc, task |-> NoTask, epoch |-> 0, attempt |-> 0,
           version |-> NoVersion, found |-> NoVersion, content |-> NoContent,
           lost |-> FALSE]

TypeOK ==
    /\ row \in [Tasks -> Row]
    /\ ver \in [Versions -> Version]
    /\ wk \in [Workers -> Worker]
    /\ \A w \in Workers : wk[w].pc \in Busy => wk[w].task \in Tasks
    /\ todo \in [Workers -> SUBSET Tasks]
    /\ faults \in Nat
    /\ retries \in Nat

\* A version may be created with the checksum its publisher expects.
Init ==
    /\ row = [t \in Tasks |-> NoRow]
    /\ ver \in [Versions -> [status : {"pending"}, artifact : {NoArtifact},
                             checksum : Contents \cup {NoContent},
                             orphan : {FALSE}]]
    /\ wk = [w \in Workers |-> At("idle")]
    /\ todo = [w \in Workers |-> {}]
    /\ faults = 0
    /\ retries = 0

-----------------------------------------------------------------------------
\* What a worker may conclude from its claim.

\* The task row still carries the live lease worker w claimed it with.
Holds(w, t) ==
    /\ wk[w].pc \in Busy
    /\ wk[w].task = t
    /\ Fenced(row[t], OwnerOf[w], wk[w].epoch)

DueTasks == {t \in Tasks : Due(row[t])}

\* Mutant of AfterError: the last attempt is not made.
AfterErrorEarly(r) ==
    [r EXCEPT !.pc = IF r.attempt + 1 < MaxAttempts THEN "retry"
                     ELSE IF r.version = NoVersion THEN "fail" ELSE "markError",
              !.found = NoVersion,
              !.content = NoContent]

\* Where runOnce goes with an error (retryOrFail): another attempt later, or
\* the terminal failure, which first marks the version when there is one.
AfterError(r) ==
    [r EXCEPT !.pc = IF r.attempt < MaxAttempts THEN "retry"
                     ELSE IF r.version = NoVersion THEN "fail" ELSE "markError",
              !.found = NoVersion,
              !.content = NoContent]

\* Steps of a worker's memory on the way to success.
Moved(r, pc) == [r EXCEPT !.pc = pc]
Resolved(r, v) == [r EXCEPT !.pc = "bind", !.found = v]
BoundTo(r, v) == [r EXCEPT !.pc = "execute", !.version = v, !.found = NoVersion]
Recorded(r, c) == [r EXCEPT !.pc = "checksum", !.content = c]
Executed(r) == [r EXCEPT !.pc = "markReady", !.content = NoContent]
Cancelled(r) == [r EXCEPT !.lost = TRUE]

Goto(w, r) == wk' = [wk EXCEPT ![w] = r]

Fault == faults < MaxFaults /\ faults' = faults + 1

-----------------------------------------------------------------------------
\* Users of the API.

\* A task is accepted, bound to a version or left to the binder.
Create(t, v) ==
    /\ row[t].status = "absent"
    /\ row' = [row EXCEPT ![t] = NewRow(v)]
    /\ UNCHANGED <<ver, wk, todo, faults, retries>>

\* Mutant of RetryFailed: the statement that leaves the version alone.
RetryFailedTaskOnly(t) ==
    /\ row[t].status = "failed"
    /\ retries < MaxUserRetries
    /\ row' = [row EXCEPT ![t] = RetryFailedRow(@)]
    /\ retries' = retries + 1
    /\ UNCHANGED <<ver, wk, todo, faults>>

\* A failed task and the version it put in error are reset together.
RetryFailed(t) ==
    /\ row[t].status = "failed"
    /\ retries < MaxUserRetries
    /\ row' = [row EXCEPT ![t] = RetryFailedRow(@)]
    /\ ver' = [v \in Versions |->
                 IF v = row[t].version /\ ver[v].status = "error"
                 THEN [ver[v] EXCEPT !.status = "pending"] ELSE ver[v]]
    /\ retries' = retries + 1
    /\ UNCHANGED <<wk, todo, faults>>

\* DeleteVersion soft-deletes the version, DeleteModel only its model.
DeleteVersion(v) ==
    /\ ver[v].status # "deleted"
    /\ ~ver[v].orphan
    /\ ver' = [ver EXCEPT ![v].status = "deleted"]
    /\ UNCHANGED <<row, wk, todo, faults, retries>>

DeleteModel(v) ==
    /\ ~ver[v].orphan
    /\ ver' = [ver EXCEPT ![v].orphan = TRUE]
    /\ UNCHANGED <<row, wk, todo, faults, retries>>

-----------------------------------------------------------------------------
\* The clock.  A tick that lets the lease of a working worker run out is a
\* fault: the worker was stalled or kept from the database for a whole lease.

Elapsed == row' = [t \in Tasks |-> Elapse(row[t])]

OnTime == \A w \in Workers, t \in Tasks : Holds(w, t) => row[t].lease > 1

Tick ==
    /\ \E t \in Tasks : Ticking(row[t])
    /\ OnTime
    /\ Elapsed
    /\ UNCHANGED <<ver, wk, todo, faults, retries>>

LateTick ==
    /\ ~OnTime
    /\ Elapsed
    /\ Fault
    /\ UNCHANGED <<ver, wk, todo, retries>>

-----------------------------------------------------------------------------
\* A worker: due scan, claim and binding.

\* At most Batch of the due tasks.  Which ones (the earliest next_attempt_at)
\* is left open, and so is the order in which the worker goes through them.
ListDue(w) ==
    /\ wk[w].pc = "idle"
    /\ todo[w] = {}
    /\ \E S \in SUBSET DueTasks :
         /\ S # {}
         /\ Cardinality(S) <= Batch
         /\ Cardinality(S) < Batch => S = DueTasks
         /\ todo' = [todo EXCEPT ![w] = S]
    /\ UNCHANGED <<row, ver, wk, faults, retries>>

\* The task row a successful claim returns, as the worker keeps it.
ClaimOf(t) ==
    [pc      |-> IF row[t].version = NoVersion THEN "resolve" ELSE "execute",
     task    |-> t,
     epoch   |-> row[t].epoch + 1,
     attempt |-> row[t].attempt + 1,
     version |-> row[t].version,
     found   |-> NoVersion,
     content |-> NoContent,
     lost    |-> FALSE]

\* The list may be stale: a task that is not due any more is skipped.
Claim(w, t) ==
    /\ wk[w].pc = "idle"
    /\ t \in todo[w]
    /\ todo' = [todo EXCEPT ![w] = @ \ {t}]
    /\ IF Due(row[t])
       THEN /\ row' = [row EXCEPT ![t] = ClaimRow(@, OwnerOf[w])]
            /\ Goto(w, ClaimOf(t))
       ELSE UNCHANGED <<row, wk>>
    /\ UNCHANGED <<ver, faults, retries>>

\* The claim commits but its reply is lost: the worker goes on without it.
ClaimReplyLost(w, t) ==
    /\ wk[w].pc = "idle"
    /\ t \in todo[w]
    /\ Due(row[t])
    /\ todo' = [todo EXCEPT ![w] = @ \ {t}]
    /\ row' = [row EXCEPT ![t] = ClaimRow(@, OwnerOf[w])]
    /\ Fault
    /\ UNCHANGED <<ver, wk, retries>>

\* ResolveBinding finds an existing version that is not ready.
ResolveBinding(w, v) ==
    /\ wk[w].pc = "resolve"
    /\ ver[v].status \in {"pending", "error"}
    /\ ~ver[v].orphan
    /\ Goto(w, Resolved(wk[w], v))
    /\ UNCHANGED <<row, ver, todo, faults, retries>>

\* WHERE clause of BindImportTask: the lease, not the version found before,
\* which may have become ready or have been deleted meanwhile.
Bindable(w) ==
    /\ Fenced(row[wk[w].task], OwnerOf[w], wk[w].epoch)
    /\ row[wk[w].task].version = NoVersion

BecomesBound(w) ==
    IF Bindable(w)
    THEN row' = [row EXCEPT ![wk[w].task] = BindRow(@, wk[w].found)]
    ELSE UNCHANGED row

Bind(w) ==
    /\ wk[w].pc = "bind"
    /\ BecomesBound(w)
    /\ Goto(w, IF Bindable(w) THEN BoundTo(wk[w], wk[w].found) ELSE AfterError(wk[w]))
    /\ UNCHANGED <<ver, todo, faults, retries>>

\* The statement commits but the worker sees an error: the row names a version
\* that the worker does not know of.
BindReplyLost(w) ==
    /\ wk[w].pc = "bind"
    /\ BecomesBound(w)
    /\ Goto(w, AfterError(wk[w]))
    /\ Fault
    /\ UNCHANGED <<ver, todo, retries>>

\* The provider has no metadata, or no model version matches them.
ResolveFails(w) ==
    /\ wk[w].pc = "resolve"
    /\ Goto(w, AfterError(wk[w]))
    /\ UNCHANGED <<row, ver, todo, faults, retries>>

-----------------------------------------------------------------------------
\* A worker: the executor and the renewal goroutine beside it.

\* Renewing extends the lease, or finds it gone: the execution is cancelled.
Renew(w) ==
    LET t == wk[w].task IN
    /\ wk[w].pc \in Executing
    /\ ~wk[w].lost
    /\ IF Fenced(row[t], OwnerOf[w], wk[w].epoch)
       THEN /\ row[t].lease < Lease
            /\ row' = [row EXCEPT ![t] = RenewRow(@)]
            /\ UNCHANGED wk
       ELSE /\ Goto(w, Cancelled(wk[w]))
            /\ UNCHANGED row
    /\ UNCHANGED <<ver, todo, faults, retries>>

\* Any error of Renew cancels the execution, a database error included.
RenewFails(w) ==
    /\ wk[w].pc \in Executing
    /\ ~wk[w].lost
    /\ Goto(w, Cancelled(wk[w]))
    /\ Fault
    /\ UNCHANGED <<row, ver, todo, retries>>

\* The download, the upload or one of their checks fails.
ExecuteFails(w) ==
    /\ wk[w].pc \in Executing
    /\ Goto(w, AfterError(wk[w]))
    /\ UNCHANGED <<row, ver, todo, faults, retries>>

\* Mutant of Recordable: a later import replaces the artifact row.
RecordableAgain(v, a) == ver[v].status # "deleted"

\* The object key is derived from the task, so an artifact recorded by another
\* task never matches, nor does one with another checksum.
Recordable(v, a) == ver[v].artifact \in {NoArtifact, a}

\* The artifact row is inserted, or found there with the same facts.
PersistArtifact(w, c) ==
    LET v == wk[w].version
        a == [task |-> wk[w].task, content |-> c] IN
    /\ wk[w].pc = "execute"
    /\ IF Recordable(v, a)
       THEN ver' = [ver EXCEPT ![v].artifact = a]
       ELSE UNCHANGED ver
    /\ IF Recordable(v, a) /\ ~wk[w].lost
       THEN Goto(w, Recorded(wk[w], c))
       ELSE Goto(w, AfterError(wk[w]))
    /\ UNCHANGED <<row, todo, faults, retries>>

\* WHERE clause of SetModelVersionChecksum.
ChecksumSettable(v, c) ==
    /\ ver[v].checksum \in {NoContent, c}
    /\ \/ ver[v].status = "pending"
       \/ ver[v].status = "ready" /\ ver[v].checksum = c

\* The last statement of Execute.  Its success still counts as an error when
\* the renewal goroutine has reported one; cancelling a renewal in flight
\* makes it report one even though the lease is held (spurious).
SetChecksum(w, spurious) ==
    LET v == wk[w].version
        c == wk[w].content IN
    /\ wk[w].pc = "checksum"
    /\ IF ChecksumSettable(v, c)
       THEN ver' = [ver EXCEPT ![v].checksum = c]
       ELSE UNCHANGED ver
    /\ IF ChecksumSettable(v, c) /\ ~wk[w].lost /\ ~spurious
       THEN Goto(w, Executed(wk[w]))
       ELSE Goto(w, AfterError(wk[w]))
    /\ UNCHANGED <<row, todo, faults, retries>>

-----------------------------------------------------------------------------
\* A worker: finalization.

\* WHERE clause of MarkModelVersionReady: not fenced by the lease.
Readyable(v) ==
    /\ ver[v].status = "pending"
    /\ ver[v].artifact # NoArtifact
    /\ ver[v].artifact.content = ver[v].checksum
    /\ ~ver[v].orphan

BecomesReady(v) ==
    IF Readyable(v) THEN ver' = [ver EXCEPT ![v].status = "ready"]
                    ELSE UNCHANGED ver

\* Mutant of MarkReady: zero rows updated count as success.
MarkReadyUnchecked(w) ==
    /\ wk[w].pc = "markReady"
    /\ BecomesReady(wk[w].version)
    /\ Goto(w, Moved(wk[w], "complete"))
    /\ UNCHANGED <<row, todo, faults, retries>>

\* A version that is ready already (GetReadyModelVersion) is a success too.
MarkReady(w) ==
    LET v == wk[w].version IN
    /\ wk[w].pc = "markReady"
    /\ BecomesReady(v)
    /\ IF Readyable(v) \/ (ver[v].status = "ready" /\ ~ver[v].orphan)
       THEN Goto(w, Moved(wk[w], "complete"))
       ELSE Goto(w, AfterError(wk[w]))
    /\ UNCHANGED <<row, todo, faults, retries>>

\* The statement commits but the worker sees an error.
MarkReadyReplyLost(w) ==
    /\ wk[w].pc = "markReady"
    /\ BecomesReady(wk[w].version)
    /\ Goto(w, AfterError(wk[w]))
    /\ Fault
    /\ UNCHANGED <<row, todo, retries>>

\* A fenced statement that gives the task row the value r, after which the
\* worker is done with it, whether or not the statement found the lease.
Settle(w, pc, r) ==
    LET t == wk[w].task IN
    /\ wk[w].pc = pc
    /\ IF Fenced(row[t], OwnerOf[w], wk[w].epoch)
       THEN row' = [row EXCEPT ![t] = r]
       ELSE UNCHANGED row
    /\ Goto(w, At("idle"))
    /\ UNCHANGED <<ver, todo, faults, retries>>

Complete(w) == Settle(w, "complete", CompleteRow(row[wk[w].task]))

Retry(w) == Settle(w, "retry", RetryRow(row[wk[w].task]))

Fail(w) == Settle(w, "fail", FailRow(row[wk[w].task]))

\* Mutant of MarkErrorAndMaybeModel: the version may be in any status.
MarkErrorInAnyStatus(w) ==
    LET t == wk[w].task
        v == wk[w].version IN
    /\ wk[w].pc = "markError"
    /\ IF /\ Fenced(row[t], OwnerOf[w], wk[w].epoch)
          /\ row[t].version = v
       THEN ver' = [ver EXCEPT ![v].status = "error"]
       ELSE UNCHANGED ver
    /\ Goto(w, Moved(wk[w], "fail"))
    /\ UNCHANGED <<row, todo, faults, retries>>

\* The transaction before Fail, fenced by the same lease; its failure is only
\* logged.
MarkErrorAndMaybeModel(w) ==
    LET t == wk[w].task
        v == wk[w].version IN
    /\ wk[w].pc = "markError"
    /\ IF /\ Fenced(row[t], OwnerOf[w], wk[w].epoch)
          /\ row[t].version = v
          /\ ver[v].status = "pending"
       THEN ver' = [ver EXCEPT ![v].status = "error"]
       ELSE UNCHANGED ver
    /\ Goto(w, Moved(wk[w], "fail"))
    /\ UNCHANGED <<row, todo, faults, retries>>

-----------------------------------------------------------------------------
\* Failures of the database and of the process.

\* A call does not reach the database.
CallFails(w) ==
    /\ \/ wk[w].pc \in {"bind", "markReady"} /\ Goto(w, AfterError(wk[w]))
       \/ wk[w].pc = "markError" /\ Goto(w, Moved(wk[w], "fail"))
       \/ wk[w].pc \in {"complete", "retry", "fail"} /\ Goto(w, At("idle"))
    /\ Fault
    /\ UNCHANGED <<row, ver, todo, retries>>

\* The process ends (a crash, or the shutdown that cancels every call) and
\* with it all the worker remembers; the rows keep the lease until it expires.
Crash(w) ==
    /\ wk[w].pc # "down"
    /\ Goto(w, At("down"))
    /\ todo' = [todo EXCEPT ![w] = {}]
    /\ Fault
    /\ UNCHANGED <<row, ver, retries>>

Restart(w) ==
    /\ wk[w].pc = "down"
    /\ Goto(w, At("idle"))
    /\ UNCHANGED <<row, ver, todo, faults, retries>>

-----------------------------------------------------------------------------
\* What a running worker does of its own accord.
Step(w) ==
    \/ ListDue(w)
    \/ \E t \in Tasks : Claim(w, t)
    \/ \E v \in Versions : ResolveBinding(w, v)
    \/ ResolveFails(w)
    \/ Bind(w)
    \/ ExecuteFails(w)
    \/ \E c \in Contents : PersistArtifact(w, c)
    \/ \E spurious \in BOOLEAN : SetChecksum(w, spurious)
    \/ MarkReady(w)
    \/ Complete(w)
    \/ Retry(w)
    \/ MarkErrorAndMaybeModel(w)
    \/ Fail(w)
    \/ Restart(w)

\* What may go wrong with it.
Mishap(w) ==
    \/ \E t \in Tasks : ClaimReplyLost(w, t)
    \/ BindReplyLost(w)
    \/ RenewFails(w)
    \/ MarkReadyReplyLost(w)
    \/ CallFails(w)
    \/ Crash(w)

User ==
    \/ \E t \in Tasks, v \in Versions \cup {NoVersion} : Create(t, v)
    \/ \E t \in Tasks : RetryFailed(t)
    \/ \E v \in Versions : DeleteVersion(v)
    \/ \E v \in Versions : DeleteModel(v)

Next ==
    \/ User
    \/ Tick
    \/ LateTick
    \/ \E w \in Workers : Step(w) \/ Renew(w) \/ Mishap(w)

Spec == Init /\ [][Next]_vars

(***************************************************************************)
(* Worker.Run never stops scanning while its process runs, the renewal     *)
(* goroutine ticks at half the lease, the clock advances, and the platform *)
(* restarts a process that ended.  Execute is assumed to return.           *)
(***************************************************************************)
Fairness ==
    /\ WF_vars(Tick)
    /\ \A w \in Workers : WF_vars(Step(w)) /\ WF_vars(Renew(w))

FairSpec == Spec /\ Fairness

-----------------------------------------------------------------------------
\* Properties.

\* Two workers never both hold the live lease of a task, even when they write
\* the same owner: Claim (work_store.go:138) must fence an earlier claim by
\* its epoch, whatever expired, crashed or was retried in between.
LeaseExclusive ==
    \A t \in Tasks : \A w1, w2 \in Workers :
        Holds(w1, t) /\ Holds(w2, t) => w1 = w2

\* retryOrFail (import_worker.go:263) gives a task up only after MaxAttempts
\* attempts of the current round, although it decides on the attempt count it
\* remembers from its claim and RetryFailed sets the row's count back to 0.
FailedOnlyExhausted ==
    \A t \in Tasks : row[t].status = "failed" => row[t].attempt >= MaxAttempts

\* A version is ready only with an artifact whose checksum is the version's
\* (MarkModelVersionReady, model.sql:117), whichever worker, however late,
\* wrote the artifact, the checksum and the status.
ReadyVerified ==
    \A v \in Versions : ver[v].status = "ready" =>
        /\ ver[v].artifact # NoArtifact
        /\ ver[v].artifact.content = ver[v].checksum

\* A completed task stands for an import that made its version ready
\* (import_worker.go:235-243); only a deletion hides it afterwards.
CompletedOnlyReady ==
    \A t \in Tasks : row[t].status = "completed" =>
        /\ row[t].version # NoVersion
        /\ ver[row[t].version].status \in {"ready", "deleted"}

\* A version in error is never stranded: some task bound to it is failed, so
\* that RetryFailed resets the version, or is still leased with its attempts
\* used up and on its way there, also after a crash between
\* MarkErrorAndMaybeModel and Fail (import_worker.go:268-277).
ErrorRecoverable ==
    \A v \in Versions : ver[v].status = "error" =>
        \E t \in Tasks :
            /\ row[t].version = v
            /\ \/ row[t].status = "failed"
               \/ row[t].status = "importing" /\ row[t].attempt >= MaxAttempts

\* Once a version is ready, no late worker changes its artifact or checksum
\* or takes it back to pending or error (SetModelVersionChecksum,
\* persistArtifact and MarkModelVersionErrorForTask are guarded for that).
ReadyIsFinal ==
    [][\A v \in Versions : ver[v].status = "ready" =>
          /\ ver'[v].status \in {"ready", "deleted"}
          /\ ver'[v].artifact = ver[v].artifact
          /\ ver'[v].checksum = ver[v].checksum]_vars

\* The row statements implement the lifecycle promised to callers: the
\* holders of a task are the workers whose claim is still fenced by its row.
Lifecycle == INSTANCE TaskLifecycle WITH
    outcome <- [t \in Tasks |-> IF row[t].status \in {"pending", "importing"}
                                THEN "open" ELSE row[t].status],
    holders <- [t \in Tasks |-> {w \in Workers : Holds(w, t)}]

ImplementsLifecycle == Lifecycle!LifecycleSpec

\* Every accepted task is completed or failed in the end, whatever worker
\* crashed with it (the due scan takes expired leases, model.sql:294-317).
TasksSettle ==
    \A t \in Tasks :
        row[t].status \in {"pending", "importing"}
            ~> row[t].status \in {"completed", "failed"}

-----------------------------------------------------------------------------
\* The inductive invariant behind the safety properties.

\* A working worker's memory against the row of its task: its epoch is not
\* ahead of the row's; while the row still has that epoch, the attempt count
\* is the one it remembers; its version is the row's; and its place in
\* runOnce tells what retryOrFail or MarkReady decided before.
ClaimRemembered(w) ==
    LET t == wk[w].task IN
    /\ row[t].status # "absent"
    /\ wk[w].epoch <= row[t].epoch
    /\ row[t].status = "importing" /\ row[t].epoch = wk[w].epoch
          => row[t].attempt = wk[w].attempt
    /\ wk[w].version # NoVersion => row[t].version = wk[w].version

PlaceJustified(w) ==
    /\ wk[w].pc \notin {"resolve", "bind", "retry", "fail"} => wk[w].version # NoVersion
    /\ wk[w].pc = "bind" => wk[w].found # NoVersion
    /\ wk[w].pc \in {"markError", "fail"} => wk[w].attempt >= MaxAttempts
    /\ wk[w].pc = "retry" => wk[w].attempt < MaxAttempts
    /\ wk[w].pc = "complete" => ver[wk[w].version].status \in {"ready", "deleted"}

WorkerInv ==
    \A w \in Workers : wk[w].pc \in Busy => ClaimRemembered(w) /\ PlaceJustified(w)

\* No two claims of a task have the same epoch.
EpochUnique ==
    \A w1, w2 \in Workers :
        /\ wk[w1].pc \in Busy
        /\ wk[w2].pc \in Busy
        /\ wk[w1].task = wk[w2].task
        /\ wk[w1].epoch = wk[w2].epoch
        => w1 = w2

IInv ==
    /\ TypeOK
    /\ WorkerInv
    /\ EpochUnique
    /\ FailedOnlyExhausted
    /\ ReadyVerified
    /\ CompletedOnlyReady
    /\ ErrorRecoverable

=============================================================================
