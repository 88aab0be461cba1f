------------------------------ MODULE ImportJobs ------------------------------
(***************************************************************************)
(* One import task, the workers that execute its attempts and what they    *)
(* leave in Kubernetes: internal/worker/kubernetes_executor.go with        *)
(* internal/data/kubernetes/import_job.go, and the program of the Job,     *)
(* cmd/minio-provision/main.go.                                            *)
(*                                                                         *)
(* Job, PVC and upload Secret are named after task and attempt; all        *)
(* attempts upload to the one object imports/<task>/model.tar.  Each call  *)
(* of the Kubernetes API is a step, so that a worker may stall, crash or   *)
(* lose its lease between any two, while its Job runs on.  Of the task row *)
(* (module ImportTasks) this module keeps the status, the attempt count    *)
(* and who holds the live lease.                                           *)
(***************************************************************************)
EXTENDS Naturals, FiniteSets

CONSTANTS
    Workers, NoWorker,
    Contents,         \* what a download of the requested revision may yield
    NoContent,
    MaxAttempts,      \* Worker.MaxAttempts
    MaxFaults,        \* bound: calls that fail, lost replies, leases and processes
    MaxPodFailures,   \* bound: Pods that fail by themselves
    MaxUserRetries    \* bound: calls of RetryFailed

ASSUME ImportJobsAssumption ==
    /\ NoWorker \notin Workers
    /\ NoContent \notin Contents
    /\ MaxAttempts \in Nat \ {0}
    /\ MaxFaults \in Nat /\ MaxPodFailures \in Nat /\ MaxUserRetries \in Nat

VARIABLES
    task,         \* the row: its status, live claim and attempt count
    ex,           \* ex[w]: where worker w is in Execute, and of which attempt
    job,          \* job[a]: the Job named after attempt a, and its Pod
    pvc,          \* pvc[a]: its staging volume claim
    secret,       \* secret[a]: whether its upload Secret exists
    object,       \* content of the object
    artifact,     \* checksum in the version's row of model_artifacts
    faults, podFailures, retries

store == <<object, artifact>>
cluster == <<job, pvc, secret>>
counters == <<faults, podFailures, retries>>
vars == <<task, ex, job, pvc, secret, object, artifact, faults, podFailures, retries>>

\* An attempt beyond MaxAttempts starts only after a worker lost one.
Attempts == 1 .. MaxAttempts + MaxFaults

Content == Contents \cup {NoContent}

Task == [status  : {"pending", "importing", "completed", "failed"},
         holder  : Workers \cup {NoWorker},
         attempt : {0} \cup Attempts]

Undoing == {"undoSecret", "undoPVC"}
Cleaning == {"deleteJob", "deletePVC", "deleteSecret"}
Places == {"idle", "ensurePVC", "getJob", "getSecret", "createSecret", "createJob", "getAgain",
           "watch", "logs", "verify", "record"} \cup Undoing \cup Cleaning

\* ok is what Execute is going to return once it has cleaned up.
Executor == [pc : Places, attempt : {0} \cup Attempts, sum : Content, ok : BOOLEAN]

Phases == {"none", "created", "started", "uploaded", "succeeded", "failed"}

Job == [phase : Phases, deleting : BOOLEAN, sum : Content]

\* "terminating" lasts as long as a Pod uses the claim.
Claims == {"none", "bound", "terminating"}

TypeOK ==
    /\ task \in Task
    /\ ex \in [Workers -> Executor]
    /\ \A w \in Workers : ex[w].pc # "idle" => ex[w].attempt \in Attempts
    /\ job \in [Attempts -> Job]
    /\ pvc \in [Attempts -> Claims]
    /\ secret \in [Attempts -> BOOLEAN]
    /\ object \in Content
    /\ artifact \in Content
    /\ faults \in 0 .. MaxFaults
    /\ podFailures \in 0 .. MaxPodFailures
    /\ retries \in 0 .. MaxUserRetries

Idle == [pc |-> "idle", attempt |-> 0, sum |-> NoContent, ok |-> FALSE]
NoJob == [phase |-> "none", deleting |-> FALSE, sum |-> NoContent]

Init ==
    /\ task = [status |-> "pending", holder |-> NoWorker, attempt |-> 0]
    /\ ex = [w \in Workers |-> Idle]
    /\ job = [a \in Attempts |-> NoJob]
    /\ pvc = [a \in Attempts |-> "none"]
    /\ secret = [a \in Attempts |-> FALSE]
    /\ object = NoContent
    /\ artifact = NoContent
    /\ faults = 0 /\ podFailures = 0 /\ retries = 0

-----------------------------------------------------------------------------
\* The task as its workers and the user see it.

Fault ==
    /\ faults < MaxFaults
    /\ faults' = faults + 1
    /\ UNCHANGED <<podFailures, retries>>

Goto(w, pc) == ex' = [ex EXCEPT ![w].pc = pc]


\* Claim counts an attempt; the Job of an earlier one is not looked for.
Claim(w) ==
    /\ ex[w].pc = "idle"
    /\ task.status \in {"pending", "importing"}
    /\ task.holder = NoWorker
    /\ task.attempt + 1 \in Attempts
    /\ task' = [status |-> "importing", holder |-> w, attempt |-> task.attempt + 1]
    /\ ex' = [ex EXCEPT ![w] = [Idle EXCEPT !.pc = "ensurePVC", !.attempt = task.attempt + 1]]
    /\ UNCHANGED <<cluster, store, counters>>

\* Where the row goes when Execute of attempt a returns to its holder.
Outcome(ok, a) ==
    IF ok THEN "completed" ELSE IF a >= MaxAttempts THEN "failed" ELSE "pending"

\* Execute returns: MarkReady and Complete, or retryOrFail, all of them without
\* effect on the row when the claim is gone.
Return(w, ok) ==
    /\ ex' = [ex EXCEPT ![w] = Idle]
    /\ task' = IF task.holder = w
               THEN [task EXCEPT !.status = Outcome(ok, ex[w].attempt), !.holder = NoWorker]
               ELSE task

\* The user's retry starts the count over.
RetryFailed ==
    /\ task.status = "failed"
    /\ retries < MaxUserRetries
    /\ task' = [task EXCEPT !.status = "pending", !.attempt = 0]
    /\ retries' = retries + 1
    /\ UNCHANGED <<ex, cluster, store, faults, podFailures>>

-----------------------------------------------------------------------------
\* Execute.

EnsurePVC(w) ==
    LET a == ex[w].attempt IN
    /\ ex[w].pc = "ensurePVC"
    /\ pvc' = [pvc EXCEPT ![a] = IF @ = "none" THEN "bound" ELSE @]
    /\ Goto(w, "getJob")
    /\ UNCHANGED <<task, job, secret, store, counters>>

GetJob(w) ==
    /\ ex[w].pc = "getJob"
    /\ Goto(w, IF job[ex[w].attempt].phase # "none" THEN "watch" ELSE "getSecret")
    /\ UNCHANGED <<task, cluster, store, counters>>

\* A Secret without a Job is refused.
GetSecret(w) ==
    /\ ex[w].pc = "getSecret"
    /\ Goto(w, IF secret[ex[w].attempt] THEN "undoPVC" ELSE "createSecret")
    /\ UNCHANGED <<task, cluster, store, counters>>

CreateSecret(w) ==
    LET a == ex[w].attempt IN
    /\ ex[w].pc = "createSecret"
    /\ secret' = [secret EXCEPT ![a] = TRUE]
    /\ Goto(w, IF secret[a] THEN "undoPVC" ELSE "createJob")
    /\ UNCHANGED <<task, job, pvc, store, counters>>

CreateJob(w) ==
    LET a == ex[w].attempt IN
    /\ ex[w].pc = "createJob"
    /\ IF job[a].phase = "none"
       THEN job' = [job EXCEPT ![a].phase = "created"] /\ Goto(w, "watch")
       ELSE UNCHANGED job /\ Goto(w, "getAgain")
    /\ UNCHANGED <<task, pvc, secret, store, counters>>

GetAgain(w) ==
    /\ ex[w].pc = "getAgain"
    /\ Goto(w, IF job[ex[w].attempt].phase # "none" THEN "watch" ELSE "undoSecret")
    /\ UNCHANGED <<task, cluster, store, counters>>

\* Mutant of Watch: while the Job is not found the worker waits for it.
WatchPatiently(w) ==
    LET a == ex[w].attempt
        phase == job[a].phase IN
    /\ ex[w].pc = "watch"
    /\ phase \in {"succeeded", "failed"}
    /\ Goto(w, IF phase = "succeeded" THEN "logs" ELSE "deleteJob")
    /\ UNCHANGED <<task, cluster, store, counters>>

\* One round of the loop.  Without the Job, or without the Secret it is to
\* refresh, Execute returns and cleans up nothing.
Watch(w) ==
    LET a == ex[w].attempt
        phase == job[a].phase IN
    /\ ex[w].pc = "watch"
    /\ \/ /\ \/ phase = "none"
             \/ phase \in {"created", "started", "uploaded"} /\ ~secret[a]
          /\ Return(w, FALSE)
       \/ /\ phase \in {"succeeded", "failed"}
          /\ Goto(w, IF phase = "succeeded" THEN "logs" ELSE "deleteJob")
          /\ UNCHANGED task
    /\ UNCHANGED <<cluster, store, counters>>

\* finalizeJob: a Job that is being deleted may have lost its Pod.
ReadLogs(w) ==
    LET j == job[ex[w].attempt] IN
    /\ ex[w].pc = "logs"
    /\ \/ /\ j.phase = "succeeded"
          /\ ex' = [ex EXCEPT ![w].pc = "verify", ![w].sum = j.sum]
       \/ /\ j.phase # "succeeded" \/ j.deleting
          /\ Goto(w, "deleteJob")
    /\ UNCHANGED <<task, cluster, store, counters>>

Verify(w) ==
    /\ ex[w].pc = "verify"
    /\ Goto(w, IF object = ex[w].sum THEN "record" ELSE "deleteJob")
    /\ UNCHANGED <<task, cluster, store, counters>>

\* Mutant of Record: an artifact that is there already is an error.
RecordOnce(w) ==
    /\ ex[w].pc = "record"
    /\ artifact' = IF artifact = NoContent THEN ex[w].sum ELSE artifact
    /\ ex' = [ex EXCEPT ![w].pc = "deleteJob", ![w].ok = artifact = NoContent]
    /\ UNCHANGED <<task, cluster, object, counters>>

\* Mutant of Record: a new checksum replaces the one recorded.
RecordLatest(w) ==
    /\ ex[w].pc = "record"
    /\ artifact' = ex[w].sum
    /\ ex' = [ex EXCEPT ![w].pc = "deleteJob", ![w].ok = TRUE]
    /\ UNCHANGED <<task, cluster, object, counters>>

\* The artifact is inserted, or was there with the same checksum.
Record(w) ==
    LET accepted == artifact \in {NoContent, ex[w].sum} IN
    /\ ex[w].pc = "record"
    /\ artifact' = IF accepted THEN ex[w].sum ELSE artifact
    /\ ex' = [ex EXCEPT ![w].pc = "deleteJob", ![w].ok = accepted]
    /\ UNCHANGED <<task, cluster, object, counters>>

-----------------------------------------------------------------------------
\* Cleaning up, and undoing what an attempt created.

\* Where cleaning goes after a call, whatever it answered.
AfterCleaning(pc) ==
    CASE pc = "deleteJob" -> "deletePVC"
      [] pc = "deletePVC" -> "deleteSecret"
      [] pc = "undoSecret" -> "undoPVC"

\* Foreground deletion: the Job is there until its Pod is gone.
DeleteJob(w) ==
    LET a == ex[w].attempt IN
    /\ ex[w].pc = "deleteJob"
    /\ job' = [job EXCEPT ![a].deleting = @ \/ job[a].phase # "none"]
    /\ Goto(w, AfterCleaning("deleteJob"))
    /\ UNCHANGED <<task, pvc, secret, store, counters>>

DeletePVC(w) ==
    LET a == ex[w].attempt IN
    /\ ex[w].pc \in {"deletePVC", "undoPVC"}
    /\ pvc' = [pvc EXCEPT ![a] = IF @ = "bound" THEN "terminating" ELSE @]
    /\ IF ex[w].pc = "undoPVC" THEN Return(w, FALSE)
       ELSE Goto(w, AfterCleaning("deletePVC")) /\ UNCHANGED task
    /\ UNCHANGED <<job, secret, store, counters>>

\* Mutant of DeleteSecret: the Secret of a Job is kept.
KeepSecret(w) ==
    /\ ex[w].pc \in {"deleteSecret", "undoSecret"}
    /\ IF ex[w].pc = "deleteSecret" THEN Return(w, ex[w].ok)
       ELSE Goto(w, AfterCleaning("undoSecret")) /\ UNCHANGED task
    /\ UNCHANGED <<cluster, store, counters>>

DeleteSecret(w) ==
    LET a == ex[w].attempt IN
    /\ ex[w].pc \in {"deleteSecret", "undoSecret"}
    /\ secret' = [secret EXCEPT ![a] = FALSE]
    /\ IF ex[w].pc = "deleteSecret" THEN Return(w, ex[w].ok)
       ELSE Goto(w, AfterCleaning("undoSecret")) /\ UNCHANGED task
    /\ UNCHANGED <<job, pvc, store, counters>>

Step(w) ==
    \/ EnsurePVC(w) \/ GetJob(w) \/ GetSecret(w) \/ CreateSecret(w) \/ CreateJob(w)
    \/ GetAgain(w) \/ Watch(w) \/ ReadLogs(w) \/ Verify(w) \/ Record(w)
    \/ DeleteJob(w) \/ DeletePVC(w) \/ DeleteSecret(w)

-----------------------------------------------------------------------------
\* What goes wrong.

\* Mutant of AfterError: a Job that succeeded counts although nothing is known of
\* its result.
AfterErrorTrusting(w) ==
    LET pc == ex[w].pc IN
    CASE pc \in {"ensurePVC", "getJob", "watch", "undoPVC"} ->
           Return(w, FALSE)
      [] pc = "deleteSecret" ->
           Return(w, ex[w].ok)
      [] pc \in {"getSecret", "createSecret"} ->
           Goto(w, "undoPVC") /\ UNCHANGED task
      [] pc \in {"createJob", "getAgain"} ->
           Goto(w, "undoSecret") /\ UNCHANGED task
      [] pc \in {"logs", "verify", "record"} ->
           ex' = [ex EXCEPT ![w].pc = "deleteJob", ![w].ok = TRUE] /\ UNCHANGED task
      [] pc \in {"deleteJob", "deletePVC", "undoSecret"} ->
           Goto(w, AfterCleaning(pc)) /\ UNCHANGED task

\* What Execute does with the error of a call: it undoes what it knows to have
\* created, cleans up after a finished Job, or just returns.
AfterError(w) ==
    LET pc == ex[w].pc IN
    CASE pc \in {"ensurePVC", "getJob", "watch", "undoPVC"} ->
           Return(w, FALSE)
      [] pc = "deleteSecret" ->
           Return(w, ex[w].ok)
      [] pc \in {"getSecret", "createSecret"} ->
           Goto(w, "undoPVC") /\ UNCHANGED task
      [] pc \in {"createJob", "getAgain"} ->
           Goto(w, "undoSecret") /\ UNCHANGED task
      [] pc \in {"logs", "verify", "record"} ->
           Goto(w, "deleteJob") /\ UNCHANGED task
      [] pc \in {"deleteJob", "deletePVC", "undoSecret"} ->
           Goto(w, AfterCleaning(pc)) /\ UNCHANGED task

\* A call fails before it has any effect.
CallFails(w) ==
    /\ ex[w].pc # "idle"
    /\ Fault
    /\ AfterError(w)
    /\ UNCHANGED <<cluster, store>>

\* A call takes effect but its answer is lost.
ReplyLost(w) ==
    LET a == ex[w].attempt
        pc == ex[w].pc IN
    /\ \/ /\ pc = "ensurePVC" /\ pvc[a] = "none"
          /\ pvc' = [pvc EXCEPT ![a] = "bound"]
          /\ UNCHANGED <<job, secret, artifact>>
       \/ /\ pc = "createSecret" /\ ~secret[a]
          /\ secret' = [secret EXCEPT ![a] = TRUE]
          /\ UNCHANGED <<job, pvc, artifact>>
       \/ /\ pc = "createJob" /\ job[a].phase = "none"
          /\ job' = [job EXCEPT ![a].phase = "created"]
          /\ UNCHANGED <<pvc, secret, artifact>>
       \/ /\ pc = "record" /\ artifact = NoContent
          /\ artifact' = ex[w].sum
          /\ UNCHANGED <<job, pvc, secret>>
    /\ Fault
    /\ AfterError(w)
    /\ UNCHANGED object

\* The lease runs out under a worker that is slow or cannot renew it.
Expire ==
    /\ task.holder # NoWorker
    /\ task' = [task EXCEPT !.holder = NoWorker]
    /\ Fault
    /\ UNCHANGED <<ex, cluster, store>>

\* A renewal that failed cancels the context of Execute, and with it every call
\* that would clean up.
Cancelled(w) ==
    /\ ex[w].pc # "idle"
    /\ task.holder # w
    /\ Return(w, FALSE)
    /\ UNCHANGED <<cluster, store, counters>>

\* So does a renewal that failed although the lease is held.
RenewFails(w) ==
    /\ ex[w].pc # "idle"
    /\ Return(w, FALSE)
    /\ Fault
    /\ UNCHANGED <<cluster, store>>

\* The process ends, and its lease with it.
Crash(w) ==
    /\ ex[w].pc # "idle"
    /\ ex' = [ex EXCEPT ![w] = Idle]
    /\ task' = IF task.holder = w THEN [task EXCEPT !.holder = NoWorker] ELSE task
    /\ Fault
    /\ UNCHANGED <<cluster, store>>

-----------------------------------------------------------------------------
\* The Job and Kubernetes.

\* A Pod starts once it can mount its claim and its Secret.
StartPod(a) ==
    /\ job[a].phase = "created"
    /\ pvc[a] = "bound" /\ secret[a]
    /\ job' = [job EXCEPT ![a].phase = "started"]
    /\ UNCHANGED <<task, ex, pvc, secret, store, counters>>

\* What was downloaded replaces the object, whichever attempt uploaded it.
Upload(a, c) ==
    /\ job[a].phase = "started"
    /\ job' = [job EXCEPT ![a].phase = "uploaded", ![a].sum = c]
    /\ object' = c
    /\ UNCHANGED <<task, ex, pvc, secret, artifact, counters>>

\* The result line is printed and the Job is complete.
Succeed(a) ==
    /\ job[a].phase = "uploaded"
    /\ job' = [job EXCEPT ![a].phase = "succeeded"]
    /\ UNCHANGED <<task, ex, pvc, secret, store, counters>>

FailPod(a) ==
    /\ job[a].phase \in {"started", "uploaded"}
    /\ podFailures < MaxPodFailures
    /\ podFailures' = podFailures + 1
    /\ job' = [job EXCEPT ![a].phase = "failed"]
    /\ UNCHANGED <<task, ex, pvc, secret, store, faults, retries>>

\* ActiveDeadlineSeconds ends a Job whose Pod cannot start.
Deadline(a) ==
    /\ job[a].phase = "created"
    /\ pvc[a] # "bound" \/ ~secret[a]
    /\ job' = [job EXCEPT ![a].phase = "failed"]
    /\ UNCHANGED <<task, ex, pvc, secret, store, counters>>

\* Garbage collection of a deleted Job and its Pod, and of a claim nobody uses.
Collect(a) ==
    /\ job[a].deleting
    /\ job' = [job EXCEPT ![a] = NoJob]
    /\ UNCHANGED <<task, ex, pvc, secret, store, counters>>

Reclaim(a) ==
    /\ pvc[a] = "terminating"
    /\ job[a].phase \in {"none", "created"}
    /\ pvc' = [pvc EXCEPT ![a] = "none"]
    /\ UNCHANGED <<task, ex, job, secret, store, counters>>

RunJob(a) ==
    \/ StartPod(a) \/ (\E c \in Contents : Upload(a, c)) \/ Succeed(a) \/ Deadline(a)

Next ==
    \/ RetryFailed
    \/ Expire
    \/ \E w \in Workers :
         \/ Claim(w) \/ Step(w) \/ CallFails(w) \/ ReplyLost(w)
         \/ Cancelled(w) \/ RenewFails(w) \/ Crash(w)
    \/ \E a \in Attempts : RunJob(a) \/ FailPod(a) \/ Collect(a) \/ Reclaim(a)

Spec == Init /\ [][Next]_vars

(***************************************************************************)
(* Workers scan for due tasks and go on with what they claimed, a renewal  *)
(* notices that the lease is gone, Pods and controllers make progress.     *)
(***************************************************************************)
Fairness ==
    /\ \A w \in Workers : WF_vars(Claim(w) \/ Step(w)) /\ WF_vars(Cancelled(w))
    /\ \A a \in Attempts : WF_vars(RunJob(a)) /\ WF_vars(Collect(a)) /\ WF_vars(Reclaim(a))

FairSpec == Spec /\ Fairness

-----------------------------------------------------------------------------
\* Properties.

Live(a) == job[a].phase \in {"created", "started", "uploaded"}

\* Something of attempt a is there that nobody asked Kubernetes to delete, and
\* no worker executes the attempt.
Abandoned(a) ==
    /\ \/ job[a].phase # "none" /\ ~job[a].deleting
       \/ pvc[a] = "bound"
       \/ secret[a]
    /\ \A w \in Workers : ex[w].attempt # a

\* Every fault leaves the objects of at most one attempt behind: Execute
\* (kubernetes_executor.go:54-176) cleans up on every path that no fault cut
\* short, also when the user's first retry brings the names of the round before
\* back.  From the second retry on, a volume claim may be gone before its Job, so
\* that an attempt meets the Job, claims a new volume, sees the Job disappear and
\* leaves the claim: at most once for each name.
LeftoversBounded ==
    Cardinality({a \in Attempts : Abandoned(a)})
        <= faults + (IF retries <= 1 THEN 0 ELSE MaxAttempts)

\* A task is completed only when a Job stored the object and its checksum was
\* recorded, whatever failed on the way (finalizeJob, Worker.runOnce).
CompletedStored ==
    task.status = "completed" => artifact # NoContent /\ object # NoContent

\* Jobs of several attempts may bring different contents: the checksum recorded
\* first stays (persistArtifact, import_executor.go:260-294).
ArtifactFinal == [][artifact # NoContent => artifact' = artifact]_vars

\* The lease is held by the worker that executes the attempt of the row.
HolderExecutes ==
    \A w \in Workers :
        task.holder = w =>
            /\ task.status = "importing"
            /\ ex[w].pc # "idle" /\ ex[w].attempt = task.attempt

\* Before the user retries, attempts are executed by one worker each and in the
\* order they were counted.
AttemptsApart ==
    retries = 0 =>
        /\ \A w \in Workers : ex[w].attempt <= task.attempt
        /\ \A v, w \in Workers :
             ex[v].pc # "idle" /\ ex[w].pc # "idle" /\ ex[v].attempt = ex[w].attempt => v = w

\* What a Job, an executor and the row claim about the object and the artifact.
Stored ==
    /\ \A a \in Attempts :
         job[a].phase \in {"uploaded", "succeeded"} => job[a].sum # NoContent /\ object # NoContent
    /\ \A w \in Workers :
         /\ ex[w].pc \in {"verify", "record"} => ex[w].sum # NoContent /\ object # NoContent
         /\ ex[w].ok => ex[w].pc \in Cleaning /\ artifact # NoContent /\ object # NoContent
    /\ CompletedStored

\* An idle worker remembers no attempt.
IdleClean == \A w \in Workers : ex[w].pc = "idle" => ex[w].attempt = 0

\* An attempt beyond MaxAttempts follows the loss of a lease, one for each.
AttemptsReached ==
    LET reached == 1 .. MaxAttempts + faults IN
    /\ task.attempt \in {0} \cup reached
    /\ task.status = "pending" => task.attempt < MaxAttempts
    /\ task.status = "importing" /\ task.holder = NoWorker => task.attempt + 1 \in reached
    /\ \A w \in Workers : ex[w].attempt \in {0} \cup reached
    /\ \A a \in Attempts \ reached : job[a].phase = "none" /\ pvc[a] = "none" /\ ~secret[a]

\* The Job is gone or going, the claim and the Secret are not left.
Cleared(a) ==
    /\ job[a].phase = "none" \/ job[a].deleting
    /\ pvc[a] # "bound"
    /\ ~secret[a]

\* The attempt's own Job, with what it needs.
Running(a) == job[a].phase # "none" /\ ~job[a].deleting /\ secret[a]

Finished(a) == job[a].phase \in {"succeeded", "failed"}

\* What is there of attempt a when no fault disturbed its execution up to pc.
\* In the first round the claim is bound from ensurePVC to deletePVC.
AsExpected(pc, a) ==
    /\ pc \in {"ensurePVC", "deleteSecret"} \/ (retries = 0 => pvc[a] = "bound")
    /\ \/ pc = "ensurePVC" /\ Cleared(a) /\ (retries = 0 => pvc[a] = "none")
       \/ pc = "getJob" /\ ~secret[a] /\ (job[a].phase # "none" => Cleared(a))
       \/ pc \in {"getSecret", "createSecret"} /\ job[a].phase = "none" /\ ~secret[a]
       \/ pc = "createJob" /\ job[a].phase = "none" /\ secret[a]
       \/ pc = "watch" /\ (Cleared(a) \/ Running(a))
       \/ pc \in {"logs", "verify", "record", "deleteJob"}
             /\ (Cleared(a) \/ (Running(a) /\ Finished(a)))
       \/ pc = "deletePVC" /\ (job[a].phase = "none" \/ job[a].deleting)
       \/ pc = "deleteSecret" /\ (job[a].phase = "none" \/ job[a].deleting) /\ pvc[a] # "bound"

\* Before the second retry: no fault touched attempt a.  Whoever executes it holds
\* the lease and has what he expects, and otherwise it is cleared.  An attempt that
\* this round has not begun has no Job without its claim.
Tidy(a) ==
    /\ \A w \in Workers : ex[w].attempt = a => task.holder = w /\ AsExpected(ex[w].pc, a)
    /\ (\A w \in Workers : ex[w].attempt # a) => Cleared(a)
    /\ job[a].deleting => Finished(a)
    /\ retries = 0 /\ task.attempt < a => job[a].phase = "none" /\ pvc[a] = "none"
    /\ retries = 0 \/ task.attempt < a \/ (\E w \in Workers : ex[w].attempt = a /\ ex[w].pc = "ensurePVC")
          => (job[a].phase # "none" => pvc[a] # "none")

FaultsSpoil ==
    retries <= 1 => Cardinality({a \in Attempts : ~Tidy(a)}) <= faults

\* The inductive invariant of the proofs: the types, and what the place a worker
\* or a Job has reached says of the row, the object and the artifact.
IInv == TypeOK /\ HolderExecutes /\ AttemptsApart /\ Stored

\* The one behind LeftoversBounded.
LeftoversInv == IInv /\ IdleClean /\ AttemptsReached /\ FaultsSpoil

\* Every fault and every Pod failure costs at most one attempt: with fewer of them
\* than attempts the task is completed, whatever Jobs, claims, Secrets and artifact
\* they left (Worker.runOnce and Execute).
Completes == <>(task.status = "completed" \/ faults + podFailures >= MaxAttempts)

\* Execute always returns, although it waits for a Job without a deadline of its
\* own (kubernetes_executor.go:143-175).
ExecutionsEnd == \A w \in Workers : ex[w].pc # "idle" ~> ex[w].pc = "idle"

\* docs/superpowers/specs/2026-09-14-model-service-design.md:73 says that an old
\* worker's result does not overwrite the current one.  The Job of a lost attempt
\* uploads to the same object.
CompletedInPlace == task.status = "completed" => object = artifact
=============================================================================
