--------------------------- MODULE ImportJobsProofs ---------------------------
(***************************************************************************)
(* Proofs about ImportJobs for any number of workers, contents, attempts,  *)
(* faults, Pod failures and user retries.                                  *)
(***************************************************************************)
EXTENDS ImportJobs, FiniteSetTheorems, TLAPS

\* Nothing is there yet: no claim (work_store.go Create), Job or object.
LEMMA InitIInv == Init => IInv
<1> SUFFICES ASSUME Init PROVE IInv
  OBVIOUS
<1> USE ImportJobsAssumption DEF Init, Idle, NoJob
<1>1. TypeOK
  BY DEF TypeOK, Task, Executor, Places, Undoing, Cleaning, Job, Phases, Claims, Content
<1>2. HolderExecutes
  BY DEF HolderExecutes
<1>3. AttemptsApart
  BY DEF AttemptsApart
<1>4. Stored
  BY DEF Stored, CompletedStored
<1> QED
  BY <1>1, <1>2, <1>3, <1>4 DEF IInv

-----------------------------------------------------------------------------
\* What a worker inside Execute may do to the row and to its own place.

Leaves(w) ==
    /\ ex' = [ex EXCEPT ![w] = Idle]
    /\ task' \in Task
    /\ task'.attempt = task.attempt
    /\ task'.holder = (IF task.holder = w THEN NoWorker ELSE task.holder)
    /\ task'.status # task.status => task.holder = w
    /\ task'.status = "completed" => task.status = "completed" \/ ex[w].ok
    /\ task.holder = w /\ task.status # "pending" /\ task'.status = "pending" => ex[w].attempt < MaxAttempts
    /\ task.holder = w /\ task'.status = "importing" => faults' = faults + 1

Moves(w) ==
    /\ task' = task
    /\ ex' \in [Workers -> Executor]
    /\ \A v \in Workers \ {w} : ex'[v] = ex[v]
    /\ ex'[w].attempt = ex[w].attempt
    /\ ex'[w].pc # "idle"

Acts(w) == Step(w) \/ CallFails(w) \/ ReplyLost(w) \/ Cancelled(w) \/ RenewFails(w) \/ Crash(w)

\* Return gives up the claim with FALSE, or completes the task with TRUE
\* (Worker.runOnce, import_worker.go:220-281).
LEMMA Returning ==
    ASSUME TypeOK, NEW w \in Workers, NEW ok \in BOOLEAN, ok => ex[w].ok, Return(w, ok)
    PROVE  Leaves(w)
<1>1. task' \in Task
  BY ImportJobsAssumption DEF Return, Outcome, TypeOK, Task
<1>2. ex[w].attempt \in Nat /\ MaxAttempts \in Nat
  BY ImportJobsAssumption DEF TypeOK, Executor, Attempts
<1>3. task.holder = w => /\ task'.status = Outcome(ok, ex[w].attempt)
                         /\ task'.holder = NoWorker
                         /\ task'.attempt = task.attempt
  BY DEF Return, TypeOK, Task
<1>4. task.holder # w => task' = task
  BY DEF Return
<1>5. ex' = [ex EXCEPT ![w] = Idle]
  BY DEF Return
<1> QED
  BY <1>1, <1>2, <1>3, <1>4, <1>5 DEF Leaves, Outcome

\* Any other step of Execute goes to another place of the same attempt.
LEMMA Going ==
    ASSUME TypeOK, NEW w \in Workers, NEW pc \in Places \ {"idle"}, Goto(w, pc)
    PROVE  /\ task' = task => Moves(w)
           /\ ex'[w].pc = pc
           /\ ex'[w].ok = ex[w].ok
           /\ ex'[w].sum = ex[w].sum
  BY DEF Goto, Moves, TypeOK, Executor

\* The error of a call ends Execute or takes it to its cleaning, never to a
\* place that depends on the call's success (kubernetes_executor.go:54-176).
LEMMA Erring ==
    ASSUME TypeOK, NEW w \in Workers, ex[w].pc # "idle", AfterError(w)
    PROVE  \/ Leaves(w)
           \/ /\ Moves(w)
              /\ ex'[w].ok = ex[w].ok
              /\ ex'[w].pc \in Undoing \cup Cleaning
              /\ ex[w].pc \in Cleaning => ex'[w].pc \in Cleaning
<1> DEFINE pc == ex[w].pc
<1>0. ex[w] \in Executor
  BY DEF TypeOK
<1>1. CASE pc \in {"ensurePVC", "getJob", "watch", "undoPVC"}
  <2>1. Return(w, FALSE)
    BY <1>1 DEF AfterError
  <2> QED
    BY <2>1, Returning
<1>2. CASE pc = "deleteSecret"
  <2>1. Return(w, ex[w].ok) /\ ex[w].ok \in BOOLEAN
    BY <1>0, <1>2 DEF AfterError, Executor
  <2> QED
    BY <2>1, Returning
<1>3. CASE pc \in {"getSecret", "createSecret"}
  <2>1. Goto(w, "undoPVC") /\ task' = task
    BY <1>3 DEF AfterError
  <2>2. /\ Moves(w)
        /\ ex'[w].ok = ex[w].ok
        /\ ex'[w].pc \in Undoing \cup Cleaning
    BY <2>1, Going DEF Places, Undoing, Cleaning
  <2> QED
    BY <1>3, <2>2 DEF Cleaning
<1>4. CASE pc \in {"createJob", "getAgain"}
  <2>1. Goto(w, "undoSecret") /\ task' = task
    BY <1>4 DEF AfterError
  <2>2. /\ Moves(w)
        /\ ex'[w].ok = ex[w].ok
        /\ ex'[w].pc \in Undoing \cup Cleaning
    BY <2>1, Going DEF Places, Undoing, Cleaning
  <2> QED
    BY <1>4, <2>2 DEF Cleaning
<1>5. CASE pc \in {"logs", "verify", "record"}
  <2>1. Goto(w, "deleteJob") /\ task' = task
    BY <1>5 DEF AfterError
  <2>2. /\ Moves(w)
        /\ ex'[w].ok = ex[w].ok
        /\ ex'[w].pc \in Undoing \cup Cleaning
    BY <2>1, Going DEF Places, Undoing, Cleaning
  <2> QED
    BY <1>5, <2>2 DEF Cleaning
<1>6. CASE pc \in {"deleteJob", "deletePVC", "undoSecret"}
  <2>1. Goto(w, AfterCleaning(pc)) /\ task' = task
    BY <1>6 DEF AfterError
  <2>2. /\ AfterCleaning(pc) \in {"deletePVC", "deleteSecret", "undoPVC"}
        /\ pc \in Cleaning => AfterCleaning(pc) \in Cleaning
    BY <1>6 DEF AfterCleaning, Cleaning
  <2>3. AfterCleaning(pc) \in Places \ {"idle"}
    BY <2>2 DEF Places, Undoing, Cleaning
  <2>4. Moves(w) /\ ex'[w].ok = ex[w].ok /\ ex'[w].pc = AfterCleaning(pc)
    BY <2>1, <2>3, Going
  <2> QED
    BY <2>2, <2>4 DEF Undoing, Cleaning
<1> QED
  BY <1>0, <1>1, <1>2, <1>3, <1>4, <1>5, <1>6 DEF Executor, Places, Undoing, Cleaning

\* A worker in Execute stays in its attempt or leaves Execute; it changes the row
\* only by leaving (kubernetes_executor.go:47-176, import_worker.go:195-281).
LEMMA Acting ==
    ASSUME TypeOK, NEW w \in Workers, Acts(w)
    PROVE  /\ Leaves(w) \/ Moves(w)
           /\ ex[w].pc # "idle"
           /\ retries' = retries
<1> USE DEF counters, store, cluster
<1>0. ex[w] \in Executor
  BY DEF TypeOK
<1>1. CASE EnsurePVC(w)
  BY <1>1, Going DEF EnsurePVC, Places
<1>2. CASE GetJob(w)
  BY <1>2, Going DEF GetJob, Places
<1>3. CASE GetSecret(w)
  BY <1>3, Going DEF GetSecret, Places, Undoing
<1>4. CASE CreateSecret(w)
  BY <1>4, Going DEF CreateSecret, Places, Undoing
<1>5. CASE CreateJob(w)
  BY <1>5, Going DEF CreateJob, Places
<1>6. CASE GetAgain(w)
  BY <1>6, Going DEF GetAgain, Places, Undoing
<1>7. CASE Watch(w)
  BY <1>7, Going, Returning DEF Watch, Places, Cleaning
<1>8. CASE ReadLogs(w)
  <2>1. CASE Goto(w, "deleteJob")
    BY <1>8, <2>1, Going DEF ReadLogs, Places, Cleaning
  <2>2. CASE ex' = [ex EXCEPT ![w].pc = "verify", ![w].sum = job[ex[w].attempt].sum]
    <3>1. job[ex[w].attempt].sum \in Content
      BY <1>8 DEF ReadLogs, TypeOK, Job
    <3> QED
      BY <1>0, <1>8, <2>2, <3>1 DEF ReadLogs, Moves, TypeOK, Executor, Places
  <2> QED
    BY <1>8, <2>1, <2>2 DEF ReadLogs
<1>9. CASE Verify(w)
  BY <1>9, Going DEF Verify, Places, Cleaning
<1>10. CASE Record(w)
  <2> DEFINE accepted == artifact \in {NoContent, ex[w].sum}
  <2>1. ex' = [ex EXCEPT ![w].pc = "deleteJob", ![w].ok = accepted] /\ task' = task
        /\ ex[w].pc # "idle" /\ retries' = retries
    BY <1>10 DEF Record
  <2>2. accepted \in BOOLEAN
    OBVIOUS
  <2> HIDE DEF accepted
  <2> QED
    BY <1>0, <2>1, <2>2 DEF Moves, TypeOK, Executor, Places, Cleaning
<1>11. CASE DeleteJob(w)
  BY <1>11, Going DEF DeleteJob, AfterCleaning, Places, Cleaning
<1>12. CASE DeletePVC(w)
  BY <1>12, Going, Returning DEF DeletePVC, AfterCleaning, Places, Cleaning
<1>13. CASE DeleteSecret(w)
  <2>1. ex[w].ok \in BOOLEAN
    BY <1>0 DEF Executor
  <2> QED
    BY <1>13, <2>1, Going, Returning DEF DeleteSecret, AfterCleaning, Places, Undoing
<1>14. CASE CallFails(w)
  BY <1>14, Erring DEF CallFails, Fault
<1>15. CASE ReplyLost(w)
  BY <1>15, Erring DEF ReplyLost, Fault
<1>16. CASE Cancelled(w)
  BY <1>16, Returning DEF Cancelled
<1>17. CASE RenewFails(w)
  BY <1>17, Returning DEF RenewFails, Fault
<1>18. CASE Crash(w)
  <2>1. task' \in Task /\ task'.attempt = task.attempt /\ task'.status = task.status
    BY <1>18 DEF Crash, TypeOK, Task
  <2> QED
    BY <1>18, <2>1 DEF Crash, Fault, Leaves, TypeOK, Task
<1> QED
  BY <1>1, <1>2, <1>3, <1>4, <1>5, <1>6, <1>7, <1>8, <1>9, <1>10, <1>11, <1>12, <1>13,
     <1>14, <1>15, <1>16, <1>17, <1>18 DEF Acts, Step

-----------------------------------------------------------------------------
\* The types.

\* Whatever a worker does keeps the types of Kubernetes' objects, of the stored
\* object and of the artifact (every call of Execute).
LEMMA ActingTyped ==
    ASSUME TypeOK, NEW w \in Workers, Acts(w)
    PROVE  TypeOK'
<1> USE DEF counters, store, cluster
<1>0. ex[w] \in Executor /\ ex[w].pc # "idle" /\ ex[w].attempt \in Attempts
  BY Acting DEF TypeOK
<1>1. task' \in Task /\ ex' \in [Workers -> Executor]
  <2>1. CASE Leaves(w)
    BY <2>1, ImportJobsAssumption DEF Leaves, TypeOK, Executor, Idle, Places, Content
  <2>2. CASE Moves(w)
    BY <2>2 DEF Moves, TypeOK
  <2> QED
    BY <2>1, <2>2, Acting
<1>2. \A v \in Workers : ex'[v].pc # "idle" => ex'[v].attempt \in Attempts
  <2>1. CASE Leaves(w)
    BY <2>1 DEF Leaves, TypeOK, Idle
  <2>2. CASE Moves(w)
    BY <1>0, <2>2 DEF Moves, TypeOK
  <2> QED
    BY <2>1, <2>2, Acting
<1>3. pvc' \in [Attempts -> Claims]
  <2>1. pvc' = pvc \/ \E c \in Claims : pvc' = [pvc EXCEPT ![ex[w].attempt] = c]
    BY <1>0 DEF Acts, Step, EnsurePVC, GetJob, GetSecret, CreateSecret, CreateJob, GetAgain,
       Watch, ReadLogs, Verify, Record, DeleteJob, DeletePVC, DeleteSecret, CallFails,
       ReplyLost, Cancelled, RenewFails, Crash, TypeOK, Claims
  <2> QED
    BY <1>0, <2>1 DEF TypeOK
<1>4. secret' \in [Attempts -> BOOLEAN]
  <2>1. secret' = secret \/ \E b \in BOOLEAN : secret' = [secret EXCEPT ![ex[w].attempt] = b]
    BY DEF Acts, Step, EnsurePVC, GetJob, GetSecret, CreateSecret, CreateJob, GetAgain,
       Watch, ReadLogs, Verify, Record, DeleteJob, DeletePVC, DeleteSecret, CallFails,
       ReplyLost, Cancelled, RenewFails, Crash
  <2> QED
    BY <1>0, <2>1 DEF TypeOK
<1>5. job' \in [Attempts -> Job]
  <2>1. \/ job' = job
        \/ job' = [job EXCEPT ![ex[w].attempt].phase = "created"]
        \/ job' = [job EXCEPT ![ex[w].attempt].deleting =
                                @ \/ job[ex[w].attempt].phase # "none"]
    BY DEF Acts, Step, EnsurePVC, GetJob, GetSecret, CreateSecret, CreateJob, GetAgain,
       Watch, ReadLogs, Verify, Record, DeleteJob, DeletePVC, DeleteSecret, CallFails,
       ReplyLost, Cancelled, RenewFails, Crash
  <2>2. CASE job' = [job EXCEPT ![ex[w].attempt].phase = "created"]
    BY <1>0, <2>2 DEF TypeOK, Job, Phases
  <2>3. CASE job' = [job EXCEPT ![ex[w].attempt].deleting =
                                 @ \/ job[ex[w].attempt].phase # "none"]
    <3> DEFINE b == job[ex[w].attempt].deleting \/ job[ex[w].attempt].phase # "none"
    <3>1. b \in BOOLEAN /\ job' = [job EXCEPT ![ex[w].attempt].deleting = b]
      BY <1>0, <2>3 DEF TypeOK, Job
    <3> HIDE DEF b
    <3> QED
      BY <1>0, <3>1 DEF TypeOK, Job
  <2> QED
    BY <2>1, <2>2, <2>3 DEF TypeOK
<1>6. object' = object /\ artifact' \in Content
  BY <1>0 DEF Acts, Step, EnsurePVC, GetJob, GetSecret, CreateSecret, CreateJob, GetAgain,
     Watch, ReadLogs, Verify, Record, DeleteJob, DeletePVC, DeleteSecret, CallFails,
     ReplyLost, Cancelled, RenewFails, Crash, TypeOK, Executor
<1>7. /\ faults' \in 0 .. MaxFaults
      /\ podFailures' = podFailures /\ retries' = retries
  <2>1. faults' = faults \/ Fault
    BY DEF Acts, Step, EnsurePVC, GetJob, GetSecret, CreateSecret, CreateJob, GetAgain,
       Watch, ReadLogs, Verify, Record, DeleteJob, DeletePVC, DeleteSecret, CallFails,
       ReplyLost, Cancelled, RenewFails, Crash
  <2>2. podFailures' = podFailures
    BY DEF Acts, Step, EnsurePVC, GetJob, GetSecret, CreateSecret, CreateJob, GetAgain,
       Watch, ReadLogs, Verify, Record, DeleteJob, DeletePVC, DeleteSecret, CallFails,
       ReplyLost, Cancelled, RenewFails, Crash, Fault
  <2> QED
    BY <2>1, <2>2, Acting, ImportJobsAssumption DEF Fault, TypeOK
<1> QED
  BY <1>1, <1>2, <1>3, <1>4, <1>5, <1>6, <1>7 DEF TypeOK

\* A step of the Job of attempt a, or of Kubernetes on its objects.
Runs(a) == RunJob(a) \/ FailPod(a) \/ Collect(a) \/ Reclaim(a)

\* Jobs and controllers leave the row and the workers alone
\* (cmd/minio-provision/main.go only uploads).
LEMMA RunningTyped ==
    ASSUME TypeOK, NEW a \in Attempts, Runs(a)
    PROVE  /\ TypeOK'
           /\ task' = task /\ ex' = ex /\ artifact' = artifact /\ retries' = retries
<1> USE DEF counters, store
<1>1. /\ task' = task /\ ex' = ex /\ artifact' = artifact /\ secret' = secret
      /\ faults' = faults /\ retries' = retries
  BY DEF Runs, RunJob, StartPod, Upload, Succeed, Deadline, FailPod, Collect, Reclaim
<1>2. podFailures' \in 0 .. MaxPodFailures
  BY ImportJobsAssumption
     DEF Runs, RunJob, StartPod, Upload, Succeed, Deadline, FailPod, Collect, Reclaim, TypeOK
<1>3. object' \in Content
  BY DEF Runs, RunJob, StartPod, Upload, Succeed, Deadline, FailPod, Collect, Reclaim, TypeOK,
     Content
<1>4. pvc' \in [Attempts -> Claims]
  BY DEF Runs, RunJob, StartPod, Upload, Succeed, Deadline, FailPod, Collect, Reclaim, TypeOK,
     Claims
<1>5. job' \in [Attempts -> Job]
  <2>1. \/ job' = job
        \/ \E p \in Phases : job' = [job EXCEPT ![a].phase = p]
        \/ \E c \in Contents : job' = [job EXCEPT ![a].phase = "uploaded", ![a].sum = c]
        \/ job' = [job EXCEPT ![a] = NoJob]
    BY DEF Runs, RunJob, StartPod, Upload, Succeed, Deadline, FailPod, Collect, Reclaim, Phases
  <2>2. CASE \E p \in Phases : job' = [job EXCEPT ![a].phase = p]
    BY <2>2 DEF TypeOK, Job
  <2>3. CASE \E c \in Contents : job' = [job EXCEPT ![a].phase = "uploaded", ![a].sum = c]
    <3>1. PICK c \in Contents : job' = [job EXCEPT ![a].phase = "uploaded", ![a].sum = c]
      BY <2>3
    <3> DEFINE r == job[a]
    <3>4. r \in Job
      BY DEF TypeOK
    <3> HIDE DEF r
    <3>2. [r EXCEPT !.phase = "uploaded", !.sum = c] \in Job
      BY <3>4 DEF Job, Phases, Content
    <3> USE DEF r
    <3>3. job' = [job EXCEPT ![a] = [job[a] EXCEPT !.phase = "uploaded", !.sum = c]]
      BY <3>1 DEF TypeOK
    <3> QED
      BY <3>2, <3>3 DEF TypeOK
  <2>4. CASE job' = [job EXCEPT ![a] = NoJob]
    <3>1. NoJob \in Job
      BY DEF NoJob, Job, Phases, Content
    <3> QED
      BY <2>4, <3>1 DEF TypeOK
  <2> QED
    BY <2>1, <2>2, <2>3, <2>4 DEF TypeOK
<1> QED
  BY <1>1, <1>2, <1>3, <1>4, <1>5 DEF TypeOK

\* Claim, the user's retry and an expired lease change only the row and, when a
\* task is claimed, the place of the worker (work_store.go).
LEMMA RowTyped ==
    ASSUME TypeOK, RetryFailed \/ Expire \/ \E w \in Workers : Claim(w)
    PROVE  /\ TypeOK'
           /\ UNCHANGED <<job, pvc, secret, object, artifact>>
<1> USE DEF counters, store, cluster
<1>1. CASE RetryFailed
  <2>1. task' \in Task
    BY <1>1 DEF RetryFailed, TypeOK, Task
  <2>2. retries' \in 0 .. MaxUserRetries
    BY <1>1, ImportJobsAssumption DEF RetryFailed, TypeOK
  <2> QED
    BY <1>1, <2>1, <2>2 DEF RetryFailed, TypeOK
<1>2. CASE Expire
  BY <1>2, ImportJobsAssumption DEF Expire, Fault, TypeOK, Task
<1>3. ASSUME NEW w \in Workers, Claim(w)
      PROVE  TypeOK' /\ UNCHANGED <<job, pvc, secret, object, artifact>>
  <2>1. task.attempt + 1 \in Attempts
    BY <1>3 DEF Claim
  <2>2. task' \in Task
    BY <1>3, <2>1 DEF Claim, Task
  <2>3. ex' \in [Workers -> Executor]
    BY <1>3, <2>1 DEF Claim, TypeOK, Executor, Idle, Places, Content
  <2>4. \A v \in Workers : ex'[v].pc # "idle" => ex'[v].attempt \in Attempts
    BY <1>3, <2>1 DEF Claim, TypeOK, Idle
  <2> QED
    BY <1>3, <2>2, <2>3, <2>4 DEF Claim, TypeOK
<1> QED
  BY <1>1, <1>2, <1>3

-----------------------------------------------------------------------------
\* Leases and attempts.

\* The holder of the lease executes the attempt of the row: Claim counts the
\* attempt and takes the lease in one statement (queries/model.sql:247-255).
LEMMA HolderKept ==
    ASSUME IInv, Next
    PROVE  HolderExecutes'
<1> USE DEF IInv
<1>1. ASSUME NEW w \in Workers, Acts(w) PROVE HolderExecutes'
  <2>1. CASE Leaves(w)
    BY <2>1, ImportJobsAssumption DEF Leaves, HolderExecutes, TypeOK, Task
  <2>2. CASE Moves(w)
    BY <2>2 DEF Moves, HolderExecutes
  <2> QED
    BY <1>1, <2>1, <2>2, Acting
<1>2. ASSUME NEW a \in Attempts, Runs(a) PROVE HolderExecutes'
  BY <1>2, RunningTyped DEF HolderExecutes
<1>3. CASE RetryFailed
  BY <1>3 DEF RetryFailed, HolderExecutes, TypeOK, Task
<1>4. CASE Expire
  BY <1>4, ImportJobsAssumption DEF Expire, HolderExecutes, TypeOK, Task
<1>5. ASSUME NEW w \in Workers, Claim(w) PROVE HolderExecutes'
  BY <1>5 DEF Claim, HolderExecutes, Idle, TypeOK
<1> QED
  BY <1>1, <1>2, <1>3, <1>4, <1>5 DEF Next, Acts, Runs

\* No attempt is claimed twice before a user retry, because every claim counts.
LEMMA ApartKept ==
    ASSUME IInv, Next
    PROVE  AttemptsApart'
<1> USE DEF IInv
<1>1. ASSUME NEW w \in Workers, Acts(w) PROVE AttemptsApart'
  <2>1. CASE Leaves(w)
    <3>1. task.attempt \in Nat
      BY DEF TypeOK, Task, Attempts
    <3> QED
      BY <1>1, <2>1, <3>1, Acting DEF Leaves, AttemptsApart, TypeOK, Idle
  <2>2. CASE Moves(w)
    BY <1>1, <2>2, Acting DEF Moves, AttemptsApart
  <2> QED
    BY <1>1, <2>1, <2>2, Acting
<1>2. ASSUME NEW a \in Attempts, Runs(a) PROVE AttemptsApart'
  BY <1>2, RunningTyped DEF AttemptsApart
<1>3. CASE RetryFailed
  BY <1>3 DEF RetryFailed, AttemptsApart, TypeOK
<1>4. CASE Expire
  BY <1>4 DEF Expire, Fault, AttemptsApart, TypeOK, Task
<1>5. ASSUME NEW w \in Workers, Claim(w) PROVE AttemptsApart'
  <2> SUFFICES ASSUME retries = 0 PROVE AttemptsApart'
    BY <1>5 DEF Claim, AttemptsApart, counters
  <2>1. /\ task.attempt \in Nat /\ task'.attempt = task.attempt + 1
        /\ \A v \in Workers : ex[v].attempt \in Nat
    BY <1>5 DEF Claim, TypeOK, Task, Executor, Attempts
  <2>2. /\ ex'[w].attempt = task'.attempt
        /\ \A v \in Workers \ {w} : ex'[v] = ex[v]
    BY <1>5 DEF Claim, Idle, TypeOK
  <2>3. \A v \in Workers : ex[v].attempt < task'.attempt
    BY <2>1 DEF AttemptsApart
  <2> QED
    BY <2>1, <2>2, <2>3 DEF AttemptsApart
<1> QED
  BY <1>1, <1>2, <1>3, <1>4, <1>5 DEF Next, Acts, Runs

-----------------------------------------------------------------------------
\* The object and the artifact.

\* A worker does not touch the object, and the artifact only when none was
\* recorded (persistArtifact, import_executor.go:260-294).
LEMMA ActingStores ==
    ASSUME TypeOK, Stored, NEW w \in Workers, Acts(w)
    PROVE  /\ object' = object
           /\ artifact # NoContent => artifact' = artifact
           /\ \A a \in Attempts :
                job'[a].phase \in {"uploaded", "succeeded"} =>
                   job'[a].phase = job[a].phase /\ job'[a].sum = job[a].sum
<1>1. object' = object
  BY DEF Acts, Step, EnsurePVC, GetJob, GetSecret, CreateSecret, CreateJob, GetAgain,
     Watch, ReadLogs, Verify, Record, DeleteJob, DeletePVC, DeleteSecret, CallFails,
     ReplyLost, Cancelled, RenewFails, Crash, store
<1>2. artifact # NoContent => artifact' = artifact
  BY DEF Acts, Step, EnsurePVC, GetJob, GetSecret, CreateSecret, CreateJob, GetAgain,
     Watch, ReadLogs, Verify, Record, DeleteJob, DeletePVC, DeleteSecret, CallFails,
     ReplyLost, Cancelled, RenewFails, Crash, store
<1>3. \/ job' = job
      \/ \E a \in Attempts : job' = [job EXCEPT ![a].phase = "created"]
      \/ \E a \in Attempts : job' = [job EXCEPT ![a].deleting = @ \/ job[a].phase # "none"]
  <2>1. ex[w].attempt \in Attempts
    BY Acting DEF TypeOK
  <2> QED
    BY <2>1 DEF Acts, Step, EnsurePVC, GetJob, GetSecret, CreateSecret, CreateJob, GetAgain,
       Watch, ReadLogs, Verify, Record, DeleteJob, DeletePVC, DeleteSecret, CallFails,
       ReplyLost, Cancelled, RenewFails, Crash, cluster
<1> QED
  BY <1>1, <1>2, <1>3 DEF TypeOK, Job

\* A worker that believes in a result saw a Job that had uploaded one, and
\* recorded it before Execute returns success (finalizeJob).
LEMMA BeliefKept ==
    ASSUME TypeOK, Stored, NEW w \in Workers, Acts(w), Moves(w)
    PROVE  /\ ex'[w].pc \in {"verify", "record"} => ex'[w].sum # NoContent /\ object # NoContent
           /\ ex'[w].ok => ex'[w].pc \in Cleaning /\ artifact' # NoContent /\ object # NoContent
<1> DEFINE Goal ==
      /\ ex'[w].pc \in {"verify", "record"} => ex'[w].sum # NoContent /\ object # NoContent
      /\ ex'[w].ok => ex'[w].pc \in Cleaning /\ artifact' # NoContent /\ object # NoContent
<1>0. /\ ex[w] \in Executor /\ ex[w].attempt \in Attempts
      /\ artifact # NoContent => artifact' # NoContent
  BY Acting, ActingStores DEF TypeOK
<1>1. ASSUME NEW pc \in Places \ {"idle", "verify", "record"}, Goto(w, pc),
             ex[w].pc \in Cleaning => pc \in Cleaning
      PROVE  Goal
  BY <1>0, <1>1, Going DEF Stored
<1>2. CASE EnsurePVC(w) \/ GetJob(w) \/ GetSecret(w) \/ CreateSecret(w) \/ CreateJob(w) \/ GetAgain(w)
  <2>1. /\ ex[w].pc \notin Cleaning
        /\ \E pc \in Places \ {"idle", "verify", "record"} : Goto(w, pc)
    BY <1>2 DEF EnsurePVC, GetJob, GetSecret, CreateSecret, CreateJob, GetAgain, Places,
       Undoing, Cleaning
  <2> QED
    BY <1>1, <2>1
<1>3. CASE Watch(w)
  <2>1. /\ ex[w].pc \notin Cleaning
        /\ ~ Return(w, FALSE)
    BY <1>3 DEF Watch, Cleaning, Moves, Return, Idle, TypeOK
  <2>2. \E pc \in Places \ {"idle", "verify", "record"} : Goto(w, pc)
    BY <1>3, <2>1 DEF Watch, Places, Cleaning
  <2> QED
    BY <1>1, <2>1, <2>2
<1>4. CASE ReadLogs(w)
  <2>1. CASE Goto(w, "deleteJob")
    BY <1>1, <2>1 DEF Places, Cleaning
  <2>2. CASE /\ job[ex[w].attempt].phase = "succeeded"
             /\ ex' = [ex EXCEPT ![w].pc = "verify", ![w].sum = job[ex[w].attempt].sum]
    <3>1. /\ ex'[w].sum = job[ex[w].attempt].sum /\ ex'[w].ok = ex[w].ok
          /\ ex[w].pc \notin Cleaning
      BY <1>0, <1>4, <2>2 DEF ReadLogs, TypeOK, Executor, Cleaning
    <3> QED
      BY <1>0, <2>2, <3>1 DEF Stored
  <2> QED
    BY <1>4, <2>1, <2>2 DEF ReadLogs
<1>5. CASE Verify(w)
  <2>1. Goto(w, "record") \/ Goto(w, "deleteJob")
    BY <1>5 DEF Verify
  <2>2. CASE Goto(w, "record")
    BY <1>5, <2>2, Going DEF Verify, Stored, Places, Cleaning
  <2> QED
    BY <1>1, <2>1, <2>2 DEF Places, Cleaning
<1>6. CASE Record(w)
  <2>1. ex[w].sum # NoContent /\ object # NoContent
    BY <1>6 DEF Record, Stored
  <2>2. ex'[w].pc = "deleteJob"
    BY <1>6 DEF Record, TypeOK, Executor
  <2>3. ex'[w].ok => artifact' # NoContent
    BY <1>0, <1>6, <2>1 DEF Record, TypeOK, Executor
  <2> QED
    BY <2>1, <2>2, <2>3 DEF Cleaning
<1>7. CASE DeleteJob(w)
  BY <1>1, <1>7 DEF DeleteJob, AfterCleaning, Places, Cleaning
<1>8. CASE DeletePVC(w)
  <2>1. ~ Return(w, FALSE)
    BY DEF Moves, Return, Idle, TypeOK
  <2> QED
    BY <1>1, <1>8, <2>1 DEF DeletePVC, AfterCleaning, Places, Cleaning
<1>9. CASE DeleteSecret(w)
  <2>1. ~ Return(w, ex[w].ok)
    BY DEF Moves, Return, Idle, TypeOK
  <2> QED
    BY <1>1, <1>9, <2>1 DEF DeleteSecret, AfterCleaning, Places, Undoing, Cleaning
<1>10. CASE CallFails(w) \/ ReplyLost(w)
  <2>1. AfterError(w) /\ ~ Leaves(w)
    BY <1>10 DEF CallFails, ReplyLost, Leaves, Moves, Idle, TypeOK
  <2>2. /\ ex'[w].ok = ex[w].ok
        /\ ex'[w].pc \in Undoing \cup Cleaning
        /\ ex[w].pc \in Cleaning => ex'[w].pc \in Cleaning
    BY <2>1, Acting, Erring
  <2> QED
    BY <1>0, <2>2 DEF Stored, Undoing, Cleaning
<1>11. CASE Cancelled(w) \/ RenewFails(w) \/ Crash(w)
  BY <1>11 DEF Cancelled, RenewFails, Crash, Return, Moves, Idle, TypeOK
<1> QED
  BY <1>2, <1>3, <1>4, <1>5, <1>6, <1>7, <1>8, <1>9, <1>10, <1>11 DEF Acts, Step

\* What Jobs, executors and the row say of the object and the artifact stays
\* true: neither ever disappears (finalizeJob, Worker.runOnce).
LEMMA StoredKept ==
    ASSUME IInv, Next
    PROVE  Stored'
<1> USE DEF IInv
<1>1. ASSUME NEW w \in Workers, Acts(w) PROVE Stored'
  <2>1. /\ object' = object
        /\ artifact # NoContent => artifact' = artifact
    BY <1>1, ActingStores
  <2>2. \A a \in Attempts :
          job'[a].phase \in {"uploaded", "succeeded"} => job'[a].sum # NoContent /\ object' # NoContent
    BY <1>1, <2>1, ActingStores DEF Stored
  <2>3. CASE Leaves(w)
    <3>1. \A v \in Workers \ {w} : ex'[v] = ex[v]
      BY <2>3 DEF Leaves, TypeOK
    <3>2. ex'[w] = Idle
      BY <2>3 DEF Leaves, TypeOK
    <3>3. CompletedStored'
      BY <2>1, <2>3 DEF Leaves, Stored, CompletedStored
    <3> QED
      BY <2>1, <2>2, <3>1, <3>2, <3>3 DEF Stored, Idle
  <2>4. CASE Moves(w)
    <3>1. CompletedStored'
      BY <2>1, <2>4 DEF Moves, Stored, CompletedStored
    <3>2. \A v \in Workers \ {w} : ex'[v] = ex[v]
      BY <2>4 DEF Moves
    <3>3. /\ ex'[w].pc \in {"verify", "record"} => ex'[w].sum # NoContent /\ object' # NoContent
          /\ ex'[w].ok => ex'[w].pc \in Cleaning /\ artifact' # NoContent /\ object' # NoContent
      BY <1>1, <2>1, <2>4, BeliefKept
    <3> QED
      BY <2>1, <2>2, <3>1, <3>2, <3>3 DEF Stored
  <2> QED
    BY <1>1, <2>3, <2>4, Acting
<1>2. ASSUME NEW a \in Attempts, Runs(a) PROVE Stored'
  <2>1. task' = task /\ ex' = ex /\ artifact' = artifact
    BY <1>2, RunningTyped
  <2>2. object # NoContent => object' # NoContent
    BY <1>2, ImportJobsAssumption
       DEF Runs, RunJob, StartPod, Upload, Succeed, Deadline, FailPod, Collect, Reclaim, store
  <2>3. \A b \in Attempts :
          job'[b].phase \in {"uploaded", "succeeded"} => job'[b].sum # NoContent /\ object' # NoContent
    <3>1. CASE \E c \in Contents : Upload(a, c)
      BY <3>1, <2>2, ImportJobsAssumption DEF Upload, Stored, TypeOK, Job
    <3>2. CASE Succeed(a)
      BY <3>2, <2>2 DEF Succeed, Stored, TypeOK, Job
    <3>3. CASE StartPod(a) \/ Deadline(a) \/ FailPod(a)
      BY <3>3, <2>2 DEF StartPod, Deadline, FailPod, Stored, TypeOK, Job
    <3>4. CASE Collect(a) \/ Reclaim(a)
      BY <3>4, <2>2 DEF Collect, Reclaim, NoJob, Stored, TypeOK, Job
    <3> QED
      BY <1>2, <3>1, <3>2, <3>3, <3>4 DEF Runs, RunJob
  <2> QED
    BY <2>1, <2>2, <2>3 DEF Stored, CompletedStored
<1>3. CASE RetryFailed
  BY <1>3, RowTyped DEF RetryFailed, Stored, CompletedStored, TypeOK, Task
<1>4. CASE Expire
  BY <1>4, RowTyped DEF Expire, Stored, CompletedStored, TypeOK, Task
<1>5. ASSUME NEW w \in Workers, Claim(w) PROVE Stored'
  <2>1. UNCHANGED <<job, object, artifact>> /\ task'.status = "importing"
    BY <1>5, RowTyped DEF Claim
  <2>2. ex'[w].pc = "ensurePVC" /\ ~ex'[w].ok /\ \A v \in Workers \ {w} : ex'[v] = ex[v]
    BY <1>5 DEF Claim, Idle, TypeOK
  <2> QED
    BY <2>1, <2>2 DEF Stored, CompletedStored
<1> QED
  BY <1>1, <1>2, <1>3, <1>4, <1>5 DEF Next, Acts, Runs

-----------------------------------------------------------------------------
\* Every step of the program keeps the invariant.
LEMMA NextIInv == IInv /\ [Next]_vars => IInv'
<1> SUFFICES ASSUME IInv, [Next]_vars PROVE IInv'
  OBVIOUS
<1>1. CASE Next
  <2>1. TypeOK'
    BY <1>1, ActingTyped, RunningTyped, RowTyped DEF IInv, Next, Acts, Runs
  <2> QED
    BY <1>1, <2>1, HolderKept, ApartKept, StoredKept DEF IInv
<1>2. CASE UNCHANGED vars
  BY <1>2 DEF vars, IInv, TypeOK, HolderExecutes, AttemptsApart, Stored, CompletedStored
<1> QED
  BY <1>1, <1>2

\* The inductive invariant holds throughout: types, who executes which attempt,
\* and what executors and Jobs know of the object and the artifact.
THEOREM Invariance == Spec => []IInv
  BY InitIInv, NextIInv, PTL DEF Spec

\* A completed task has an object and a recorded checksum, whatever calls failed,
\* leases ran out and Jobs were left behind (Worker.runOnce, finalizeJob).
THEOREM CompletionStores == Spec => []CompletedStored
<1>1. IInv => CompletedStored
  BY DEF IInv, Stored
<1> QED
  BY <1>1, Invariance, PTL

\* No attempt replaces the checksum that another one recorded (persistArtifact).
THEOREM ArtifactNeverReplaced == Spec => ArtifactFinal
<1>1. IInv /\ [Next]_vars => [artifact # NoContent => artifact' = artifact]_vars
  <2> SUFFICES ASSUME IInv, Next, artifact # NoContent PROVE artifact' = artifact
    BY DEF vars
  <2> USE DEF IInv
  <2>1. ASSUME NEW w \in Workers, Acts(w) PROVE artifact' = artifact
    BY <2>1, ActingStores
  <2>2. ASSUME NEW a \in Attempts, Runs(a) PROVE artifact' = artifact
    BY <2>2, RunningTyped
  <2>3. CASE RetryFailed \/ Expire \/ \E w \in Workers : Claim(w)
    BY <2>3, RowTyped
  <2> QED
    BY <2>1, <2>2, <2>3 DEF Next, Acts, Runs
<1> QED
  BY <1>1, Invariance, PTL DEF Spec, ArtifactFinal
-----------------------------------------------------------------------------
\* What is left behind.

\* An idle worker remembers no attempt: Execute keeps nothing between two tasks.
LEMMA IdleCleanKept ==
    ASSUME TypeOK, IdleClean, [Next]_vars
    PROVE  IdleClean'
<1>1. ASSUME NEW w \in Workers, Acts(w) PROVE IdleClean'
  <2>1. CASE Leaves(w)
    BY <2>1 DEF Leaves, IdleClean, Idle, TypeOK
  <2>2. CASE Moves(w)
    BY <2>2 DEF Moves, IdleClean
  <2> QED
    BY <1>1, <2>1, <2>2, Acting
<1>2. ASSUME NEW a \in Attempts, Runs(a) PROVE IdleClean'
  BY <1>2, RunningTyped DEF IdleClean
<1>3. CASE RetryFailed \/ Expire
  BY <1>3 DEF RetryFailed, Expire, IdleClean
<1>4. ASSUME NEW w \in Workers, Claim(w) PROVE IdleClean'
  BY <1>4 DEF Claim, IdleClean, Idle, TypeOK
<1>5. CASE UNCHANGED vars
  BY <1>5 DEF vars, IdleClean
<1> QED
  BY <1>1, <1>2, <1>3, <1>4, <1>5 DEF Next, Acts, Runs

\* A worker touches only what is named after its attempt, and a call that fails
\* is counted once (kubernetes_executor.go:54-176).
LEMMA ActingLocal ==
    ASSUME TypeOK, NEW w \in Workers, Acts(w)
    PROVE  /\ \A b \in Attempts \ {ex[w].attempt} :
                job'[b] = job[b] /\ pvc'[b] = pvc[b] /\ secret'[b] = secret[b]
           /\ faults' = faults \/ faults' = faults + 1
           /\ faults' = faults => Step(w) \/ Cancelled(w)
<1>0. ex[w].attempt \in Attempts
  BY Acting DEF TypeOK
<1>1. \A b \in Attempts \ {ex[w].attempt} : job'[b] = job[b]
  BY <1>0 DEF Acts, Step, EnsurePVC, GetJob, GetSecret, CreateSecret, CreateJob, GetAgain,
     Watch, ReadLogs, Verify, Record, DeleteJob, DeletePVC, DeleteSecret, CallFails,
     ReplyLost, Cancelled, RenewFails, Crash, TypeOK, cluster
<1>2. \A b \in Attempts \ {ex[w].attempt} : pvc'[b] = pvc[b] /\ secret'[b] = secret[b]
  BY <1>0 DEF Acts, Step, EnsurePVC, GetJob, GetSecret, CreateSecret, CreateJob, GetAgain,
     Watch, ReadLogs, Verify, Record, DeleteJob, DeletePVC, DeleteSecret, CallFails,
     ReplyLost, Cancelled, RenewFails, Crash, TypeOK, cluster
<1>3. Step(w) \/ Cancelled(w) => faults' = faults
  BY DEF Step, EnsurePVC, GetJob, GetSecret, CreateSecret, CreateJob, GetAgain,
     Watch, ReadLogs, Verify, Record, DeleteJob, DeletePVC, DeleteSecret, Cancelled, counters
<1>4. CallFails(w) \/ ReplyLost(w) \/ RenewFails(w) \/ Crash(w) => faults' = faults + 1
  BY DEF CallFails, ReplyLost, RenewFails, Crash, Fault
<1>5. faults \in Nat
  BY DEF TypeOK
<1> QED
  BY <1>1, <1>2, <1>3, <1>4, <1>5 DEF Acts

\* Jobs, Pods and controllers touch what is named after one attempt, and create
\* nothing.
LEMMA RunningLocal ==
    ASSUME TypeOK, NEW a \in Attempts, Runs(a)
    PROVE  /\ \A b \in Attempts \ {a} :
                job'[b] = job[b] /\ pvc'[b] = pvc[b] /\ secret'[b] = secret[b]
           /\ job[a].phase = "none" => job'[a].phase = "none"
           /\ pvc[a] = "none" => pvc'[a] = "none"
           /\ secret'[a] = secret[a]
           /\ faults' = faults
<1>1. secret' = secret /\ faults' = faults
  BY DEF Runs, RunJob, StartPod, Upload, Succeed, Deadline, FailPod, Collect, Reclaim, counters
<1>2. /\ \A b \in Attempts \ {a} : job'[b] = job[b]
      /\ job[a].phase = "none" => job'[a].phase = "none"
  BY DEF Runs, RunJob, StartPod, Upload, Succeed, Deadline, FailPod, Collect, Reclaim, TypeOK, NoJob
<1>3. /\ \A b \in Attempts \ {a} : pvc'[b] = pvc[b]
      /\ pvc[a] = "none" => pvc'[a] = "none"
  BY DEF Runs, RunJob, StartPod, Upload, Succeed, Deadline, FailPod, Collect, Reclaim, TypeOK
<1> QED
  BY <1>1, <1>2, <1>3

\* No name beyond MaxAttempts + faults is ever used: retryOrFail fails the task at
\* MaxAttempts, and only a lost lease lets a worker claim it once more.
LEMMA ReachedKept ==
    ASSUME IInv, IdleClean, AttemptsReached, [Next]_vars
    PROVE  AttemptsReached'
<1> USE DEF IInv
<1>0. /\ MaxAttempts \in Nat \ {0} /\ faults \in Nat /\ task.attempt \in Nat
      /\ \A w \in Workers : ex[w].attempt \in Nat
      /\ \A a \in Attempts : a \in Nat
      /\ NoWorker \notin Workers
  BY ImportJobsAssumption DEF TypeOK, Task, Executor, Attempts
<1>1. ASSUME NEW w \in Workers, Acts(w) PROVE AttemptsReached'
  <2> DEFINE a == ex[w].attempt
  <2>1. /\ \A b \in Attempts \ {a} :
             job'[b] = job[b] /\ pvc'[b] = pvc[b] /\ secret'[b] = secret[b]
        /\ faults' = faults \/ faults' = faults + 1
    BY <1>1, ActingLocal
  <2>2. 1 .. MaxAttempts + faults \subseteq 1 .. MaxAttempts + faults'
    BY <1>0, <2>1
  <2>3. a \in 1 .. MaxAttempts + faults
    BY <1>0, <1>1, Acting DEF TypeOK, AttemptsReached, Attempts
  <2>4. \A b \in Attempts \ (1 .. MaxAttempts + faults') :
          job'[b].phase = "none" /\ pvc'[b] = "none" /\ ~secret'[b]
    BY <2>1, <2>2, <2>3 DEF AttemptsReached
  <2>5. CASE Moves(w)
    <3>1. /\ task' = task
          /\ \A v \in Workers : ex'[v].attempt = ex[v].attempt
      BY <2>5 DEF Moves
    <3> QED
      BY <2>2, <2>4, <3>1 DEF AttemptsReached
  <2>6. CASE Leaves(w)
    <3>1. \A v \in Workers : ex'[v].attempt \in {0, ex[v].attempt}
      BY <2>6 DEF Leaves, Idle, TypeOK
    <3>2. task'.attempt = task.attempt
      BY <2>6 DEF Leaves
    <3>3. CASE task.holder = w
      <4>1. task.attempt = a /\ task.status = "importing"
        BY <3>3 DEF HolderExecutes
      <4>2. task'.status = "importing" => task'.attempt + 1 \in 1 .. MaxAttempts + faults'
        BY <1>0, <2>3, <2>6, <3>2, <3>3, <4>1 DEF Leaves
      <4>3. task'.status = "pending" => task'.attempt < MaxAttempts
        BY <2>6, <3>2, <3>3, <4>1 DEF Leaves
      <4> QED
        BY <2>2, <2>4, <3>1, <3>2, <4>2, <4>3 DEF AttemptsReached
    <3>4. CASE task.holder # w
      <4>1. task'.holder = task.holder /\ task'.status = task.status
        BY <2>6, <3>4 DEF Leaves
      <4> QED
        BY <2>2, <2>4, <3>1, <3>2, <4>1 DEF AttemptsReached
    <3> QED
      BY <3>3, <3>4
  <2> QED
    BY <1>1, <2>5, <2>6, Acting
<1>2. ASSUME NEW a \in Attempts, Runs(a) PROVE AttemptsReached'
  <2>1. /\ task' = task /\ ex' = ex /\ faults' = faults
        /\ \A b \in Attempts \ {a} :
             job'[b] = job[b] /\ pvc'[b] = pvc[b] /\ secret'[b] = secret[b]
        /\ job[a].phase = "none" => job'[a].phase = "none"
        /\ pvc[a] = "none" => pvc'[a] = "none"
        /\ secret'[a] = secret[a]
    BY <1>2, RunningTyped, RunningLocal
  <2> QED
    BY <2>1 DEF AttemptsReached
<1>3. CASE RetryFailed
  <2>1. /\ task'.attempt = 0 /\ task'.status = "pending"
        /\ UNCHANGED <<ex, job, pvc, secret, faults>>
    BY <1>3 DEF RetryFailed, cluster, TypeOK, Task
  <2> QED
    BY <1>0, <2>1 DEF AttemptsReached
<1>4. CASE Expire
  <2>1. /\ task'.attempt = task.attempt /\ task'.status = task.status
        /\ UNCHANGED <<ex, job, pvc, secret>> /\ faults' = faults + 1
    BY <1>4 DEF Expire, Fault, cluster, TypeOK, Task
  <2>2. task.holder \in Workers
    BY <1>4 DEF Expire, TypeOK, Task
  <2>3. task.status = "importing" /\ task.attempt \in 1 .. MaxAttempts + faults
    BY <1>0, <2>2 DEF HolderExecutes, TypeOK, AttemptsReached, Attempts
  <2>4. /\ 1 .. MaxAttempts + faults \subseteq 1 .. MaxAttempts + faults'
        /\ task'.attempt + 1 \in 1 .. MaxAttempts + faults'
    BY <1>0, <2>1, <2>3
  <2> QED
    BY <2>1, <2>3, <2>4 DEF AttemptsReached
<1>5. ASSUME NEW w \in Workers, Claim(w) PROVE AttemptsReached'
  <2>1. task.attempt + 1 \in 1 .. MaxAttempts + faults
    BY <1>0, <1>5 DEF Claim, AttemptsReached
  <2>2. /\ task'.attempt = task.attempt + 1 /\ task'.status = "importing" /\ task'.holder = w
        /\ \A v \in Workers : ex'[v].attempt \in {task.attempt + 1, ex[v].attempt}
        /\ UNCHANGED <<job, pvc, secret, faults>>
    BY <1>5 DEF Claim, Idle, cluster, counters, TypeOK
  <2> QED
    BY <1>0, <2>1, <2>2 DEF AttemptsReached
<1>6. CASE UNCHANGED vars
  BY <1>6 DEF vars, AttemptsReached
<1> QED
  BY <1>1, <1>2, <1>3, <1>4, <1>5, <1>6 DEF Next, Acts, Runs
\* A worker cannot disturb an attempt that it does not execute.
LEMMA OthersTidy ==
    ASSUME IInv, IdleClean, NEW w \in Workers, Acts(w),
           NEW b \in Attempts, b # ex[w].attempt, Tidy(b)
    PROVE  Tidy(b)'
<1>1. TypeOK /\ NoWorker \notin Workers /\ b # 0
  BY ImportJobsAssumption DEF IInv, Attempts
<1>2. /\ job'[b] = job[b] /\ pvc'[b] = pvc[b] /\ secret'[b] = secret[b]
      /\ retries' = retries
  BY <1>1, ActingLocal, Acting
<1>3. /\ task'.attempt = task.attempt
      /\ task.holder # w => task'.holder = task.holder
      /\ \A v \in Workers \ {w} : ex'[v] = ex[v]
      /\ ex'[w].attempt # b
  <2>1. CASE Leaves(w)
    BY <1>1, <2>1 DEF Leaves, Idle, TypeOK
  <2>2. CASE Moves(w)
    BY <1>1, <2>2 DEF Moves
  <2> QED
    BY <1>1, <2>1, <2>2, Acting
<1>4. \A v \in Workers : /\ ex'[v].attempt = b <=> ex[v].attempt = b
                         /\ ex[v].attempt = b => v # w /\ ex'[v] = ex[v]
  BY <1>3
<1>5. \A v \in Workers : ex'[v].attempt = b =>
        task'.holder = v /\ AsExpected(ex[v].pc, b)'
  BY <1>2, <1>3, <1>4 DEF Tidy, AsExpected, Cleared, Running, Finished
<1>6. (\A v \in Workers : ex'[v].attempt # b) => Cleared(b)'
  BY <1>2, <1>4 DEF Tidy, Cleared
<1>7. /\ job'[b].deleting => Finished(b)'
      /\ retries' = 0 /\ task'.attempt < b => job'[b].phase = "none" /\ pvc'[b] = "none"
  BY <1>2, <1>3 DEF Tidy, Finished
<1>8. \/ retries' = 0
      \/ task'.attempt < b
      \/ \E v \in Workers : ex'[v].attempt = b /\ ex'[v].pc = "ensurePVC"
      => (job'[b].phase # "none" => pvc'[b] # "none")
  BY <1>2, <1>3, <1>4 DEF Tidy
<1> QED
  BY <1>5, <1>6, <1>7, <1>8 DEF Tidy

\* The one worker that executes a tidy attempt keeps it tidy when he goes on with
\* what he expects ...
LEMMA TidyMove ==
    ASSUME IInv, NEW w \in Workers, NEW a \in Attempts, ex[w].attempt = a, Acts(w),
           Tidy(a), Moves(w), AsExpected(ex[w].pc, a)', ex'[w].pc # "ensurePVC",
           job'[a].deleting => Finished(a)',
           retries = 0 => (job'[a].phase # "none" => pvc'[a] # "none")
    PROVE  Tidy(a)'
<1>1. /\ task.holder = w /\ task.attempt = a /\ a \in Nat
      /\ \A v \in Workers : ex[v].attempt = a => v = w
  BY DEF Tidy, IInv, HolderExecutes, Attempts
<1>2. task' = task /\ retries' = retries /\ \A v \in Workers \ {w} : ex'[v] = ex[v]
  BY Acting DEF IInv, Moves
<1>3. ex'[w].attempt = a
  BY DEF Moves
<1> QED
  BY <1>1, <1>2, <1>3 DEF Tidy

\* ... or leaves it cleared.
LEMMA TidyLeave ==
    ASSUME IInv, NEW w \in Workers, NEW a \in Attempts, ex[w].attempt = a, Acts(w),
           Tidy(a), Leaves(w), Cleared(a)',
           job'[a].deleting => Finished(a)',
           retries = 0 => (job'[a].phase # "none" => pvc'[a] # "none")
    PROVE  Tidy(a)'
<1>1. /\ task.holder = w /\ task.attempt = a /\ a \in Nat /\ a # 0
      /\ \A v \in Workers : ex[v].attempt = a => v = w
  BY DEF Tidy, IInv, HolderExecutes, Attempts
<1>2. task'.attempt = task.attempt /\ retries' = retries
  BY Acting DEF IInv, Leaves
<1>3. \A v \in Workers : ex'[v].attempt # a
  BY <1>1 DEF Leaves, Idle, IInv, TypeOK
<1> QED
  BY <1>1, <1>2, <1>3 DEF Tidy

\* Without a fault, Execute finds and leaves what it expects, on every path
\* (kubernetes_executor.go:54-176).
LEMMA StepTidy ==
    ASSUME IInv, NEW w \in Workers, Step(w),
           NEW a \in Attempts, ex[w].attempt = a, Tidy(a), retries \in {0, 1}
    PROVE  Tidy(a)'
<1>0. /\ TypeOK /\ Acts(w) /\ ex[w].pc # "idle"
      /\ job[a] \in Job /\ pvc[a] \in Claims
      /\ task.holder = w /\ task.attempt = a /\ a \in Nat
      /\ AsExpected(ex[w].pc, a)
      /\ job[a].deleting => Finished(a)
      /\ \/ retries = 0
         \/ ex[w].pc = "ensurePVC"
         => (job[a].phase # "none" => pvc[a] # "none")
  BY Acting DEF IInv, Tidy, HolderExecutes, Acts, TypeOK, Attempts
<1> DEFINE Ready ==
      /\ job'[a].deleting => Finished(a)'
      /\ retries = 0 => (job'[a].phase # "none" => pvc'[a] # "none")
<1>1. ASSUME NEW pc \in Places \ {"idle", "ensurePVC"}, Goto(w, pc), task' = task,
             AsExpected(pc, a)', Ready
      PROVE  Tidy(a)'
  BY <1>0, <1>1, Going, TidyMove
<1>2. ASSUME NEW ok \in BOOLEAN, ok => ex[w].ok, Return(w, ok), Cleared(a)', Ready
      PROVE  Tidy(a)'
  BY <1>0, <1>2, Returning, TidyLeave
<1>3. retries' = retries
  BY <1>0, Acting
<1>4. CASE EnsurePVC(w)
  <2>1. /\ Goto(w, "getJob") /\ task' = task /\ job' = job /\ secret' = secret
        /\ pvc'[a] = IF pvc[a] = "none" THEN "bound" ELSE pvc[a]
        /\ ex[w].pc = "ensurePVC"
    BY <1>0, <1>4 DEF EnsurePVC, TypeOK
  <2>2. AsExpected("getJob", a)' /\ Ready
    BY <1>0, <1>3, <2>1 DEF AsExpected, Cleared, Finished, Claims
  <2> QED
    BY <1>1, <2>1, <2>2 DEF Places
<1>5. CASE GetJob(w) \/ GetSecret(w) \/ CreateSecret(w) \/ CreateJob(w)
  <2>1. CASE GetJob(w)
    <3>1. /\ ex[w].pc = "getJob" /\ task' = task /\ job' = job /\ secret' = secret /\ pvc' = pvc
          /\ Goto(w, IF job[a].phase # "none" THEN "watch" ELSE "getSecret")
      BY <2>1 DEF GetJob, cluster
    <3> QED
      BY <1>0, <1>1, <1>3, <3>1 DEF AsExpected, Cleared, Finished, Places
  <2>2. CASE GetSecret(w)
    <3>1. /\ ex[w].pc = "getSecret" /\ task' = task /\ job' = job /\ secret' = secret /\ pvc' = pvc
          /\ Goto(w, IF secret[a] THEN "undoPVC" ELSE "createSecret")
      BY <2>2 DEF GetSecret, cluster
    <3> QED
      BY <1>0, <1>1, <1>3, <3>1 DEF AsExpected, Cleared, Finished, Places
  <2>3. CASE CreateSecret(w)
    <3>1. /\ ex[w].pc = "createSecret" /\ task' = task /\ job' = job /\ pvc' = pvc /\ secret'[a]
          /\ Goto(w, IF secret[a] THEN "undoPVC" ELSE "createJob")
      BY <1>0, <2>3 DEF CreateSecret, TypeOK
    <3> QED
      BY <1>0, <1>1, <1>3, <3>1 DEF AsExpected, Cleared, Finished, Places
  <2>4. CASE CreateJob(w)
    <3>1. ex[w].pc = "createJob" /\ job[a].phase = "none" /\ secret[a] /\ ~job[a].deleting
      BY <1>0, <2>4 DEF CreateJob, AsExpected, Finished
    <3>2. /\ task' = task /\ secret' = secret /\ pvc' = pvc /\ Goto(w, "watch")
          /\ job'[a].phase = "created" /\ ~job'[a].deleting
      BY <1>0, <2>4, <3>1 DEF CreateJob, TypeOK, Job
    <3>3. AsExpected("watch", a)' /\ Ready
      BY <1>0, <1>3, <3>1, <3>2 DEF AsExpected, Running
    <3> QED
      BY <1>1, <3>2, <3>3 DEF Places
  <2> QED
    BY <1>5, <2>1, <2>2, <2>3, <2>4
<1>6. CASE GetAgain(w)
  BY <1>0, <1>6 DEF GetAgain, AsExpected
<1>7. CASE Watch(w)
  <2>1. ex[w].pc = "watch" /\ job' = job /\ secret' = secret /\ pvc' = pvc
    BY <1>7 DEF Watch, cluster
  <2>2. CASE Return(w, FALSE) /\ (job[a].phase = "none" \/ ~secret[a])
    <3>1. Cleared(a)' /\ Ready
      BY <1>0, <2>1, <2>2 DEF AsExpected, Cleared, Running, Finished
    <3> QED
      BY <1>2, <2>2, <3>1
  <2>3. CASE /\ job[a].phase \in {"succeeded", "failed"} /\ task' = task
             /\ Goto(w, IF job[a].phase = "succeeded" THEN "logs" ELSE "deleteJob")
    <3>1. /\ \A pc \in {"logs", "deleteJob"} : AsExpected(pc, a)'
          /\ Ready
      BY <1>0, <1>3, <2>1, <2>3 DEF AsExpected, Cleared, Running, Finished
    <3> QED
      BY <1>1, <2>3, <3>1 DEF Places, Cleaning
  <2> QED
    BY <1>7, <2>2, <2>3 DEF Watch
<1>8. CASE ReadLogs(w) \/ Verify(w) \/ Record(w)
  <2>1. /\ ex[w].pc \in {"logs", "verify", "record"}
        /\ job' = job /\ secret' = secret /\ pvc' = pvc /\ task' = task
    BY <1>8 DEF ReadLogs, Verify, Record, cluster
  <2>2. ex'[w].pc \in {"verify", "record", "deleteJob"} /\ Moves(w)
    <3>1. ex'[w].pc \in {"verify", "record", "deleteJob"}
      BY <1>0, <1>8 DEF ReadLogs, Verify, Record, Goto, TypeOK, Executor
    <3>2. ~Leaves(w)
      BY <1>0, <3>1 DEF Leaves, Idle, TypeOK
    <3> QED
      BY <1>0, <3>1, <3>2, Acting
  <2>3. AsExpected(ex[w].pc, a)' /\ Ready
    BY <1>0, <1>3, <2>1, <2>2 DEF AsExpected, Cleared, Running, Finished
  <2> QED
    BY <1>0, <2>2, <2>3, TidyMove
<1>9. CASE DeleteJob(w)
  <2>1. /\ ex[w].pc = "deleteJob" /\ task' = task /\ secret' = secret /\ pvc' = pvc
        /\ Goto(w, "deletePVC")
        /\ job'[a].phase = job[a].phase
        /\ job'[a].deleting = (job[a].deleting \/ job[a].phase # "none")
    BY <1>0, <1>9 DEF DeleteJob, AfterCleaning, TypeOK, Job
  <2>2. AsExpected("deletePVC", a)' /\ Ready
    BY <1>0, <1>3, <2>1 DEF AsExpected, Cleared, Running, Finished
  <2> QED
    BY <1>1, <2>1, <2>2 DEF Places, Cleaning
<1>10. CASE DeletePVC(w)
  <2>1. /\ ex[w].pc = "deletePVC" /\ task' = task /\ secret' = secret /\ job' = job
        /\ Goto(w, "deleteSecret")
        /\ pvc'[a] = IF pvc[a] = "bound" THEN "terminating" ELSE pvc[a]
    BY <1>0, <1>10 DEF DeletePVC, AfterCleaning, AsExpected, TypeOK
  <2>2. AsExpected("deleteSecret", a)' /\ Ready
    BY <1>0, <1>3, <2>1 DEF AsExpected, Finished
  <2> QED
    BY <1>1, <2>1, <2>2 DEF Places, Cleaning
<1>11. CASE DeleteSecret(w)
  <2>1. /\ ex[w].pc = "deleteSecret" /\ job' = job /\ pvc' = pvc /\ ~secret'[a]
        /\ Return(w, ex[w].ok) /\ ex[w].ok \in BOOLEAN
    BY <1>0, <1>11 DEF DeleteSecret, AsExpected, TypeOK, Executor
  <2>2. Cleared(a)' /\ Ready
    BY <1>0, <2>1 DEF AsExpected, Cleared, Finished
  <2> QED
    BY <1>2, <2>1, <2>2
<1> QED
  BY <1>4, <1>5, <1>6, <1>7, <1>8, <1>9, <1>10, <1>11 DEF Step
\* Kubernetes goes on with the objects of an attempt without leaving any.
LEMMA RunTidy ==
    ASSUME IInv, NEW a \in Attempts, Runs(a), NEW b \in Attempts, Tidy(b)
    PROVE  Tidy(b)'
<1>0. TypeOK /\ job[b] \in Job /\ pvc[b] \in Claims
  BY DEF IInv, TypeOK
<1>1. task' = task /\ ex' = ex /\ retries' = retries /\ secret' = secret
  BY <1>0, RunningTyped
     DEF Runs, RunJob, StartPod, Upload, Succeed, Deadline, FailPod, Collect, Reclaim
<1>2. CASE b # a
  <2>1. job'[b] = job[b] /\ pvc'[b] = pvc[b] /\ secret'[b] = secret[b]
    BY <1>0, <1>2, RunningLocal
  <2> QED
    BY <1>1, <2>1 DEF Tidy, AsExpected, Cleared, Running, Finished
<1>3. ASSUME b = a, pvc' = pvc, job[b].phase # "none", ~job[b].deleting,
             job'[b].phase # "none", ~job'[b].deleting, Finished(b) => Finished(b)'
      PROVE  Tidy(b)'
  BY <1>1, <1>3 DEF Tidy, AsExpected, Cleared, Running
<1>4. CASE b = a /\ (StartPod(a) \/ Succeed(a) \/ Deadline(a) \/ FailPod(a)
                     \/ \E c \in Contents : Upload(a, c))
  <2>1. pvc' = pvc /\ job[b].phase \in {"created", "started", "uploaded"} /\ ~job[b].deleting
    BY <1>4 DEF StartPod, Upload, Succeed, Deadline, FailPod, Tidy, Finished
  <2>2. job'[b].phase # "none" /\ ~job'[b].deleting
    BY <1>0, <1>4, <2>1 DEF StartPod, Upload, Succeed, Deadline, FailPod, TypeOK, Job
  <2> QED
    BY <1>3, <1>4, <2>1, <2>2 DEF Finished
<1>5. CASE b = a /\ Collect(a)
  <2>1. /\ job[b].deleting /\ pvc' = pvc
        /\ job'[b].phase = "none" /\ ~job'[b].deleting
    BY <1>0, <1>5 DEF Collect, NoJob, TypeOK
  <2>2. \A w \in Workers : ex[w].attempt = b => AsExpected(ex[w].pc, b)'
    BY <1>0, <1>1, <2>1 DEF Tidy, AsExpected, Cleared, Running, Finished
  <2> QED
    BY <1>1, <2>1, <2>2 DEF Tidy, Cleared
<1>6. CASE b = a /\ Reclaim(a)
  <2>1. /\ pvc[b] = "terminating" /\ pvc'[b] = "none" /\ job' = job
        /\ job[b].phase \in {"none", "created"}
    BY <1>0, <1>6 DEF Reclaim, TypeOK
  <2>2. ~job[b].deleting
    BY <2>1 DEF Tidy, Finished
  <2>3. \A w \in Workers : ex[w].attempt = b => AsExpected(ex[w].pc, b)'
    BY <1>0, <1>1, <2>1, <2>2 DEF Tidy, AsExpected, Cleared, Running, Finished
  <2>4. CASE \E w \in Workers : ex[w].attempt = b
    <3>1. PICK w \in Workers : ex[w].attempt = b
      BY <2>4
    <3>2. /\ AsExpected(ex[w].pc, b) /\ task.attempt = b /\ b \in Nat
          /\ \A v \in Workers : ex[v].attempt = b => v = w
      BY <3>1 DEF Tidy, IInv, HolderExecutes, Attempts
    <3>3. retries = 0 \/ ex[w].pc = "ensurePVC" => job[b].phase = "none"
      BY <2>1, <2>2, <3>2 DEF AsExpected, Cleared
    <3> QED
      BY <1>1, <2>1, <2>2, <2>3, <3>1, <3>2, <3>3 DEF Tidy
  <2>5. CASE \A w \in Workers : ex[w].attempt # b
    <3>1. Cleared(b) /\ job[b].phase = "none"
      BY <2>1, <2>2, <2>5 DEF Tidy, Cleared
    <3> QED
      BY <1>1, <2>1, <2>2, <2>5, <3>1 DEF Tidy, Cleared
  <2> QED
    BY <2>4, <2>5
<1> QED
  BY <1>2, <1>4, <1>5, <1>6 DEF Runs, RunJob

\* A lease that runs out spoils the attempt of its holder only.
LEMMA ExpireTidy ==
    ASSUME IInv, Expire, NEW b \in Attempts, b # task.attempt, Tidy(b)
    PROVE  Tidy(b)'
<1>1. /\ UNCHANGED <<ex, job, pvc, secret, retries>> /\ task'.attempt = task.attempt
  BY DEF Expire, Fault, cluster, IInv, TypeOK, Task
<1>2. \A w \in Workers : ex[w].attempt # b
  BY DEF Tidy, IInv, HolderExecutes
<1> QED
  BY <1>1, <1>2 DEF Tidy, Cleared, Finished

\* The next attempt begins where nothing is left of an earlier round, or where
\* Kubernetes still deletes it.
LEMMA ClaimTidy ==
    ASSUME IInv, IdleClean, NEW w \in Workers, Claim(w), NEW b \in Attempts, Tidy(b)
    PROVE  Tidy(b)'
<1>1. /\ UNCHANGED <<job, pvc, secret, retries>>
      /\ task.attempt \in Nat /\ b \in Nat
      /\ task'.attempt = task.attempt + 1 /\ task'.holder = w
      /\ ex'[w].pc = "ensurePVC" /\ ex'[w].attempt = task.attempt + 1
      /\ \A v \in Workers \ {w} : ex'[v] = ex[v]
  BY DEF Claim, cluster, counters, Idle, IInv, TypeOK, Task, Attempts
<1>2. \A v \in Workers : ex[v].attempt # b
  BY ImportJobsAssumption DEF Claim, Tidy
<1>3. Cleared(b)
  BY <1>2 DEF Tidy
<1>4. CASE b = task.attempt + 1
  <2>1. /\ task.attempt < b
        /\ \A v \in Workers : ex'[v].attempt = b => v = w
    BY <1>1, <1>2, <1>4
  <2>2. /\ retries = 0 => pvc[b] = "none"
        /\ job[b].phase # "none" => pvc[b] # "none"
    BY <2>1 DEF Tidy
  <2>3. AsExpected("ensurePVC", b)'
    BY <1>1, <1>3, <2>2 DEF AsExpected, Cleared
  <2> QED
    BY <1>1, <1>4, <2>1, <2>2, <2>3 DEF Tidy, Finished
<1>5. CASE b # task.attempt + 1
  <2>1. /\ \A v \in Workers : ex'[v].attempt # b
        /\ task'.attempt < b => task.attempt < b
    BY <1>1, <1>2, <1>5
  <2> QED
    BY <1>1, <1>3, <2>1 DEF Tidy, Cleared, Finished
<1> QED
  BY <1>4, <1>5

\* After the first round no Job of a tidy attempt is there without its claim.
LEMMA RetryTidy ==
    ASSUME IInv, RetryFailed, retries = 0, NEW b \in Attempts, Tidy(b)
    PROVE  Tidy(b)'
<1>1. /\ UNCHANGED <<ex, job, pvc, secret>> /\ retries' = 1
      /\ task.holder \notin Workers
  BY DEF RetryFailed, cluster, IInv, HolderExecutes
<1>2. \A w \in Workers : ex[w].attempt # b
  BY <1>1 DEF Tidy
<1> QED
  BY <1>1, <1>2 DEF Tidy, Cleared, Finished

\* A step without a fault spoils nothing, one with a fault at most one attempt.
LEMMA SpoilsAtMostOne ==
    ASSUME IInv, IdleClean, Next, retries' \in {0, 1}
    PROVE  \/ /\ faults' = faults
              /\ \A b \in Attempts : Tidy(b) => Tidy(b)'
           \/ /\ faults' = faults + 1
              /\ \E a \in Attempts : \A b \in Attempts \ {a} : Tidy(b) => Tidy(b)'
<1>0. TypeOK
  BY DEF IInv
<1>1. ASSUME NEW w \in Workers, Acts(w)
      PROVE  \/ /\ faults' = faults
                /\ \A b \in Attempts : Tidy(b) => Tidy(b)'
             \/ /\ faults' = faults + 1
                /\ \E a \in Attempts : \A b \in Attempts \ {a} : Tidy(b) => Tidy(b)'
  <2>1. ex[w].attempt \in Attempts /\ retries \in {0, 1}
    BY <1>0, <1>1, Acting DEF TypeOK
  <2>2. \A b \in Attempts \ {ex[w].attempt} : Tidy(b) => Tidy(b)'
    BY <1>1, OthersTidy
  <2>3. CASE Step(w) \/ Cancelled(w)
    <3>1. Cancelled(w) => ~Tidy(ex[w].attempt)
      BY DEF Cancelled, Tidy
    <3>2. faults' = faults
      BY <2>3 DEF Step, EnsurePVC, GetJob, GetSecret, CreateSecret, CreateJob, GetAgain,
         Watch, ReadLogs, Verify, Record, DeleteJob, DeletePVC, DeleteSecret, Cancelled, counters
    <3>3. Step(w) => \A b \in Attempts : b = ex[w].attempt /\ Tidy(b) => Tidy(b)'
      BY <2>1, StepTidy
    <3> QED
      BY <2>1, <2>2, <2>3, <3>1, <3>2, <3>3
  <2>4. CASE faults' = faults + 1
    BY <2>1, <2>2, <2>4
  <2> QED
    BY <1>0, <1>1, <2>3, <2>4, ActingLocal
<1>2. ASSUME NEW a \in Attempts, Runs(a)
      PROVE  faults' = faults /\ \A b \in Attempts : Tidy(b) => Tidy(b)'
  BY <1>0, <1>2, RunningLocal, RunTidy
<1>3. CASE RetryFailed
  <2>1. retries = 0 /\ faults' = faults
    BY <1>0, <1>3 DEF RetryFailed, TypeOK
  <2> QED
    BY <1>3, <2>1, RetryTidy
<1>4. CASE Expire
  <2>1. task.holder \in Workers /\ faults' = faults + 1
    BY <1>0, <1>4 DEF Expire, Fault, TypeOK, Task
  <2>2. task.attempt \in Attempts
    BY <1>0, <2>1 DEF IInv, HolderExecutes, TypeOK
  <2> QED
    BY <1>4, <2>1, <2>2, ExpireTidy
<1>5. ASSUME NEW w \in Workers, Claim(w)
      PROVE  faults' = faults /\ \A b \in Attempts : Tidy(b) => Tidy(b)'
  BY <1>5, ClaimTidy DEF Claim, counters
<1> QED
  BY <1>1, <1>2, <1>3, <1>4, <1>5 DEF Next, Acts, Runs
\* Counting the spoilt attempts.
LEMMA FaultsSpoilKept ==
    ASSUME IInv, IdleClean, FaultsSpoil, [Next]_vars
    PROVE  FaultsSpoil'
<1> DEFINE Spoilt == {a \in Attempts : ~Tidy(a)}
           SpoiltThen == {a \in Attempts : ~Tidy(a)'}
<1>0. /\ retries \in Nat /\ retries' \in Nat /\ faults \in Nat
      /\ retries <= retries'
  BY RowTyped, RunningTyped, Acting, ImportJobsAssumption
     DEF IInv, TypeOK, Next, Acts, Runs, vars, RetryFailed, Expire, Claim, Fault, counters
<1>1. IsFiniteSet(Attempts) /\ IsFiniteSet(Spoilt)
  <2>1. MaxAttempts + MaxFaults \in Int
    BY ImportJobsAssumption
  <2>2. IsFiniteSet(Attempts)
    BY <2>1, FS_Interval DEF Attempts
  <2> QED
    BY <2>2, FS_Subset
<1>2. SUFFICES ASSUME retries' <= 1 PROVE Cardinality(SpoiltThen) <= faults'
  BY DEF FaultsSpoil
<1>3. Cardinality(Spoilt) <= faults /\ Cardinality(Spoilt) \in Nat
  BY <1>0, <1>1, <1>2, FS_CardinalityType DEF FaultsSpoil
<1>4. CASE UNCHANGED vars
  <2>1. SpoiltThen = Spoilt /\ faults' = faults
    BY <1>4 DEF vars, Tidy, AsExpected, Cleared, Running, Finished
  <2> QED
    BY <1>3, <2>1
<1>5. CASE Next /\ faults' = faults /\ \A b \in Attempts : Tidy(b) => Tidy(b)'
  <2>1. SpoiltThen \subseteq Spoilt
    BY <1>5
  <2>2. Cardinality(SpoiltThen) <= Cardinality(Spoilt) /\ Cardinality(SpoiltThen) \in Nat
    BY <1>1, <2>1, FS_Subset, FS_CardinalityType
  <2> QED
    BY <1>0, <1>3, <1>5, <2>2
<1>6. ASSUME Next, faults' = faults + 1, NEW a \in Attempts,
             \A b \in Attempts \ {a} : Tidy(b) => Tidy(b)'
      PROVE  Cardinality(SpoiltThen) <= faults'
  <2>1. SpoiltThen \subseteq Spoilt \cup {a}
    BY <1>6
  <2>2. /\ IsFiniteSet(Spoilt \cup {a})
        /\ Cardinality(Spoilt \cup {a}) <= Cardinality(Spoilt) + 1
        /\ Cardinality(Spoilt \cup {a}) \in Nat
    <3> HIDE DEF Spoilt
    <3>1. IsFiniteSet(Spoilt \cup {a})
      BY <1>1, FS_AddElement
    <3>2. \/ Cardinality(Spoilt \cup {a}) = Cardinality(Spoilt)
          \/ Cardinality(Spoilt \cup {a}) = Cardinality(Spoilt) + 1
      BY <1>1, FS_AddElement
    <3> QED
      BY <1>3, <3>1, <3>2
  <2>3. Cardinality(SpoiltThen) <= Cardinality(Spoilt \cup {a}) /\ Cardinality(SpoiltThen) \in Nat
    BY <2>1, <2>2, FS_Subset, FS_CardinalityType
  <2> QED
    BY <1>0, <1>3, <1>6, <2>2, <2>3
<1>7. Next => retries' \in {0, 1}
  BY <1>0, <1>2
<1> QED
  BY <1>4, <1>5, <1>6, <1>7, SpoilsAtMostOne

\* The inductive invariant behind the bound on what is left.
THEOREM LeftoversInvariance == Spec => []LeftoversInv
<1>1. Init => LeftoversInv
  <2> SUFFICES ASSUME Init PROVE LeftoversInv
    OBVIOUS
  <2>1. IInv /\ NoWorker \notin Workers /\ MaxAttempts \in Nat \ {0}
    BY InitIInv, ImportJobsAssumption
  <2>2. IdleClean /\ AttemptsReached
    BY <2>1 DEF Init, Idle, NoJob, IdleClean, AttemptsReached
  <2>3. \A a \in Attempts : Tidy(a)
    <3>1. \A a \in Attempts : a # 0
      BY DEF Attempts
    <3> QED
      BY <3>1 DEF Init, Idle, NoJob, Tidy, Cleared
  <2>4. {a \in Attempts : ~Tidy(a)} = {}
    BY <2>3
  <2>5. FaultsSpoil
    BY <2>4, FS_EmptySet DEF FaultsSpoil, Init
  <2> QED
    BY <2>1, <2>2, <2>5 DEF LeftoversInv
<1>2. LeftoversInv /\ [Next]_vars => LeftoversInv'
  BY NextIInv, IdleCleanKept, ReachedKept, FaultsSpoilKept DEF LeftoversInv, IInv
<1> QED
  BY <1>1, <1>2, PTL DEF Spec

\* No more attempts leave objects behind than there were faults, also after a user
\* retry; however often the user retries, no name beyond those of one round and the
\* faults is left (kubernetes_executor.go:54-176).
THEOREM LeftoversAreBounded == Spec => []LeftoversBounded
<1>1. LeftoversInv => LeftoversBounded
  <2> SUFFICES ASSUME LeftoversInv PROVE LeftoversBounded
    OBVIOUS
  <2> DEFINE Left == {a \in Attempts : Abandoned(a)}
             Spoilt == {a \in Attempts : ~Tidy(a)}
             Used == 1 .. MaxAttempts + faults
  <2>1. MaxAttempts \in Nat /\ MaxFaults \in Nat /\ faults \in Nat /\ retries \in Nat
    BY ImportJobsAssumption DEF LeftoversInv, IInv, TypeOK
  <2>2. CASE retries <= 1
    <3>1. Left \subseteq Spoilt
      BY DEF Abandoned, Tidy, Cleared
    <3>2. IsFiniteSet(Spoilt)
      <4>1. IsFiniteSet(Attempts)
        BY <2>1, FS_Interval DEF Attempts
      <4> QED
        BY <4>1, FS_Subset
    <3>3. Cardinality(Left) <= Cardinality(Spoilt) /\ Cardinality(Spoilt) <= faults
      BY <2>2, <3>1, <3>2, FS_Subset DEF LeftoversInv, FaultsSpoil
    <3>4. Cardinality(Left) \in Nat /\ Cardinality(Spoilt) \in Nat
      BY <3>1, <3>2, FS_Subset, FS_CardinalityType
    <3> QED
      BY <2>1, <2>2, <3>3, <3>4 DEF LeftoversBounded
  <2>3. CASE ~(retries <= 1)
    <3>1. Left \subseteq Used
      BY DEF Abandoned, LeftoversInv, AttemptsReached
    <3>2. IsFiniteSet(Used) /\ Cardinality(Used) = MaxAttempts + faults
      <4>1. MaxAttempts + faults \in Int /\ 1 \in Int /\ MaxAttempts + faults >= 1
        BY <2>1, ImportJobsAssumption
      <4>2. Cardinality(Used) = IF 1 > MaxAttempts + faults THEN 0
                                ELSE (MaxAttempts + faults) - 1 + 1
        BY <4>1, FS_Interval
      <4> QED
        BY <2>1, <4>1, <4>2, FS_Interval
    <3>3. Cardinality(Left) <= MaxAttempts + faults
      BY <3>1, <3>2, FS_Subset
    <3> QED
      BY <2>1, <2>3, <3>3 DEF LeftoversBounded
  <2> QED
    BY <2>2, <2>3
<1> QED
  BY <1>1, LeftoversInvariance, PTL
=============================================================================
