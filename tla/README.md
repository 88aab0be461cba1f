# Specifications of ani-model-service

ani-model-service is the model control plane of a machine learning platform: it
keeps models, their versions and artifacts in PostgreSQL, imports models from
public hubs through Kubernetes Jobs that upload to an object store, registers
trained artifacts that clients upload themselves, and protects what inference
services use from deletion. This directory holds TLA+ specifications of its
behaviour, the TLC configurations that check them and the TLAPS proofs about
them. Paths below are relative to `src/`.

## 1. Inventory

| Component | State it keeps | Operations | Talks to | What is hard | What makes it correct |
|---|---|---|---|---|---|
| Import task store (`internal/data/postgres/work_store.go`, `queries/model.sql`) | table `model_import_tasks`: status, lease (owner, epoch, until), attempt count, next attempt, bound version | Create, RetryFailed, Claim, ListDue(All), Renew, Bind, Complete, Retry, Fail | service (Create, RetryFailed), worker (the rest) | leases that expire under a working owner; owner strings shared by replicas; lost replies | one holder at a time; failure only after all attempts; every task settles |
| Import worker (`internal/worker/import_worker.go`) | in memory: due list, the claim, renewal goroutine; wake channel | Run, runOnce, retryOrFail, Notify | task store, binder, executor, version store | crash or stall between any two statements; renewal error beside a successful execution | completed means ready; an error is recoverable by the user |
| Import binder (`import_binder.go`) | none | ResolveBinding | provider, version table | what it found is stale when Bind runs | a bound task fills the version its row names |
| Artifact recording (`import_executor.go`, `artifact_store.go`) | table `model_artifacts` | persistArtifact, SetChecksum | artifact and version tables | two tasks on one version; late workers, no fencing | a ready version's artifact and checksum agree and never change |
| Version and model store (`version_store.go`, `model_store.go`) | tables `model_versions`, `models` | CreateVersion, MarkReady, MarkErrorAndMaybeModel, reads | worker, service | the model's status aggregates versions that change concurrently; row locks taken in different orders | model in error has no ready version; deleted stays deleted |
| Protected deletion (`deletion_store.go`) | row locks during a remote call | DeleteModel, DeleteVersion | inference service | a reference committed while the deletion checks; reads that race with it; a lock order opposite to MarkReady's | what inference has validated is never deleted |
| Kubernetes import executor (`kubernetes_executor.go`, `internal/data/kubernetes/import_job.go`) | Job, PVC and Secret per attempt; one object per task | Execute, refreshUploadSecret, finalizeJob, cleanup | Kubernetes, object store | Jobs of earlier attempts outlive their worker and share the object | the object verified is the object recorded; nothing is leaked |
| Trained artifact registration (`trained_artifact.go`, `trained_artifact_store.go`) | table `trained_artifact_registrations`: pending, uploaded, ready, failed, aborted | Prepare, Complete, Abort, MarkUploaded, Fail | client upload, object store, model tables | Complete, Abort and replays race; failure clean-up after a commit whose reply was lost; an address that outlives Complete | a registration yields at most one version; a terminal state is final |
| Import admission and audit (`internal/service/model.go`, `import_bundle_store.go`, `audit_store.go`) | idempotency keys with fingerprints, audit rows | CreateModel, CreateModelVersion (with an upload to finalize), ImportModel as a task or a bundle, RetryImportTask | task store, worker (Notify) | concurrent replays; several unique indexes; inserts that wait for each other; audit outside the transaction | one outcome per key; a bundle is whole; what is answered is audited |
| Worker runtime (`worker_supervisor.go`, `readiness.go`, `main.go`, `app.go`) | readiness flags, cancel function, done channel | Start, Stop, SetWorkerReady, Notify | worker, health endpoint | start, stop and failure race; dropped wake-ups | ready only while the loop lives; no committed task is overlooked |
| Upload session (`kubernetes_executor.go:165-214`) | the signed URL in the Secret of a Job, its expiry, the copy mounted in the Pod | EnsureImportJob, refreshUploadSecret | object store, Kubernetes | a download that outlasts the URL; a mount that follows late; attempts with gaps between them | the URL the Pod reads has not expired |
| Storage estimate and pages (`kubernetes_executor.go:346-384`, `pagination.go`, list queries of the stores) | none | estimateManifestSize, storageQuantity, resolvePage, the count and the rows of a page | executor, service, database | int64 and int32 boundaries, rows that come and go between two queries | no volume too small through overflow; total and rows agree |
| Model providers (`http_source.go`, `search.go`) | none | Search, ListFiles, ResolveMetadata, Fetch | Hugging Face, ModelScope | two ways of paging, a page that is reached over the pages before it, sizes a provider may leave out | a walk shows each result once |
| Fine-tuning facts (`finetuning_facts.go` of `service`, `data/storage`, `data/postgres`, `biz/model`) | none; one object version pinned per call | ResolveFinetuningFacts | object store, version and model tables | the archive is judged while it arrives; object and rows change under the call | facts are about the registered bytes; a broken connection is no verdict |
| Identity, RPC policy, TLS (`rpc_policy.go`, `grpc_tls.go`, `identity/context.go`) | none | one chain of checks per call | every handler | the order of the checks, repeated metadata | a client reads its own tenant through its own methods |
| Import Job program (`cmd/minio-provision/main.go`) | the staging directory of its Pod | download, archive, upload, print the result | provider CLI, object store through a signed URL | runs on when its worker is gone; uploads to the one object of the task | what it prints is what it uploaded |
| Inference client, observability, generated code | none that changes | | | | not modelled, see section 8 |

Interactions. The service writes a task row and wakes the worker; the worker's
due scan finds it (the scan is authoritative, the wake-up only an optimization).
Workers of several replicas interact only through the task row. The executor's
Job interacts with the worker through its log and with other attempts through
the object it uploads. The worker then writes artifact, checksum and version
status, and the model's status follows. Deletion and inference meet in row locks
on model and version.

## 2. Plan

Order, most important first. `done` means modelled, checked and, where it says
so, proved.

1. `TaskRow`, `ImportTasks`, abstract `TaskLifecycle`, proofs in
   `ImportTasksTyping` and `ImportTasksProofs`: tasks, workers, versions. **Done.**
2. `Catalog`: status of model and versions under PostgreSQL row locks;
   MarkReady, MarkErrorAndMaybeModel, DeleteModel, DeleteVersion, CreateVersion,
   reads for materialization. **Done**, with proofs in
   `CatalogProofs`.
3. `ImportJobs`: the Kubernetes executor and the program of its Job; Jobs, claims,
   Secrets and the shared object over several attempts and user retries. **Done**,
   with proofs in `ImportJobsProofs`.
4. `TrainedRegistration`: Prepare, Complete, Abort, Fail and the client's upload.
   with the abstract `ArtifactOutcome`. **Done**, with proofs in
   `TrainedRegistrationProofs`. Left: the runtime that a registration inherits and
   freezes.
5. `Admission`: idempotent creation, uploads, bundles, retries, audit, with the
   abstract `Intake`. **Done**, with proofs in `AdmissionProofs`.
6. `WorkerRuntime`: configuration, supervisor, readiness, wake-up channel and poll
   timer. **Done**, with proofs in `WorkerRuntimeProofs`.
7. The edges, each a module of its own and checked together by `MCEdges`:
   `RequestGate` with `FinetuningFacts`, `ProviderSearch`, `VolumeEstimate`,
   `UploadSession`, `ListPages`, with proofs in `EdgesProofs`. **Done.**
8. Theorems: every safety property and action property that a run checks, the types of
   every module, and the refinements of `TaskLifecycle` by `ImportTasks`, of `Intake`
   by `Admission` and of `ArtifactOutcome` by `TrainedRegistration`. **Done.** Also
   proved: who waits for whom in `Catalog` and in `Admission`.

## 3. Modules and the code

`TaskRow` is one row of `model_import_tasks` and its conditional updates: WHERE
clauses are the predicates `Due` and `Fenced`, SET lists the operators
`ClaimRow`, `RenewRow`, `BindRow`, `CompleteRow`, `RetryRow`, `FailRow`,
`RetryFailedRow`. The database clock is the only clock; the row keeps the time
left until `lease_until` and `next_attempt_at`.

`ImportTasks` has the variables `row` (task rows), `ver` (versions with their
artifact and a flag for a deleted model), `wk` (where each worker is in `runOnce`
and what it remembers of its claim), `todo` (its due list) and two counters that
bound faults and user retries. Each action is one statement of the database with
the code up to the next one:

| Actions | Code |
|---|---|
| `ListDue`, `Claim`, `ClaimReplyLost` | `runOnce` and `WorkStore.ListDue/Claim` |
| `ResolveBinding`, `ResolveFails`, `Bind`, `BindReplyLost` | `ImportBindingStore.ResolveBinding`, `WorkStore.Bind` |
| `Renew`, `RenewFails` | the renewal goroutine; `lost` stands for an error in `renewErr` with the execution cancelled |
| `PersistArtifact`, `SetChecksum`, `ExecuteFails` | the end of `KubernetesImportExecutor.Execute` (`finalizeJob`), which has two statements |
| `MarkReady`, `MarkReadyReplyLost` | `VersionStore.MarkReady` with the check for a version that is ready already |
| `MarkErrorAndMaybeModel`, `Retry`, `Fail`, `Complete` | `retryOrFail` and the fenced statements of `WorkStore` |
| `CallFails`, `Crash`, `Restart` | a statement that does not reach the database, the end of the process, its restart |
| `Create`, `RetryFailed`, `DeleteVersion`, `DeleteModel` | API calls as the import sees them |
| `Tick`, `LateTick` | the database clock; `LateTick` lets a lease run out under a working worker and is counted as a fault |

The renewal goroutine and `Execute` run concurrently in the code and are
interleaved in the model. `SetChecksum(w, spurious)` covers the race at the end
of `Execute`: `cancel()` may make a renewal in flight report an error although
the lease is held.

`TaskLifecycle` is the abstract promise of the store: an open task has at most
one holder, only a holder decides it, an outcome is final except that a failed
task may be reopened. `ImportTasks` implements it with `holders[t]` the workers
whose claim the row still confirms. `MCImportTasks` instantiates for TLC.

`RowLocks` is PostgreSQL's table of conflicting row locks. `Catalog` is one model
(`mdl`), its versions (`ver`), the transactions on them (`txn`: operation, stage,
version) and the references of inference requests (`ref`). Isolation is READ
COMMITTED: a statement takes a snapshot, waits for a row lock, and when it had to
wait looks at the locked row again, at nothing else. A transaction is its snapshot
(`Begin...`) and a step per contended lock, the last of which commits; a write
nobody can see before the commit is made by the commit. `Holds` derives the
locks of a transaction from its stage.

| Actions | Code |
|---|---|
| `BeginCreateVersion`, `CreateVersion` | `CreateModelVersion` (parent `FOR KEY SHARE`) |
| `CompleteRegistration`, `ResetVersion` | `TrainedArtifactStore.Complete` on an existing model, `RetryFailedImportTaskAndResetVersion`: one step each, as they wait for one contended lock only |
| `BeginMarkReady`, `UpdateVersion`, `MarkReady` | `MarkModelVersionReady`: snapshot, inner UPDATE, outer UPDATE and commit |
| `BeginMarkError`, `UpdateVersion`, `MarkErrorAndMaybeModel` | the three statements of `MarkErrorAndMaybeModel` |
| `BeginDeleteModel`, `BeginDeleteVersion`, `LockModelForDeletion`, `LockVersionForDeletion`, `CheckReferences`, `DeleteModel`, `DeleteVersion`, `Expire` | `deleteProtected` with its deadline of 10 seconds |
| `BeginRead`, `LockModelForRead`, `ReadReady` | `GetReadyModelVersion` (`FOR SHARE OF m, v`) |
| `CommitReference`, `ReleaseReference` | the inference service, as the comment at `deletion_store.go:110` describes it |
| `Abandon` | lost connection, cancelled context, PostgreSQL's deadlock detection |

That locks are granted in the order model, version for the joined `FOR UPDATE OF
m, v` and `FOR SHARE OF m, v` is how PostgreSQL's LockRows node processes them.
A DeleteModel that finds no reference deletes only the model row; the versions
keep their status.

`ImportJobs` is the inside of `Execute`, which `ImportTasks` treats as one place
(`PersistArtifact`, `SetChecksum`, `ExecuteFails` being its visible end). Of the
task row it keeps status, attempt count and holder of the live lease (`task`);
`ex[w]` is where worker `w` is in `Execute` and of which attempt; `job[a]`,
`pvc[a]` and `secret[a]` are the Kubernetes objects named after attempt `a`;
`object` is the content of `imports/<task>/model.tar` and `artifact` the checksum
recorded for the version. One call of the Kubernetes API, the object store or the
artifact store is one step:

| Actions | Code |
|---|---|
| `Claim`, `RetryFailed`, `Expire` | `ClaimImportTask`, `RetryFailedImportTask`, a lease that runs out |
| `EnsurePVC`, `GetJob`, `GetSecret`, `CreateSecret`, `CreateJob`, `GetAgain` | `Execute` up to its loop (lines 54-133); Get and Create of `ensurePVC` are one step |
| `Watch` | one round of the loop: `Status`, `refreshUploadSecret` |
| `ReadLogs`, `Verify`, `Record` | `finalizeJob`: `Logs`, `ObjectExists` with `VerifyChecksum`, `persistArtifact` |
| `DeleteJob`, `DeletePVC`, `DeleteSecret` | `cleanupJob`, `cleanupPVC`, `cleanupUploadSecret`, after a finished Job or to undo a failed start |
| `CallFails`, `ReplyLost` | a call that fails before or after it took effect, with what `Execute` does next (`AfterError`) |
| `Cancelled`, `RenewFails`, `Crash` | the context cancelled by the renewal goroutine, the end of the process |
| `StartPod`, `Upload`, `Succeed`, `FailPod` | `cmd/minio-provision/main.go` in its Pod, which mounts claim and Secret |
| `Deadline`, `Collect`, `Reclaim` | Kubernetes: `ActiveDeadlineSeconds` of a Job that cannot start, foreground deletion, a claim that is deleted once no Pod uses it |

`Return` merges MarkReady with Complete, and `retryOrFail` with its statements:
`ImportTasks` has them one by one. Errors of `EnsureBucket`, `jobSpec` and the
manifest are a `CallFails` at `ensurePVC`; those of `CreateUploadURL` one at
`createSecret`. Three parts of the executor have modules of their own: the lifetime
of the signed URL and its refresh (`UploadSession`), the size of the claim
(`VolumeEstimate`), and `SetChecksum` (`ImportTasks`).

`TrainedRegistration` is the registration of trained artifacts: the rows of
`trained_artifact_registrations` (`reg`), the models they go to (`mdl`), who made
the version of the contested label (`ver`), the object and the upload address of
each registration (`object`, `url`) and the calls in progress (`call`). A
registration stands for its idempotency key; all ask for one label and, when they
make a model, for one name, so that any two compete:

| Actions | Code |
|---|---|
| `BeginPrepare`, `Insert`, `CreateUploadURL` | `PrepareTrainedArtifact`: the target is resolved, the row inserted or found, the address signed |
| `BeginUploadURL` | `GetTrainedArtifactUploadURL`, which asks for a pending registration |
| `Upload` | a client that uses an address, once or again |
| `BeginComplete`, `ObjectExists`, `VerifyObject`, `MarkUploaded`, `Recheck` | `CompleteTrainedArtifact` and `MarkUploaded` |
| `LockRegistration`, `LockModel`, `Commit`, `Conflict`, `StatementFails`, `CommitUnanswered`, `Rollback`, `Fail` | `TrainedArtifactStore.Complete` with its deferred function |
| `Abort` | `AbortTrainedArtifact` |
| `Lose` | the end of the process, or an error that is only reported or dropped |
| `DeleteModel` | a deletion, one step as it holds the model row throughout |

The transaction of Complete is three steps, as in `Catalog`: the row of the
registration, the row or the name of the model, the commit. `Catalog` sees the
same transaction as its one step `CompleteRegistration`. After a rollback `Fail`
is a statement of its own on another connection; only where the transaction did
not begin, or the process ended, is it left out.

`ArtifactOutcome` is the abstract promise of registrations: each is given up or made
into a version once; into a version only after its object was found right, under a
model that is there or that comes into being with it, and in one moment with its
receipt. `TrainedRegistration` implements it with the status, target and model of
`reg` as `status`, `target` and `receipt`, `mdl` as `catalog` and `ver` as `version`;
calls, locks, uploads and errors do not show.

`Admission` is how the API takes in models, versions and import tasks. A call is
its request (`req`), its place in the handler (`at`), the row it speaks of (`got`)
and its answer (`reply`); `rows[t]` are the committed rows of a table, named after
the call that inserted them, `open[c]` the tables in which the transaction of a
bundle has inserted. `Clash` derives the unique indexes from the requests: the
idempotency key, the name of a model, the label of a version.

| Actions | Code |
|---|---|
| `LookUp`, `InsertRow`, `Reread` | `ModelStore.CreateModel`, `VersionStore.CreateVersion`, `WorkStore.Create`; only the last reads again after a unique violation |
| `ReplayBundle`, `InsertBundle`, `CommitBundle`, `ReplayAgain` | `ImportBundleStore.Create`: the look-ups before and inside the transaction, its three inserts, the look-up after a unique violation |
| `Verify`, `CreateArtifact`, `MarkReady` | `CreateModelVersion` with a storage path: `ObjectExists`, `VerifyChecksum` and the two stores |
| `RetryFailed`, `TaskFails` | `RetryImportTask`, and the worker giving a task up |
| `RecordAudit` | `recordAudit`, after the commit and outside of it |
| `BreakOff` | a statement that fails, a lost answer, a deadline, the end of the process |

`Intake` is the abstract promise of admission: a request is carried out as a whole and
at one moment between its arrival and its answer, only where none of its rows would be
one entry of a unique index with another's; whoever is accepted is told a row that is
there and was asked for in the same words; whoever is refused does nothing from then
on. `Admission` implements it with `req` as `asked` and `rows` as `stored`; `answer`
and `told` follow from `at`, `reply` and `got`. What a transaction has inserted and not
committed (`open`), where handlers are, artifacts, failed tasks and audit events do not
show.

`WorkerRuntime` is the process around the worker: its settings, its lifecycle
(`process`), the loop of `Worker.Run` (`worker`), the wake-up channel of capacity
one (`wake`), the readiness flags and a probe that loads them one after the other.
A task is due until a scan lists it.

| Actions | Code |
|---|---|
| `Boot` | `validateRequiredConfig` and `run` in `main.go` |
| `StartWorker`, `Started`, `BeginStop`, `CancelWorker`, `EndStop` | the hooks in `app.go` with `WorkerSupervisor.Start` and `Stop` |
| `ListTasks`, `ListTasksFails`, `Work`, `OnTick`, `OnWake`, `OnCancel`, `Leave` | `Worker.Run`, its deferred report and the goroutine of the supervisor |
| `CommitTask`, `Notify`, `NotifySkipped` | a handler that commits a task and comes to `Notify`, or breaks off before |
| `ProbeReady`, `ProbeDependencies` | `readyz` in `readiness.go` |
| `Die`, `Restart` | the end of the process, and its next start |

The edges are components without shared state; `MCEdges` starts each of them in
turn, with the others parked at their end, so that one run explores all.

| Module | State | Actions and code |
|---|---|---|
| `RequestGate` | none | `GateVerdict`: the budget of a method (`grpc_tls.go`), policy and principal (`rpc_policy.go`), `RequireTenant` (`identity/context.go`), in their order |
| `FinetuningFacts` | a call, the rows of source and target, the object versions of the archive, how much of it arrives, the reader | `PassGate`, `ReadSource`, `ReadOwner`, `ReadTarget` (`service/finetuning_facts.go`), `StatObject`, `GetObject`, `ReadMember`, `EndArchive` (`data/storage/finetuning_facts.go`), `Expire`, `DeleteSource`, `ReplaceObject` |
| `ProviderSearch` | provider, page and cursor, what the caller has been shown | `AskPage` (`SearchRequest.Validate`), `FollowCursor`, `FollowedCursor` (`huggingFaceCursorForPage`), `FetchHuggingFace`, `FetchModelScope`, `ProviderFails` |
| `VolumeEstimate` | a manifest and the claim it leads to | `EstimateVolume`: `ListFiles`, `estimateManifestSize`, `storageQuantity`, in integers that wrap around |
| `UploadSession` | clock, until when the URL in the Secret and the mounted one are valid, next look | `Look` (`refreshUploadSecret`), `Remount` (kubelet), `Upload` (Job program), `Abandon`, `Adopt` (the next attempt) |
| `ListPages` | the rows of a list, the snapshot of a read, what the caller has seen | `AskList` (`resolvePage` and the existence of the parent), `ReadCount`, `ReadRows` (the two queries of a page), `TakePage`, `ReadFails`, `RowEnters`, `RowLeaves`, `ParentDeleted` |

`FinetuningFacts` measures sizes in blocks of a tar archive: a header is one block,
so is the end of the archive. `covered` in `UploadSession` is a history variable: no
gap in watching since the URL was last seen to be good. `Sums` has the partial sums of
a sequence, by which `VolumeEstimate` says what its checked sum should have been and
`FinetuningFacts` how large an archive is. A page of a list is cut from the rows by
their rank (`Before`, `Newest` of `ListPages`), which is what ORDER BY defines.

## 4. Runs

| Run | Question | Bounds |
|---|---|---|
| `ImportTasksSingle` | Is a task held once, failed only when exhausted, its lifecycle kept, and is it settled in the end? | 1 task, 2 workers with one owner, 1 version, 1 content, 2 attempts, 2 faults, 1 user retry |
| `ImportTasksShared` | Does a ready, failed or completed outcome mean what it should when two tasks fill one version? | 2 tasks, 2 workers, 1 version, 2 contents, 1 attempt, 1 fault, 1 user retry; workers are symmetric |
| `CatalogTransactions` | Is anything in use deleted, does the model's status aggregate its versions, are deleted and ready final, and does every transaction end? | 2 versions, 2 connections, 1 inference request |
| `CatalogResurrected` | (violation) Does no read succeed after the deletion of its model? | 1 version, 2 connections, 1 request |
| `ImportJobsSafety` | What may be left behind, and what does completion mean for object and checksum? | 2 workers, 2 contents, 2 attempts, 1 fault, 2 Pod failures, 2 user retries; workers and contents are symmetric |
| `ImportJobsLiveness` | Is the task completed when there are fewer faults than attempts, and does `Execute` return? | 2 workers, 1 content, 2 attempts, 1 fault, 1 Pod failure, 1 user retry |
| `ImportJobsOverwritten` | (violation) Does the object of a completed task keep the recorded content? | 2 workers, 2 contents, 2 attempts, 1 fault |
| `TrainedRegistrations` | Is a registration ready exactly with its one version, is its life cycle that of `ArtifactOutcome`, does a deleted model get none, is a verified one decided, and does every call end? | 2 registrations, 2 connections, 2 models, 1 content, 1 lost call |
| `Admission` | Have repetitions one outcome, are bundles whole, is what was answered audited, are uploads verified, does every call end, and is all of it the intake of `Intake`? | 3 calls, 2 of them at a time, 2 keys, 2 names, 2 contents, 3 paths, 1 call that breaks off, 1 task that fails |
| `WorkerRuntime` | Is a wake-up ever lost, is readiness backed, is a committed task listed, does stopping end? | every set of settings, 2 tasks, 1 failing scan, 1 restart |
| `Edges` | Are facts about the registered bytes and breaks in the connection no verdict; does a walk through a provider or a list miss or repeat nothing; is a volume large enough; does the upload URL in the Pod last? | 16 archives of up to 7 members, 5 results on pages of 2, sizes of 8 bits, 16 units of time, 4 rows on pages of 2 and 3, offsets of 4 bits |
| `ProviderPages` | (violation) Does a page number page, whatever the provider? | as `Edges` |

Why these bounds. Exclusion needs one task and two workers that cannot be told
apart by their owner; a lease of 2 ticks lets it be renewed, expire on time and
expire late; with two attempts a worker can be stale by one attempt, by one
round (user retry) or by both; two contents make two downloads of one task
differ. Two faults allow a worker to stall past its lease while the other
crashes or loses a reply. A second version would not interact with the first:
tasks share a version, never two of them. Two transactions
are what a deadlock or a stale snapshot takes; the safety properties of `Catalog`
are proved for any number. In `ImportJobs` a fault leaves the Job of an attempt
running beside that of the next one, a user retry brings the names of the first
round back, and with a second one an attempt can meet what the clean-up of an earlier
round had not finished, which is where the bound of `LeftoversBounded` changes;
`Completes` is checked with one content, as it does not hold of a revision whose
downloads differ: an old Job can then make the verification of a later attempt
fail, and a recorded checksum makes every later attempt with other content fail. In
`TrainedRegistration` two registrations and two connections give every pair that
competes for a registration, a label or a name; other content than the declared one
fails a registration as a missing object does, so one content is enough for the
passing run, and an expired address is one that is not used again.

In `Admission` three calls are a request, its repetition and a third that has taken
a name or a label from either; a deadlock takes two transactions and the lost
answer one break. The requests repeat a key with the same payload, with another one
and with another path, two bundles share a name under different keys, and one path
holds other content than the version declares. In `WorkerRuntime` a second task can
be committed while the first is being listed, and a restart finds what the process
before it had left. The widths of `Edges` are small but each limit is met from both
sides: sizes lie around `MaxInt - MinHeadroom`, around a sum that overflows and
around the rounding; offsets around the largest one; archives exceed each limit by
one; the threshold of the upload URL equals the interval and the delay of the mount
together, the tightest case its assumption allows.

Type invariants and inductive invariants are proved (section 6), and TLC does not
evaluate them again. The same is true of `OutcomeFinal` of `TrainedRegistration`, an
action property that `ImplementsOutcome` includes.

Deadlock is not checked where the system does stop: tasks that are all settled and
user retries that are used up, versions that are deleted, calls that have ended, a
process that is not restarted, a walk at its end.

The fault counters bound only what goes wrong; users, clock and workers are
unbounded except for user retries and the number of calls.

## 5. Fairness

`FairSpec` assumes weak fairness of `Tick` (time passes), of each worker's
`Step` (`Worker.Run` scans until its context ends and its process is restarted by
the platform, `Execute` returns) and of each worker's `Renew` (the ticker of the
renewal goroutine). That `Execute` returns is an assumption about its Job, which
has an active deadline of 7 days and a backoff limit of 0. No fairness is assumed
of users or of any fault, and `Step` as a whole is fair, not its alternatives:
the executor may fail each time.

`ImportJobs` assumes the same of `Claim` and `Step` together and of `Cancelled`
(the renewal goroutine notices in time that the lease is gone), and weak fairness
of a Job's progress, of its deadline and of garbage collection, which Kubernetes
controllers give. `ExecutionsEnd` rests on it and so supports the assumption of
`ImportTasks` that `Execute` returns.

`Catalog` assumes strong fairness of what waits for a row lock (PostgreSQL queues
lock requests, so nobody is overtaken for ever) and weak fairness of `Expire`,
the deadline of a deletion. Nothing is assumed of the inference service: without
`Expire` a deletion whose check is not answered would block every other
transaction, which is the mutant of this run. Nor is `Abandon` fair: that two
transactions which lock model and version in opposite orders do not block for
ever follows from the deadline, as one of them is always the deletion of a version
(`NoCircleWithoutDeletion`, proved): reads lock in the order of deletions, but they
wait for a version that was ready, and the version a finalization holds is pending.

`TrainedRegistration` assumes weak fairness of the steps of a call without its
errors. Nobody has to call, to upload or to retry, and errors cannot be what ends a
wait for a lock: `CallsEnd` holds since locks are taken in the order registration,
model, and `Fail` waits after the rollback only. A registration is locked by
finitely many transactions, as one that is decided lets no call reach another.

`Admission` assumes weak fairness of `Handle` of each call: the process goes on and
PostgreSQL wakes the one that waits for another's insert, as soon as that
transaction has ended. Weak fairness is enough: a call waits at one place only as
long as one transaction is open, and a bundle that commits leaves a row that ends the
wait with a violation. `CallsEnd` says so: all bundles insert in the order model,
version, task, so that none waits for one that waits for it, in circles of any length
(`NobodyWaitsInACircle`, proved). Break-offs are not fair, they cannot be what ends a
wait.

`WorkerRuntime` assumes weak fairness of `StartWorker` and `Started` (the hook
AfterStart runs to its end), of `CancelWorker` and `EndStop` (the hook BeforeStop
waits for the worker, without a deadline of its own) and of the loop. For `OnTick`
that is the ticker; for `Work` it is that a scan ends, which rests on
`ExecutionsEnd` of `ImportJobs`. Nothing is assumed of `Boot`, `Restart`, of stopping
or dying, nor of `Notify`: `TasksListed` holds without any wake-up, by the ticker.

The edges have no fairness: their properties are safety properties, which speak of
the end of a walk where it comes to one.

## 6. Proofs

`ImportTasksTyping` proves `TypeCorrect` (`Spec => []TypeOK`), with lemmas on what
each row statement returns. `ImportTasksProofs` proves `Invariance`
(`Spec => []IInv`) and from it `Exclusion`, `Exhaustion`, `Verification`,
`Completion`, `Recovery` and the action property `Finality`, for any sets of
tasks, workers, owners, versions and contents and any bounds, from
`TaskRowAssumption` and `ImportTasksAssumption` alone. The owner assignment is
arbitrary: fencing is proved not to depend on it.

Why the invariants need strengthening: `LeaseExclusive` follows from
`EpochUnique` (no two claims of a task have the same epoch), which is preserved
because a new claim's epoch is above every remembered one
(`ClaimRemembered`: an epoch is never ahead of its row). `FailedOnlyExhausted`
needs that the count a worker remembers is the row's as long as the row has its
epoch, in spite of the reset in RetryFailed, which needs a failed row and so ends
every live claim. `CompletedOnlyReady` and `ErrorRecoverable` need
`PlaceJustified`: where a worker is in `runOnce` tells what was decided before.
The proof summarises what any step may do to a row, to a version and to a
worker's memory (`RowStep`, `VersionStep`, `WorkerStep`) and shows that each part of the
invariant is preserved by these summaries.

`Refinement` is `Spec => ImplementsLifecycle`: seen through the mapping, the task store
keeps the promise of `TaskLifecycle`. The initial states map to its initial states, and
`StepsImplement` maps each step: `Create` to a submission, `Claim` to taking a task
that has no holder as its lease has run out, `Complete` and `Fail` to the decision of the one
holder, `RetryFailed` to reopening, any step by which workers lose what they held (a lease
that runs out, a crash, a lost reply) to a release, and the rest to stuttering. It rests on
`NoClaimRevived`: no step but `Claim` makes a worker a holder, since every other
statement is fenced by an epoch and a lease that are still valid.

`CatalogProofs` proves `Invariance`, `NothingInUseIsDeleted`, `ModelAggregates`,
`DeletedAndReadyAreFinal` and `DeletedModelsGetNoVersion` for any numbers of
versions, connections and requests, from `CatalogAssumption`. The invariant adds
to the properties: `LockExclusion` (conflicting locks are never held together,
since a step that takes a lock found it grantable), `TxnJustified` (a
finalization that waits for the model has a pending version under its lock; a
read has its request's committed reference), `Unreferenced` (after its check a
deletion faces no validated request: a read that could become one would hold the
model `FOR SHARE`, `NoReadBesideDeletion`) and `Referenced`. As above, the proof
goes through summaries of what a step may do (`PlaceStep`, `VersionStep`,
`ModelStep`, `RefStep`).

`NoCircleWithoutDeletion` is about who waits for whom (`WaitsFor`, from `Wants` and
`Holds`): any transactions that wait for each other in a circle include the deletion of
a version that has locked the model and waits for the version. Without that one,
whoever waits has advanced less far than whom it waits for (`WaitsForAdvanced`):
deletions that ask for references or have their answer wait for no lock, a read that
has locked the model waits for those only, a finalization that has locked its version
for both. That a read does not wait for a finalization needs `ReadsReady` (its version
was ready and is ready or deleted), as the version under a finalization is pending. Of
`TransactionsEnd` this is the part that is not about fairness; that circles with a
deletion do occur TLC shows.

`ImportJobsProofs` proves `Invariance`, `CompletionStores` and
`ArtifactNeverReplaced` for any numbers of workers, contents, attempts, faults, Pod
failures and user retries, from `ImportJobsAssumption`. `CompletedStored` is not
inductive: it needs `Stored`, by which a Job that uploaded has a content, a worker
at `verify` or `record` read it from such a Job, and one that is to return success
has recorded it. `HolderExecutes` and `AttemptsApart` say whose attempts these are;
the latter needs that every claim counts, and ends with the first user retry. The
proof divides what a worker does into leaving Execute (`Leaves`) and moving within
it (`Moves`), so that most conjuncts are preserved by the two, not by each action.

`LeftoversAreBounded` counts. Up to the second retry of a user, every attempt that no
fault has met is `Tidy`: the worker that executes it holds the lease and finds of its
Job, claim and Secret what its place in Execute expects (`AsExpected`), and once nobody
executes it, they are gone or being deleted. `FaultsSpoil` says that no more attempts are
untidy than there were faults; it is inductive since a step without a fault keeps every
attempt tidy (`StepTidy`, `RunTidy`, `ClaimTidy`, `RetryTidy`) and one with a fault
concerns the attempt of one worker (`SpoilsAtMostOne`). From the second retry on that is
false: TLC finds a third round in which a claim was reclaimed before its Job, so that an
attempt meets the Job, binds a new claim under the old name, sees the Job disappear and
returns without a clean-up. The bound is then `faults + MaxAttempts`, from
`AttemptsReached`: each attempt count beyond `MaxAttempts` took a fault.

`TrainedRegistrationProofs` proves `Invariance`, `ReceiptsAreBacked`,
`VerifiedIsInHand`, `OutcomesAreFinal` and `DeletedModelsGetNoVersion` for any
numbers of registrations, connections, contents and lost calls, from
`TrainedRegistrationAssumption`. `ReceiptBacked` needs `StillTrue` (while its
transaction runs, a registration is open and its target not deleted, its name not
taken), which needs `OneHolder` (the locks exclude each other). A step either
changes no row (`Passes`), rewrites an open row that nobody has locked
(`Rewrites`), inserts a row, commits, or deletes a model; most of the proof is about
the first two.

`OutcomeIsImplemented` is `Spec => ImplementsOutcome`. `Insert` maps to registering,
`MarkUploaded` to `FindRight`, both commits to `MakeVersion`, `Fail` and `Abort` to
giving up, `DeleteModel` to a deletion, every other step to a stutter (`StepMapped`).
The commit is where it could fail: it looks at nothing but the label of the version, so
that registration and model must still be what the transaction found them (`StillTrue`),
and the registration must have been marked uploaded, although `Complete` takes a
pending one as well. The latter is `Marked`: the transaction is begun only behind
`MarkUploaded` or its re-check, and no step makes a registration pending again.
`NoEarlyReceipt` says that a receipt names no model before the version is there.

`AdmissionProofs` proves `AdmissionInvariance` and from it `OutcomeIsOne`,
`BundlesAreWhole`, `AnswersAreAudited` and `UploadsAreVerified` for any sets of calls,
requests and stored objects and any bounds, from `AdmissionAssumption`. None of the
four is inductive. They need that what a call has read stays true until it is
answered (`RowKnown`: rows are not taken away and keep their request), that the place
of a call tells what its transaction has inserted (`OpenFits`), that the unique
indexes hold among committed and uncommitted rows together (`Unique`, by which two
repetitions of a key find the same row and a commit cannot meet a clash), and that an
artifact was recorded only after its object had been verified (`ArtifactsFit`).

`IntakeIsImplemented` is `Spec => ImplementsIntake`. `Receive` maps to `Ask`; an
`InsertRow` that meets no other row and `CommitBundle` map to `CarryOut`; `RecordAudit`,
and a look-up that finds a finalized upload, map to `Accept`; conflicts, rejections and
`BreakOff` map to `Refuse`; everything else stutters. `InsertBundle` is invisible: what
makes its three inserts one step at the commit is `OpenFits` with `Unique`, which says
that no row committed meanwhile clashes with one of them. `Accept` needs `RowKnown`: the
row a call has found is still there, and was asked for with the same fingerprint
(`FingerprintKey`) unless it is the call's own.

`NobodyWaitsInACircle`: among any calls there is one that waits for none of the others,
since whoever waits for the insert of a bundle is at an earlier table than the bundle
(`WaitsForward`, from `OpenFits`), and single creations hold no insert while they wait.

`WorkerRuntimeProofs` proves `RuntimeInvariance`, `WakeupsAreKept` and
`ReadinessIsBacked` for any numbers of tasks, failing scans and restarts.
`NoLostWakeup` and `ReadyBacked` are inductive together with their types and
`Configured`: a process that has started has a complete configuration that was
accepted. The proof goes by the life of the process, its loop and the calls.

`EdgesProofs` proves, each for the specification of its own component and from the
assumption of its module alone, the types (`UploadTyped`, `SearchTyped`, `ListTyped`,
`EstimateTyped`, `FactsTyped`) and:

- `UploadInvariance`, `UrlStaysUsable`. `UrlUsable` needs `UrlOutlasts`: until the next
  look the URL in the Secret outlasts that look and a mount after it, and a URL that is
  still mounted after a renewal outlasts the mount.
- `WalkInvariance`, `WalksComplete`, for any catalogue and page size and any number of
  failing requests. `WalkInv`: what has been shown are the pages before the one that is
  asked for, each of them linked to the next, and a cursor is exactly as far as its
  requests (`hop`), although a failure leaves it anywhere.
- `ListInvariance`, `PagesFitTotal`, `ReadsToTheEnd`, for any set of rows and any page
  sizes. `ListInv`: while no row has left, a row of the beginning that has not been seen
  has at least as many rows before it as the pages already read hold, in the list and in
  the snapshot of an answer; a row that enters only adds to those before it
  (`AheadGrows`).
- `EstimateInvariance`, `VolumesFit`, for manifests of any length with any sizes, for any
  width and unit. `EstimateExact` is the induction over the manifest: the checked sum is
  the true one, or it was given up and some size is missing, negative or too large, or
  the true sum is.
- `FactsInvariance`, `FactsAreMeasured`, `SoundIsNotRefused`, for archives of any length
  and any limits. `FactsInv`: the reader has measured (`MeasuredTo`) exactly the members it
  has passed in the pinned object version: their names, files and sizes, with each check
  passed. At the end that gives `Sound`; and since partial sums and counts of a sound
  archive stay within what the whole is allowed (`FilesSumGrows`, `FilesToFinite`), no
  check refuses one of its members (`SoundAdmitted`) wherever the connection breaks.

Induction over data. The induction theorems of the library take an operator and cannot
be used, but that a set with 0 and all successors contains the naturals (`Induction`)
follows from the well-founded order of the naturals, and by it functions defined by recursion
(`Recursion`, whose steps are a function, too) and partial sums (`SumsAdd`) have the
values one expects. What is computed along a sequence is therefore defined as a recursive
function, never as a RECURSIVE operator; that includes the selection of the results of
ModelScope that have a name (`Named`), as the provers know nothing of `SelectSeq`.

Only model-checked: liveness (`TasksSettle`, `TransactionsEnd`, `Completes`,
`ExecutionsEnd`, `CallsEnd` of registrations and of admission, `TasksListed`,
`StopEnds`). It rests on fairness and on ENABLED, which is out of the prover's reach;
`NoCircleWithoutDeletion` and `NobodyWaitsInACircle` are what could be proved of it.

## 7. Disagreements between code and documents

Each of the first three is a run whose property TLC finds violated.

- `NoReadAfterDeletion` (run `CatalogResurrected`):
  `docs/superpowers/plans/2026-09-17-ai-services-functional-completion.md:42` says
  that a request which commits its reference after the check of a deletion finds
  the model deleted when its worker reads again. `MarkModelVersionReady` looks at
  the model's status in the snapshot of its CTE only (`queries/model.sql:130-133`).
  If DeleteModel holds the model then, the outer UPDATE (136-139) waits and
  afterwards sets the status to `ready`, `deleted_at` staying set. The run shows
  this and the read that then succeeds. `InUse` holds nevertheless: the run
  refutes that the deletion is final, not that it spares what is in use.
- `CompletedInPlace` (run `ImportJobsOverwritten`):
  `docs/superpowers/specs/2026-09-14-model-service-design.md:73` says that the result
  of an old worker must not overwrite the current one. All attempts upload to one
  object (`internal/worker/kubernetes_executor.go:309-311`) and nothing stops the Job
  of an attempt whose worker crashed or lost its lease. The run shows it replacing
  the object of a completed task by other content.
- `PagesInOrder` (run `ProviderPages`): `docs/model-inference-fields.md:63` says that
  `page` pages by page numbers from 1. For ModelScope, `Search` replaces the number by
  the page in the cursor (`internal/data/importer/http_source.go:306`), which is 1
  since the service never passes one (`internal/service/model.go:240-242`). The run
  shows a caller that is given the first page again and again.

Other places where documents say more than the code does, seen in the models and
not checked by a run of their own:

- `docs/execution/status.md:129` and
  `docs/execution/records/2026-09-15-import-version-binding.md:9` say that the version
  is set ready under the lease. `Worker.runOnce` calls `MarkReady(tenant, version)`
  (`internal/worker/import_worker.go:236`), which knows no lease; action `MarkReady` of
  `ImportTasks` accordingly has no such guard. `ReadyVerified` and `ReadyIsFinal` hold
  nevertheless.
- `docs/superpowers/specs/2026-10-08-model-storage-upload-session-design.md:29`
  promises a new Job and Secret name to each new attempt. The names are made of task
  and attempt count, which RetryFailed resets.
- `.planning/2026-09-20-import-k8s-job/progress.md:6` and
  `docs/execution/records/2026-09-20-kubernetes-import-job.md:20` say that a restarted
  worker takes up the same attempt. ClaimImportTask counts a new one each time
  (`queries/model.sql:247-255`), so the Job is not found and a second one is created.
- `docs/superpowers/specs/2026-10-20-trained-artifact-registration-design.md:121` and
  `internal/biz/storage/storage.go:44` call the object of a registration immutable. Its
  presigned PUT (`internal/data/storage/minio.go:129`) stays valid for 15 minutes
  whatever Complete does, and `PrepareTrainedArtifact` signs a new one on every replay
  (`internal/service/trained_artifact.go:93`).
- `docs/superpowers/specs/2026-09-14-model-service-design.md:79` writes the audit event
  with the change. `recordAudit` runs after the commit (`internal/service/model.go:711`):
  `AnswersAudited` is about calls that were answered, and one that broke off has its
  event only when it is repeated.

Not disagreements, but worth knowing:

- A worker that stalls between two calls of its clean-up deletes by name, so it may
  delete the Job that a later round, after a user retry, created under the same name.
  When the answer to the creation of a Job is lost, its claim and Secret are deleted,
  and its Pod waits for 7 days.
- The path of an upload is not in the fingerprint of its request. A repetition with
  another path is answered with that path (`internal/service/model.go:344-347`),
  although the artifact may name the first one; and a finalized upload that is
  repeated is answered without an audit event.
- When the artifact of an upload was inserted and the call broke off before
  `MarkReady`, a repetition conflicts at `CreateArtifact` and the version stays pending.
- The fingerprint of an import task leaves out the model and version it is meant for.
- `CreateModel` and `CreateVersion` do not read again after a unique violation: two
  concurrent calls with one key may be answered with success and a conflict, and only
  a further repetition gets the row.
- A manifest entry of ModelScope without a size counts as empty in the estimate.
- A file sum in the last unit below the largest integer gives a negative volume, which
  Kubernetes refuses; `VolumeFits` is about those it accepts.
- After a gap in watching (worker restarts, lease lost) the upload URL may have expired
  until the next look has renewed it and the Pod has seen it.
- The latest versions shown with a page of models are read outside of the page's
  transaction.

## 8. Not modelled

Whole components: the inference client (one remote call; `Catalog` has its answer),
logging, metrics and tracing, generated code, Helm charts.

Of the import: the order in which due tasks are listed, the contents of error
messages, tenants (every statement is scoped by one tenant, so tenants do not
interact; that a caller acts for its own is in `RequestGate`), progress percentages,
versions in status `importing` (no statement of the service writes it), the text of
Job names and their truncation. `MarkModelVersionError` has no caller outside tests,
and `ImportExecutor.Execute` with `Fetch` is not wired in `main.go`. `ResolveMetadata`
is the choice in `ResolveBinding`.

Of registrations: validation of requests, the runtime a registration inherits from a
source version and freezes (`resolveTrainedRuntime`; the request is compared by its
target only), the read-only `GetTrainedArtifactRegistration`, the size added to the
model.

Of the catalog and the API: metadata and total size of models, the filters of lists,
the selectors of `GetModelVersion`, download URLs, the logs of tasks, the audit events
of deletions and registrations. Deletion does not run in `Admission`, where a name or
a label, once taken, stays taken.

Of the runtime and the edges: the kratos servers and their ports, loading of
certificates, digests (modelled as the content they are of), the formats of
the providers. `UploadSession` assumes that storage signs for longer than the
threshold and the delay of a mount (`refreshUploadSecret` names no lifetime) and that
the kubelet follows a changed Secret within that delay; neither is enforced by the
code.
