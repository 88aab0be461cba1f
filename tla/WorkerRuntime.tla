---------------------------- MODULE WorkerRuntime ----------------------------
(***************************************************************************)
(* The process around the import worker: start-up from its configuration   *)
(* (cmd/ani-model-service/main.go), the lifecycle hooks (app.go), the      *)
(* supervisor and the readiness flags (internal/server), and the loop of   *)
(* the worker with its wake-up channel (internal/worker/import_worker.go). *)
(* What a scan does with a task is in ImportTasks; here a task is due,     *)
(* then listed by a scan.                                                  *)
(***************************************************************************)
EXTENDS Naturals

CONSTANTS
    DueTasks,      \* ids of import tasks
    MaxScanErrors, \* bound: scans that fail
    MaxRestarts    \* bound: restarts of the process

ASSUME WorkerRuntimeAssumption == MaxScanErrors \in Nat /\ MaxRestarts \in Nat

VARIABLES
    settings, \* the settings that are present in the environment
    process,  \* the lifecycle of the process
    worker,   \* where the loop of the worker is
    cancelled,\* the context of the loop has been cancelled
    wake,     \* a wake-up is in the channel of capacity 1
    due,      \* tasks committed and not yet listed by a scan
    notify,   \* tasks whose handler has not come to Notify yet
    scanning, \* the tasks the current scan has listed
    told,     \* history: due tasks of which Notify told since the last scan began
    scanErrors,
    scanned,  \* history: a scan has succeeded in this process
    flags,    \* the readiness flags that are set
    probe,    \* a call of readyz
    restarts

procVars == <<settings, process, restarts>>
loopVars == <<worker, cancelled, scanning, scanErrors, scanned>>
taskVars == <<due, notify, wake, told>>
runtimeVars == <<procVars, loopVars, taskVars, flags, probe>>

Settings == {"dsn", "minio", "minioKeys", "contentLimit", "grpc", "grpcName", "image", "namespace"}

\* "list" is about to read the due tasks, "work" processes them, "report" has
\* returned from Run and "gone" has closed done.
WorkerPlaces == {"off", "list", "work", "select", "report", "gone"}

RuntimeInit ==
    /\ settings \in SUBSET Settings
    /\ process = "booting" /\ worker = "off"
    /\ cancelled = FALSE /\ wake = FALSE /\ scanned = FALSE
    /\ due = {} /\ notify = {} /\ scanning = {} /\ told = {}
    /\ scanErrors = 0 /\ restarts = 0
    /\ flags = {}
    /\ probe = "none"

-----------------------------------------------------------------------------
\* validateRequiredConfig
Complete(s) ==
    /\ {"dsn", "image", "namespace"} \subseteq s
    /\ "minio" \in s \/ "grpc" \in s
    /\ "minio" \in s => "minioKeys" \in s
    /\ "grpc" \in s => "grpcName" \in s

\* run refuses two kinds of storage and MinIO without a limit for contents.
Accepted(s) ==
    /\ ~({"minio", "grpc"} \subseteq s)
    /\ "minio" \in s => "contentLimit" \in s

StorageConnected(s) == "minio" \in s \/ "grpc" \in s
PostgresConnected(s) == "dsn" \in s
HasWorker(s) == PostgresConnected(s) /\ StorageConnected(s)

\* main and run: a dependency that cannot be reached ends the process as well.
Boot ==
    /\ process = "booting"
    /\ \/ process' = "exited" /\ UNCHANGED flags
       \/ /\ Complete(settings) /\ Accepted(settings)
          /\ process' = "starting"
          /\ flags' = {f \in {"postgres", "storage"} :
                          \/ f = "postgres" /\ PostgresConnected(settings)
                          \/ f = "storage" /\ StorageConnected(settings)}
    /\ UNCHANGED <<settings, restarts, loopVars, taskVars, probe>>
\* Mutant of StartWorker: a worker that has started counts as healthy.
StartWorkerHealthy ==
    /\ process = "starting" /\ worker = "off" /\ HasWorker(settings)
    /\ worker' = "list"
    /\ flags' = flags \cup {"worker"}
    /\ UNCHANGED <<procVars, cancelled, scanning, scanErrors, scanned, taskVars, probe>>

\* AfterStart: WorkerSupervisor.Start, then the process counts as ready.
StartWorker ==
    /\ process = "starting" /\ worker = "off" /\ HasWorker(settings)
    /\ worker' = "list"
    /\ flags' = flags \ {"worker"}
    /\ UNCHANGED <<procVars, cancelled, scanning, scanErrors, scanned, taskVars, probe>>

Started ==
    /\ process = "starting"
    /\ HasWorker(settings) => worker # "off"
    /\ process' = "serving"
    /\ flags' = flags \cup {"ready"}
    /\ UNCHANGED <<settings, restarts, loopVars, taskVars, probe>>

\* BeforeStop: not ready any more, then WorkerSupervisor.Stop, which waits for done.
BeginStop ==
    /\ process = "serving"
    /\ process' = "stopping"
    /\ flags' = flags \ {"ready"}
    /\ UNCHANGED <<settings, restarts, loopVars, taskVars, probe>>

CancelWorker ==
    /\ process = "stopping" /\ ~cancelled
    /\ cancelled' = TRUE
    /\ UNCHANGED <<procVars, worker, scanning, scanErrors, scanned, taskVars, flags, probe>>

EndStop ==
    /\ process = "stopping" /\ cancelled /\ worker \in {"gone", "off"}
    /\ process' = "exited"
    /\ flags' = flags \ {"worker"}
    /\ UNCHANGED <<settings, restarts, loopVars, taskVars, probe>>

\* The process dies: a server fails, or it is killed.
Die ==
    /\ process \in {"starting", "serving", "stopping"}
    /\ process' = "exited"
    /\ UNCHANGED <<settings, restarts, loopVars, taskVars, flags, probe>>

\* The next process has the database and the environment, nothing else; the
\* tasks that were being worked on become due again when their leases run out.
Restart ==
    /\ process = "exited" /\ restarts < MaxRestarts
    /\ restarts' = restarts + 1
    /\ process' = "booting"
    /\ worker' = "off" /\ cancelled' = FALSE /\ scanning' = {} /\ scanned' = FALSE
    /\ due' = due \cup scanning
    /\ notify' = {} /\ wake' = FALSE /\ told' = {}
    /\ flags' = {} /\ probe' = "none"
    /\ UNCHANGED <<settings, scanErrors>>
-----------------------------------------------------------------------------
Alive == process \in {"starting", "serving", "stopping"}

\* A handler commits a task; then it audits and notifies, or breaks off.
CommitTask(t) ==
    /\ Alive
    /\ t \notin due \cup scanning \cup notify
    /\ due' = due \cup {t}
    /\ notify' = notify \cup {t}
    /\ UNCHANGED <<procVars, loopVars, wake, told, flags, probe>>
\* Mutant of Notify: only a loop that is waiting is woken up.
NotifyWaiting(t) ==
    /\ Alive
    /\ t \in notify
    /\ wake' = (wake \/ worker = "select")
    /\ notify' = notify \ {t}
    /\ told' = told \cup ({t} \cap due)
    /\ UNCHANGED <<procVars, loopVars, due, flags, probe>>

Notify(t) ==
    /\ Alive
    /\ t \in notify
    /\ wake' = TRUE
    /\ notify' = notify \ {t}
    /\ told' = told \cup ({t} \cap due)
    /\ UNCHANGED <<procVars, loopVars, due, flags, probe>>

NotifySkipped(t) ==
    /\ Alive
    /\ t \in notify
    /\ notify' = notify \ {t}
    /\ UNCHANGED <<procVars, loopVars, due, wake, told, flags, probe>>

\* Run: list the due tasks, process them, report health, wait.
ListTasks ==
    /\ Alive
    /\ worker = "list" /\ ~cancelled
    /\ scanning' = due
    /\ due' = {} /\ told' = {}
    /\ worker' = "work"
    /\ UNCHANGED <<procVars, cancelled, scanErrors, scanned, notify, wake, flags, probe>>

\* Mutant of ListTasksFails: a cancelled context is like any other error.
ListTasksFailsOnward ==
    /\ Alive
    /\ worker = "list"
    /\ cancelled \/ scanErrors < MaxScanErrors
    /\ scanErrors' = IF cancelled THEN scanErrors ELSE scanErrors + 1
    /\ flags' = flags \ {"worker"}
    /\ worker' = "select"
    /\ told' = {}
    /\ UNCHANGED <<procVars, cancelled, scanning, scanned, due, notify, wake, probe>>

\* A cancelled context fails the query too; then Run returns.
ListTasksFails ==
    /\ Alive
    /\ worker = "list"
    /\ cancelled \/ scanErrors < MaxScanErrors
    /\ scanErrors' = IF cancelled THEN scanErrors ELSE scanErrors + 1
    /\ flags' = flags \ {"worker"}
    /\ worker' = IF cancelled THEN "report" ELSE "select"
    /\ told' = {}
    /\ UNCHANGED <<procVars, cancelled, scanning, scanned, due, notify, wake, probe>>

\* Errors of a task only skip it; the scan has succeeded.  A task may be due again.
Work ==
    /\ Alive
    /\ worker = "work"
    /\ \E again \in SUBSET scanning : due' = due \cup again
    /\ scanning' = {} /\ scanned' = TRUE
    /\ flags' = flags \cup {"worker"}
    /\ worker' = "select"
    /\ UNCHANGED <<procVars, cancelled, scanErrors, notify, wake, told, probe>>
\* Mutant of OnTick: the loop relies on the wake-ups.
OnTickNever == FALSE

\* The cases of the select: the ticker, the wake-up, the cancelled context.
OnTick ==
    /\ Alive
    /\ worker = "select"
    /\ worker' = "list"
    /\ UNCHANGED <<procVars, cancelled, scanning, scanErrors, scanned, taskVars, flags, probe>>

OnWake ==
    /\ Alive
    /\ worker = "select" /\ wake
    /\ wake' = FALSE
    /\ worker' = "list"
    /\ UNCHANGED <<procVars, cancelled, scanning, scanErrors, scanned, due, notify, told, flags, probe>>
OnCancel ==
    /\ Alive
    /\ worker = "select" /\ cancelled
    /\ worker' = "report"
    /\ UNCHANGED <<procVars, cancelled, scanning, scanErrors, scanned, taskVars, flags, probe>>

\* The deferred report, the report of the supervisor, close(done).
Leave ==
    /\ Alive
    /\ worker = "report"
    /\ flags' = flags \ {"worker"}
    /\ worker' = "gone"
    /\ UNCHANGED <<procVars, cancelled, scanning, scanErrors, scanned, taskVars, probe>>
-----------------------------------------------------------------------------
\* readyz loads the flags one after the other.
ProbeReady ==
    /\ Alive
    /\ probe \in {"none", "ready", "notReady"}
    /\ probe' = IF "ready" \in flags THEN "loaded" ELSE "notReady"
    /\ UNCHANGED <<procVars, loopVars, taskVars, flags>>

ProbeDependencies ==
    /\ Alive
    /\ probe = "loaded"
    /\ probe' = IF {"postgres", "storage", "worker"} \subseteq flags THEN "ready" ELSE "notReady"
    /\ UNCHANGED <<procVars, loopVars, taskVars, flags>>

Lifecycle == Boot \/ StartWorker \/ Started \/ BeginStop \/ CancelWorker \/ EndStop \/ Die \/ Restart
Loop == ListTasks \/ ListTasksFails \/ Work \/ OnTick \/ OnWake \/ OnCancel \/ Leave

RuntimeNext ==
    \/ Lifecycle
    \/ Loop
    \/ \E t \in DueTasks : CommitTask(t) \/ Notify(t) \/ NotifySkipped(t)
    \/ ProbeReady \/ ProbeDependencies

RuntimeFairness ==
    /\ WF_runtimeVars(StartWorker) /\ WF_runtimeVars(Started)
    /\ WF_runtimeVars(CancelWorker) /\ WF_runtimeVars(EndStop)
    /\ WF_runtimeVars(Loop)

RuntimeSpec == RuntimeInit /\ [][RuntimeNext]_runtimeVars /\ RuntimeFairness
-----------------------------------------------------------------------------
RuntimeTypeOK ==
    /\ settings \subseteq Settings
    /\ process \in {"booting", "starting", "serving", "stopping", "exited"}
    /\ worker \in WorkerPlaces
    /\ cancelled \in BOOLEAN /\ wake \in BOOLEAN /\ scanned \in BOOLEAN
    /\ due \subseteq DueTasks /\ notify \subseteq DueTasks
    /\ scanning \subseteq DueTasks /\ told \subseteq DueTasks
    /\ scanErrors \in 0 .. MaxScanErrors /\ restarts \in 0 .. MaxRestarts
    /\ flags \subseteq {"ready", "postgres", "storage", "worker"}
    /\ probe \in {"none", "loaded", "ready", "notReady"}

\* The wake-up of a task committed while a scan is under way is not lost: until a
\* scan has begun after it, a scan is at hand or the wake-up waits in the channel,
\* also before the loop has been started (import_worker.go:98-116).
NoLostWakeup ==
    Alive /\ told # {} => wake \/ worker \in {"list", "report", "gone"}

\* readyz answers ready only in a process with the database, one kind of storage,
\* a worker, and a scan that has succeeded in this process.  The flag of the worker
\* is set only while its loop is there, and the one of the process only while it is
\* neither starting nor stopping, although Start, the loop, its deferred report and
\* Stop write them (worker_supervisor.go:39-83, readiness.go:19-28, app.go:69-84).
ReadyBacked ==
    /\ probe = "ready" =>
          /\ scanned /\ worker # "off"
          /\ "dsn" \in settings
          /\ ("minio" \in settings) # ("grpc" \in settings)
    /\ Alive /\ "worker" \in flags => scanned /\ worker \in {"list", "work", "select", "report"}
    /\ Alive /\ "ready" \in flags => process = "serving"

\* A committed task is listed although its call broke off before Notify, the
\* process died or scans failed, unless the process ends (import_worker.go:143-148).
TasksListed ==
    \A t \in DueTasks : t \in due ~> (t \notin due \/ process \notin {"starting", "serving"})

\* Stopping comes to an end wherever the cancellation meets the loop; Stop waits
\* for the loop without a deadline (worker_supervisor.go:70-85).
StopEnds == process = "stopping" ~> process = "exited"
=============================================================================
