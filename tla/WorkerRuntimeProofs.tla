------------------------- MODULE WorkerRuntimeProofs -------------------------
(***************************************************************************)
(* Proofs about WorkerRuntime for any set of tasks and any number of       *)
(* failing scans and restarts.                                             *)
(***************************************************************************)
EXTENDS WorkerRuntime, TLAPS

\* A process that lives, or has answered a probe, was configured for one kind of
\* storage; one that has not booted remembers nothing.
Configured ==
    /\ Alive \/ probe # "none" => Complete(settings) /\ Accepted(settings)
    /\ process = "booting" => told = {} /\ probe = "none"

RuntimeInv == RuntimeTypeOK /\ Configured /\ NoLostWakeup /\ ReadyBacked

LEMMA RuntimeStarts == RuntimeInit => RuntimeInv
<1> SUFFICES ASSUME RuntimeInit PROVE RuntimeInv
  OBVIOUS
<1>1. RuntimeTypeOK
  <2>1. 0 \in 0 .. MaxScanErrors /\ 0 \in 0 .. MaxRestarts
    BY WorkerRuntimeAssumption
  <2>2. settings \subseteq Settings
    BY DEF RuntimeInit
  <2> QED
    BY <2>1, <2>2 DEF RuntimeInit, RuntimeTypeOK, WorkerPlaces
<1>2. Configured /\ NoLostWakeup /\ ReadyBacked
  BY DEF RuntimeInit, Configured, NoLostWakeup, ReadyBacked, Alive
<1> QED
  BY <1>1, <1>2 DEF RuntimeInv

-----------------------------------------------------------------------------
\* Types: one lemma for the life of the process, one for the loop and its tasks.
LEMMA LifecycleTypes == RuntimeTypeOK /\ Lifecycle => RuntimeTypeOK'
<1> SUFFICES ASSUME RuntimeTypeOK, Lifecycle PROVE RuntimeTypeOK'
  OBVIOUS
<1> USE WorkerRuntimeAssumption DEF RuntimeTypeOK, WorkerPlaces, procVars, loopVars, taskVars
<1>1. CASE Boot
  BY <1>1 DEF Boot
<1>2. CASE StartWorker \/ Started
  BY <1>2 DEF StartWorker, Started
<1>3. CASE BeginStop \/ CancelWorker \/ EndStop
  BY <1>3 DEF BeginStop, CancelWorker, EndStop
<1>4. CASE Die
  BY <1>4 DEF Die
<1>5. CASE Restart
  <2>1. restarts' \in 0 .. MaxRestarts
    BY <1>5 DEF Restart
  <2>2. due' \subseteq DueTasks /\ flags' = {} /\ notify' = {} /\ scanning' = {} /\ told' = {}
    BY <1>5 DEF Restart
  <2> QED
    BY <1>5, <2>1, <2>2 DEF Restart
<1> QED
  BY <1>1, <1>2, <1>3, <1>4, <1>5 DEF Lifecycle

LEMMA LoopTypes == RuntimeTypeOK /\ Loop => RuntimeTypeOK'
<1> SUFFICES ASSUME RuntimeTypeOK, Loop PROVE RuntimeTypeOK'
  OBVIOUS
<1> USE WorkerRuntimeAssumption DEF RuntimeTypeOK, WorkerPlaces, procVars, loopVars, taskVars
<1>1. CASE ListTasks
  BY <1>1 DEF ListTasks
<1>2. CASE ListTasksFails
  BY <1>2 DEF ListTasksFails
<1>3. CASE Work
  BY <1>3 DEF Work
<1>4. CASE OnTick \/ OnWake \/ OnCancel \/ Leave
  BY <1>4 DEF OnTick, OnWake, OnCancel, Leave
<1> QED
  BY <1>1, <1>2, <1>3, <1>4 DEF Loop

LEMMA CallTypes ==
    ASSUME RuntimeTypeOK,
           \/ \E t \in DueTasks : CommitTask(t) \/ Notify(t) \/ NotifySkipped(t)
           \/ ProbeReady \/ ProbeDependencies
    PROVE  RuntimeTypeOK'
<1> USE DEF RuntimeTypeOK, procVars, loopVars, taskVars
<1>1. ASSUME NEW t \in DueTasks, CommitTask(t) PROVE RuntimeTypeOK'
  BY <1>1 DEF CommitTask
<1>2. ASSUME NEW t \in DueTasks, Notify(t) PROVE RuntimeTypeOK'
  BY <1>2 DEF Notify
<1>3. ASSUME NEW t \in DueTasks, NotifySkipped(t) PROVE RuntimeTypeOK'
  BY <1>3 DEF NotifySkipped
<1>4. CASE ProbeReady \/ ProbeDependencies
  BY <1>4 DEF ProbeReady, ProbeDependencies
<1> QED
  BY <1>1, <1>2, <1>3, <1>4

-----------------------------------------------------------------------------
LEMMA LifecycleKeeps == RuntimeInv /\ Lifecycle => RuntimeInv'
<1> SUFFICES ASSUME RuntimeInv, Lifecycle PROVE RuntimeInv'
  OBVIOUS
<1>1. RuntimeTypeOK'
  BY LifecycleTypes DEF RuntimeInv
<1>2. Configured'
  BY DEF Lifecycle, Boot, StartWorker, Started, BeginStop, CancelWorker, EndStop, Die, Restart,
         RuntimeInv, Configured, Alive, procVars, taskVars, Complete, Accepted
<1>3. NoLostWakeup'
  BY DEF Lifecycle, Boot, StartWorker, Started, BeginStop, CancelWorker, EndStop, Die, Restart,
         RuntimeInv, Configured, NoLostWakeup, Alive, procVars, taskVars, loopVars
<1>4. ReadyBacked'
  BY DEF Lifecycle, Boot, StartWorker, Started, BeginStop, CancelWorker, EndStop, Die, Restart,
         RuntimeInv, Configured, ReadyBacked, Alive, procVars, taskVars, loopVars
<1> QED
  BY <1>1, <1>2, <1>3, <1>4 DEF RuntimeInv

LEMMA LoopKeeps == RuntimeInv /\ Loop => RuntimeInv'
<1> SUFFICES ASSUME RuntimeInv, Loop PROVE RuntimeInv'
  OBVIOUS
<1>1. RuntimeTypeOK'
  BY LoopTypes DEF RuntimeInv
<1>2. Configured'
  BY DEF Loop, ListTasks, ListTasksFails, Work, OnTick, OnWake, OnCancel, Leave,
         RuntimeInv, Configured, Alive, procVars, taskVars, Complete, Accepted
<1>3. NoLostWakeup'
  BY DEF Loop, ListTasks, ListTasksFails, Work, OnTick, OnWake, OnCancel, Leave,
         RuntimeInv, NoLostWakeup, Alive, procVars, taskVars
<1>4. ReadyBacked'
  BY DEF Loop, ListTasks, ListTasksFails, Work, OnTick, OnWake, OnCancel, Leave,
         RuntimeInv, ReadyBacked, Alive, procVars, taskVars
<1> QED
  BY <1>1, <1>2, <1>3, <1>4 DEF RuntimeInv

\* A wake-up that is sent is in the channel: no step of a handler or of a probe
\* takes it out.
LEMMA CallKeeps ==
    ASSUME RuntimeInv,
           \/ \E t \in DueTasks : CommitTask(t) \/ Notify(t) \/ NotifySkipped(t)
           \/ ProbeReady \/ ProbeDependencies
    PROVE  RuntimeInv'
<1>1. RuntimeTypeOK'
  BY CallTypes DEF RuntimeInv
<1>2. CASE \E t \in DueTasks : CommitTask(t) \/ Notify(t) \/ NotifySkipped(t)
  BY <1>1, <1>2 DEF CommitTask, Notify, NotifySkipped, RuntimeInv, Configured, NoLostWakeup,
                    ReadyBacked, Alive, procVars, taskVars, loopVars, Complete, Accepted
<1>3. CASE ProbeReady \/ ProbeDependencies
  BY <1>1, <1>3 DEF ProbeReady, ProbeDependencies, RuntimeInv, Configured, NoLostWakeup,
                    ReadyBacked, Alive, procVars, taskVars, loopVars, Complete, Accepted
<1> QED
  BY <1>2, <1>3

LEMMA StutterKeeps == RuntimeInv /\ UNCHANGED runtimeVars => RuntimeInv'
  BY DEF RuntimeInv, RuntimeTypeOK, Configured, NoLostWakeup, ReadyBacked, Alive, WorkerPlaces,
         runtimeVars, procVars, loopVars, taskVars, Complete, Accepted

THEOREM RuntimeInvariance == RuntimeSpec => []RuntimeInv
<1>1. RuntimeInv /\ [RuntimeNext]_runtimeVars => RuntimeInv'
  BY LifecycleKeeps, LoopKeeps, CallKeeps, StutterKeeps DEF RuntimeNext
<1> QED
  BY <1>1, RuntimeStarts, PTL DEF RuntimeSpec

\* A wake-up is dropped only when one is waiting, and a scan follows every one
\* (import_worker.go:98-116).
THEOREM WakeupsAreKept == RuntimeSpec => []NoLostWakeup
<1>1. RuntimeInv => NoLostWakeup
  BY DEF RuntimeInv
<1> QED
  BY <1>1, RuntimeInvariance, PTL

\* Readiness is backed by a configured process, its worker and a scan that has
\* succeeded, whoever writes the flags (worker_supervisor.go:39-83).
THEOREM ReadinessIsBacked == RuntimeSpec => []ReadyBacked
<1>1. RuntimeInv => ReadyBacked
  BY DEF RuntimeInv
<1> QED
  BY <1>1, RuntimeInvariance, PTL
=============================================================================
