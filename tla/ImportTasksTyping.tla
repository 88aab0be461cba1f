-------------------------- MODULE ImportTasksTyping --------------------------
(***************************************************************************)
(* Type correctness of ImportTasks, for every set of tasks, workers,       *)
(* owners, versions and contents and every value of the numeric constants, *)
(* and the lemmas about rows and worker memories it rests on.              *)
(***************************************************************************)
EXTENDS ImportTasks, TLAPS

\* A claim and a tick of the clock compute two fields of the row; the provers
\* see the resulting fields through these two lemmas.
LEMMA ClaimFields ==
    ASSUME NEW r \in Row, NEW o \in Owners
    PROVE  /\ ClaimRow(r, o) \in Row
           /\ ClaimRow(r, o).status = "importing"
           /\ ClaimRow(r, o).owner = o
           /\ ClaimRow(r, o).epoch = r.epoch + 1
           /\ ClaimRow(r, o).attempt = r.attempt + 1
           /\ ClaimRow(r, o).version = r.version
           /\ ClaimRow(r, o).lease > 0
<1> DEFINE Claimed(e, a) == [r EXCEPT !.status = "importing", !.owner = o,
                                      !.epoch = e, !.lease = Lease, !.attempt = a]
<1>1. ASSUME NEW e \in Nat, NEW a \in Nat
      PROVE  /\ Claimed(e, a) \in Row
             /\ Claimed(e, a).status = "importing"
             /\ Claimed(e, a).owner = o
             /\ Claimed(e, a).epoch = e
             /\ Claimed(e, a).attempt = a
             /\ Claimed(e, a).version = r.version
             /\ Claimed(e, a).lease = Lease
  BY TaskRowAssumption DEF Row, TaskStatus
<1>2. r.epoch + 1 \in Nat /\ r.attempt + 1 \in Nat
  BY DEF Row
<1>3. ClaimRow(r, o) = Claimed(r.epoch + 1, r.attempt + 1)
  BY Zenon DEF ClaimRow
<1> HIDE DEF Claimed
<1>4. QED
  BY <1>1, <1>2, <1>3, TaskRowAssumption

LEMMA ElapseFields ==
    ASSUME NEW r \in Row
    PROVE  /\ Elapse(r) \in Row
           /\ Elapse(r).status = r.status
           /\ Elapse(r).owner = r.owner
           /\ Elapse(r).epoch = r.epoch
           /\ Elapse(r).attempt = r.attempt
           /\ Elapse(r).version = r.version
           /\ Elapse(r).lease > 0 => r.lease > 0
<1> DEFINE Counted(l, n) == [r EXCEPT !.lease = l, !.wait = n]
<1>1. ASSUME NEW l \in Nat, NEW n \in Nat
      PROVE  /\ Counted(l, n) \in Row
             /\ Counted(l, n).status = r.status
             /\ Counted(l, n).owner = r.owner
             /\ Counted(l, n).epoch = r.epoch
             /\ Counted(l, n).attempt = r.attempt
             /\ Counted(l, n).version = r.version
             /\ Counted(l, n).lease = l
  BY DEF Row
<1>2. /\ CountDown(r.lease) \in Nat /\ CountDown(r.wait) \in Nat
      /\ CountDown(r.lease) > 0 => r.lease > 0
  BY DEF Row, CountDown
<1>3. Elapse(r) = Counted(CountDown(r.lease), CountDown(r.wait))
  BY Zenon DEF Elapse
<1> HIDE DEF Counted
<1>4. QED
  BY <1>1, <1>2, <1>3

\* Every statement on the task row yields a task row.
LEMMA RowOperations ==
    ASSUME NEW r \in Row, NEW v \in Versions \cup {NoVersion}
    PROVE  /\ NoRow \in Row
           /\ NewRow(v) \in Row
           /\ RenewRow(r) \in Row
           /\ BindRow(r, v) \in Row
           /\ CompleteRow(r) \in Row
           /\ RetryRow(r) \in Row
           /\ FailRow(r) \in Row
           /\ RetryFailedRow(r) \in Row
           /\ Elapse(r) \in Row
<1> USE TaskRowAssumption DEF Row, TaskStatus
<1>1. NoRow \in Row /\ NewRow(v) \in Row
  BY DEF NewRow, NoRow
<1>2. RenewRow(r) \in Row /\ BindRow(r, v) \in Row
  BY DEF RenewRow, BindRow
<1>3. CompleteRow(r) \in Row /\ FailRow(r) \in Row
  BY DEF CompleteRow, FailRow
<1>4. RetryRow(r) \in Row /\ RetryFailedRow(r) \in Row
  BY DEF RetryRow, RetryFailedRow
<1>5. QED
  BY <1>1, <1>2, <1>3, <1>4, ElapseFields, Zenon

-----------------------------------------------------------------------------
\* Type correctness.

\* What becomes of a worker's memory keeps its type, and its task while busy.
LEMMA IdleWorker ==
    \A pc \in {"idle", "down"} :
        At(pc) \in Worker /\ At(pc).pc \notin Busy /\ At(pc).pc = pc
BY DEF At, Worker, Busy, Executing

LEMMA ClaimingWorker ==
    ASSUME TypeOK, NEW t \in Tasks
    PROVE  ClaimOf(t) \in Worker /\ ClaimOf(t).task = t
<1>1. row[t] \in Row
  BY DEF TypeOK
<1>2. row[t].epoch + 1 \in Nat /\ row[t].attempt + 1 \in Nat
  BY <1>1 DEF Row
<1>3. QED
  BY <1>1, <1>2 DEF Row, ClaimOf, Worker, Busy, Executing

LEMMA FailedWorker ==
    ASSUME NEW r \in Worker
    PROVE  /\ AfterError(r) \in Worker
           /\ AfterError(r).pc \in {"retry", "markError", "fail"}
           /\ AfterError(r).task = r.task
           /\ AfterError(r).epoch = r.epoch
           /\ AfterError(r).attempt = r.attempt
           /\ AfterError(r).version = r.version
           /\ AfterError(r).pc = "retry" <=> r.attempt < MaxAttempts
           /\ AfterError(r).pc = "markError" => r.version # NoVersion
BY DEF AfterError, Worker, Busy, Executing

\* The fields that a step on the way to success leaves alone.
SameClaim(r, s) ==
    s.task = r.task /\ s.epoch = r.epoch /\ s.attempt = r.attempt

LEMMA MovedWorker ==
    ASSUME NEW r \in Worker, NEW pc \in Busy
    PROVE  /\ Moved(r, pc) \in Worker
           /\ Moved(r, pc).pc = pc
           /\ SameClaim(r, Moved(r, pc))
           /\ Moved(r, pc).version = r.version
<1>1. Moved(r, pc) \in Worker
  BY DEF Moved, Worker, Busy, Executing
<1>2. QED
  BY <1>1 DEF Moved, SameClaim, Worker

LEMMA ResolvedWorker ==
    ASSUME NEW r \in Worker, NEW v \in Versions
    PROVE  /\ Resolved(r, v) \in Worker
           /\ Resolved(r, v).pc = "bind"
           /\ SameClaim(r, Resolved(r, v))
           /\ Resolved(r, v).version = r.version
           /\ Resolved(r, v).found = v
<1>1. Resolved(r, v) \in Worker
  BY DEF Resolved, Worker, Busy, Executing
<1>2. QED
  BY <1>1 DEF Resolved, SameClaim, Worker

LEMMA BoundWorker ==
    ASSUME NEW r \in Worker, NEW v \in Versions \cup {NoVersion}
    PROVE  /\ BoundTo(r, v) \in Worker
           /\ BoundTo(r, v).pc = "execute"
           /\ SameClaim(r, BoundTo(r, v))
           /\ BoundTo(r, v).version = v
<1>1. BoundTo(r, v) \in Worker
  BY DEF BoundTo, Worker, Busy, Executing
<1>2. QED
  BY <1>1 DEF BoundTo, SameClaim, Worker

LEMMA RecordedWorker ==
    ASSUME NEW r \in Worker, NEW c \in Contents
    PROVE  /\ Recorded(r, c) \in Worker
           /\ Recorded(r, c).pc = "checksum"
           /\ SameClaim(r, Recorded(r, c))
           /\ Recorded(r, c).version = r.version
<1>1. Recorded(r, c) \in Worker
  BY DEF Recorded, Worker, Busy, Executing
<1>2. QED
  BY <1>1 DEF Recorded, SameClaim, Worker

LEMMA ExecutedWorker ==
    ASSUME NEW r \in Worker
    PROVE  /\ Executed(r) \in Worker
           /\ Executed(r).pc = "markReady"
           /\ SameClaim(r, Executed(r))
           /\ Executed(r).version = r.version
<1>1. Executed(r) \in Worker
  BY DEF Executed, Worker, Busy, Executing
<1>2. QED
  BY <1>1 DEF Executed, SameClaim, Worker

LEMMA CancelledWorker ==
    ASSUME NEW r \in Worker
    PROVE  /\ Cancelled(r) \in Worker
           /\ Cancelled(r).pc = r.pc
           /\ SameClaim(r, Cancelled(r))
           /\ Cancelled(r).version = r.version
<1>1. Cancelled(r) \in Worker
  BY DEF Cancelled, Worker, Busy, Executing
<1>2. QED
  BY <1>1 DEF Cancelled, SameClaim, Worker

\* A step that only moves worker w keeps the other workers as they are.
LEMMA GotoTyped ==
    ASSUME TypeOK, NEW w \in Workers, NEW r \in Worker, Goto(w, r),
           r.pc \in Busy => r.task \in Tasks
    PROVE  /\ wk' \in [Workers -> Worker]
           /\ \A u \in Workers : wk'[u].pc \in Busy => wk'[u].task \in Tasks
BY DEF TypeOK, Goto

\* The types of the variables are invariant under every step.
LEMMA TypePreserved == TypeOK /\ [Next]_vars => TypeOK'
<1> SUFFICES ASSUME TypeOK, [Next]_vars PROVE TypeOK'
  OBVIOUS
<1> USE DEF TypeOK
<1>1. \A t \in Tasks : row[t] \in Row
  OBVIOUS
<1>2. ASSUME NEW t \in Tasks, NEW v \in Versions \cup {NoVersion}, Create(t, v) PROVE TypeOK'
  <2>1. NewRow(v) \in Row
    BY <1>1, RowOperations
  <2>2. QED
    BY <1>2, <2>1 DEF Create
<1>3. ASSUME NEW t \in Tasks, RetryFailed(t) PROVE TypeOK'
  <2>1. RetryFailedRow(row[t]) \in Row
    BY <1>1, RowOperations
  <2>2. QED
    BY <1>3, <2>1 DEF RetryFailed, Version, VersionStatus
<1>4. ASSUME NEW v \in Versions, DeleteVersion(v) PROVE TypeOK'
  BY <1>4 DEF DeleteVersion, Version, VersionStatus
<1>5. ASSUME NEW v \in Versions, DeleteModel(v) PROVE TypeOK'
  BY <1>5 DEF DeleteModel, Version
<1>6. ASSUME Tick \/ LateTick PROVE TypeOK'
  <2>1. \A t \in Tasks : Elapse(row[t]) \in Row
    BY <1>1, ElapseFields
  <2>2. QED
    BY <1>6, <2>1, ImportTasksAssumption DEF Tick, LateTick, Elapsed, Fault
<1>7. ASSUME NEW w \in Workers, ListDue(w) PROVE TypeOK'
  BY <1>7 DEF ListDue, DueTasks
<1>8. ASSUME NEW w \in Workers, NEW t \in Tasks, Claim(w, t) \/ ClaimReplyLost(w, t) PROVE TypeOK'
  <2>1. ClaimRow(row[t], OwnerOf[w]) \in Row
    BY <1>1, ClaimFields, ImportTasksAssumption
  <2>2. CASE Claim(w, t)
    BY <2>1, <2>2, ClaimingWorker, GotoTyped DEF Claim
  <2>3. CASE ClaimReplyLost(w, t)
    BY <2>1, <2>3, ImportTasksAssumption DEF ClaimReplyLost, Fault
  <2>4. QED
    BY <1>8, <2>2, <2>3
<1> DEFINE WorkersTyped ==
       /\ wk' \in [Workers -> Worker]
       /\ \A u \in Workers : wk'[u].pc \in Busy => wk'[u].task \in Tasks
<1>9. \A w \in Workers : Goto(w, At("idle")) \/ Goto(w, At("down")) => WorkersTyped
  BY IdleWorker, GotoTyped
<1>10. \A w \in Workers : wk[w].pc \in Busy /\ Goto(w, AfterError(wk[w])) => WorkersTyped
  BY FailedWorker, GotoTyped
<1>11. ASSUME NEW w \in Workers, wk[w].pc \in Busy
      PROVE  /\ \A pc \in Busy : Goto(w, Moved(wk[w], pc)) => WorkersTyped
             /\ \A v \in Versions : Goto(w, Resolved(wk[w], v)) => WorkersTyped
             /\ \A v \in Versions \cup {NoVersion} :
                   Goto(w, BoundTo(wk[w], v)) => WorkersTyped
             /\ \A c \in Contents : Goto(w, Recorded(wk[w], c)) => WorkersTyped
             /\ Goto(w, Executed(wk[w])) => WorkersTyped
             /\ Goto(w, Cancelled(wk[w])) => WorkersTyped
  <2>1. wk[w] \in Worker /\ wk[w].task \in Tasks
    BY <1>11
  <2>2. \A r \in Worker : SameClaim(wk[w], r) /\ Goto(w, r) => WorkersTyped
    BY <2>1, GotoTyped DEF SameClaim
  <2> HIDE DEF WorkersTyped, TypeOK
  <2>3. \A pc \in Busy : Goto(w, Moved(wk[w], pc)) => WorkersTyped
    BY <2>1, <2>2, MovedWorker
  <2>4. \A v \in Versions : Goto(w, Resolved(wk[w], v)) => WorkersTyped
    BY <2>1, <2>2, ResolvedWorker
  <2>5. \A v \in Versions \cup {NoVersion} : Goto(w, BoundTo(wk[w], v)) => WorkersTyped
    BY <2>1, <2>2, BoundWorker
  <2>6. \A c \in Contents : Goto(w, Recorded(wk[w], c)) => WorkersTyped
    BY <2>1, <2>2, RecordedWorker
  <2>7. Goto(w, Executed(wk[w])) => WorkersTyped
    BY <2>1, <2>2, ExecutedWorker
  <2>8. Goto(w, Cancelled(wk[w])) => WorkersTyped
    BY <2>1, <2>2, CancelledWorker
  <2>9. QED
    BY <2>3, <2>4, <2>5, <2>6, <2>7, <2>8
<1> HIDE DEF WorkersTyped
<1>12. ASSUME NEW w \in Workers, Bind(w) \/ BindReplyLost(w) PROVE TypeOK'
  <2>1. wk[w].found \in Versions \cup {NoVersion} /\ wk[w].pc \in Busy
    BY <1>12 DEF Bind, BindReplyLost, Worker, Busy
  <2>2. row[wk[w].task] \in Row => BindRow(row[wk[w].task], wk[w].found) \in Row
    BY <2>1, RowOperations
  <2>3. WorkersTyped
    BY <1>10, <1>11, <1>12, <2>1 DEF Bind, BindReplyLost
  <2>4. QED
    BY <1>12, <2>2, <2>3, ImportTasksAssumption
    DEF Bind, BindReplyLost, BecomesBound, Fault, WorkersTyped
<1>13. ASSUME NEW w \in Workers, Renew(w) PROVE TypeOK'
  <2>1. row[wk[w].task] \in Row => RenewRow(row[wk[w].task]) \in Row
    BY RowOperations
  <2>2. WorkersTyped
    BY <1>11, <1>13 DEF Renew, Busy, WorkersTyped
  <2>3. QED
    BY <1>13, <2>1, <2>2 DEF Renew, WorkersTyped
<1>14. ASSUME NEW w \in Workers,
              (\E v \in Versions : ResolveBinding(w, v))
              \/ ResolveFails(w) \/ ExecuteFails(w) \/ RenewFails(w)
       PROVE  TypeOK'
  <2>1. WorkersTyped
    BY <1>10, <1>11, <1>14 DEF ResolveBinding, ResolveFails, ExecuteFails, RenewFails, Busy
  <2>2. QED
    BY <1>14, <2>1, ImportTasksAssumption
    DEF ResolveBinding, ResolveFails, ExecuteFails, RenewFails, Fault, WorkersTyped
<1>15. ASSUME NEW w \in Workers, NEW c \in Contents, PersistArtifact(w, c) PROVE TypeOK'
  <2>1. WorkersTyped
    BY <1>10, <1>11, <1>15 DEF PersistArtifact, Busy, Executing
  <2>2. wk[w].task \in Tasks
    BY <1>15 DEF PersistArtifact, Busy, Executing
  <2>3. QED
    BY <1>15, <2>1, <2>2 DEF PersistArtifact, Version, Artifact, WorkersTyped
<1>16. ASSUME NEW w \in Workers, NEW spurious \in BOOLEAN, SetChecksum(w, spurious) PROVE TypeOK'
  <2>1. WorkersTyped
    BY <1>10, <1>11, <1>16 DEF SetChecksum, Busy, Executing
  <2>2. wk[w].content \in Contents \cup {NoContent}
    BY DEF Worker
  <2>3. QED
    BY <1>16, <2>1, <2>2 DEF SetChecksum, Version, WorkersTyped
<1>17. ASSUME NEW w \in Workers, MarkReady(w) \/ MarkReadyReplyLost(w) PROVE TypeOK'
  <2>1. WorkersTyped
    BY <1>10, <1>11, <1>17 DEF MarkReady, MarkReadyReplyLost, Busy
  <2>2. QED
    BY <1>17, <2>1, ImportTasksAssumption
    DEF MarkReady, MarkReadyReplyLost, BecomesReady, Version, VersionStatus,
        Fault, WorkersTyped
<1>18. ASSUME NEW w \in Workers, Complete(w) \/ Retry(w) \/ Fail(w) PROVE TypeOK'
  <2>1. row[wk[w].task] \in Row => /\ CompleteRow(row[wk[w].task]) \in Row
                                   /\ RetryRow(row[wk[w].task]) \in Row
                                   /\ FailRow(row[wk[w].task]) \in Row
    BY RowOperations
  <2>2. WorkersTyped
    BY <1>9, <1>18 DEF Complete, Retry, Fail, Settle
  <2>3. QED
    BY <1>18, <2>1, <2>2 DEF Complete, Retry, Fail, Settle, WorkersTyped
<1>19. ASSUME NEW w \in Workers, MarkErrorAndMaybeModel(w) PROVE TypeOK'
  <2>1. WorkersTyped
    BY <1>11, <1>19 DEF MarkErrorAndMaybeModel, Busy
  <2>2. QED
    BY <1>19, <2>1 DEF MarkErrorAndMaybeModel, Version, VersionStatus, WorkersTyped
<1>20. ASSUME NEW w \in Workers, CallFails(w) \/ Crash(w) \/ Restart(w) PROVE TypeOK'
  <2>1. WorkersTyped
    BY <1>9, <1>10, <1>11, <1>20 DEF CallFails, Crash, Restart, Busy
  <2>2. QED
    BY <1>20, <2>1, ImportTasksAssumption
    DEF CallFails, Crash, Restart, Fault, WorkersTyped
<1>21. CASE UNCHANGED vars
  BY <1>21 DEF vars
<1>22. QED
  BY <1>2, <1>3, <1>4, <1>5, <1>6, <1>7, <1>8, <1>12, <1>13, <1>14, <1>15,
     <1>16, <1>17, <1>18, <1>19, <1>20, <1>21
     DEF Next, User, Step, Mishap

LEMMA InitTyped == Init => TypeOK
<1> SUFFICES ASSUME Init PROVE TypeOK
  OBVIOUS
<1>1. NoRow \in Row
  BY TaskRowAssumption DEF NoRow, Row, TaskStatus
<1>2. ver \in [Versions -> Version]
  BY DEF Init, Version, VersionStatus
<1>3. QED
  BY <1>1, <1>2, IdleWorker DEF Init, TypeOK

\* Every variable of the import tasks keeps its type, and a busy worker always
\* has a task, in every reachable state.
THEOREM TypeCorrect == Spec => []TypeOK
BY InitTyped, TypePreserved, PTL DEF Spec
=============================================================================
