-------------------------- MODULE ImportTasksProofs --------------------------
(***************************************************************************)
(* The safety properties of ImportTasks, for every value of the constants. *)
(*                                                                         *)
(* Every step of Next is first reduced to what it does to one task row     *)
(* (RowStep), to one version (VersionStep) and to one worker (WorkerStep). *)
(* The parts of the inductive invariant IInv are then preserved by these   *)
(* few kinds of change, and the theorems follow from IInv.                 *)
(***************************************************************************)
EXTENDS ImportTasksTyping

-----------------------------------------------------------------------------
\* What a step does to task t.

Finishing(w, t, pc) == wk[w].pc = pc /\ Holds(w, t)

RowStep(t) ==
    LET r == row[t]
        s == row'[t] IN
    \/ s = r
    \/ s = Elapse(r)
    \/ r.status = "absent" /\ \E v \in Versions \cup {NoVersion} : s = NewRow(v)
    \/ /\ r.status = "failed"
       /\ s = RetryFailedRow(r)
       /\ \A v \in Versions : v = r.version => ver'[v].status # "error"
    \/ Due(r) /\ \E o \in Owners : s = ClaimRow(r, o)
    \/ r.status = "importing" /\ r.lease > 0 /\ s = RenewRow(r)
    \/ /\ r.status = "importing"
       /\ r.lease > 0
       /\ r.version = NoVersion
       /\ \E v \in Versions \cup {NoVersion} : s = BindRow(r, v)
    \/ s = CompleteRow(r) /\ \E w \in Workers : Finishing(w, t, "complete")
    \/ s = RetryRow(r) /\ \E w \in Workers : Finishing(w, t, "retry")
    \/ s = FailRow(r) /\ \E w \in Workers : Finishing(w, t, "fail")

LEMMA RowSteps ==
    ASSUME TypeOK, [Next]_vars, NEW t \in Tasks
    PROVE  RowStep(t)
<1> USE DEF RowStep
<1>1. ASSUME NEW x \in Tasks, NEW v \in Versions \cup {NoVersion}, Create(x, v)
      PROVE  RowStep(t)
  BY <1>1 DEF Create, TypeOK
<1>2. ASSUME NEW x \in Tasks, RetryFailed(x) PROVE RowStep(t)
  <2>1. CASE t = x
    <3>1. row[t].status = "failed" /\ row'[t] = RetryFailedRow(row[t])
      BY <1>2, <2>1 DEF RetryFailed, TypeOK
    <3>2. \A v \in Versions : v = row[t].version => ver'[v].status # "error"
      BY <1>2, <2>1 DEF RetryFailed, TypeOK, Version
    <3>3. QED
      BY <3>1, <3>2
  <2>2. CASE t # x
    BY <1>2, <2>2 DEF RetryFailed, TypeOK
  <2>3. QED
    BY <2>1, <2>2
<1>3. ASSUME NEW v \in Versions, DeleteVersion(v) \/ DeleteModel(v)
      PROVE  RowStep(t)
  BY <1>3 DEF DeleteVersion, DeleteModel
<1>4. ASSUME Tick \/ LateTick PROVE RowStep(t)
  BY <1>4 DEF Tick, LateTick, Elapsed
<1>5. ASSUME NEW w \in Workers, NEW x \in Tasks, Claim(w, x) \/ ClaimReplyLost(w, x)
      PROVE  RowStep(t)
  <2>1. OwnerOf[w] \in Owners
    BY ImportTasksAssumption
  <2>2. QED
    BY <1>5, <2>1 DEF Claim, ClaimReplyLost, TypeOK
<1>6. ASSUME NEW w \in Workers, Bind(w) \/ BindReplyLost(w) PROVE RowStep(t)
  <2>1. wk[w].found \in Versions \cup {NoVersion}
    BY DEF TypeOK, Worker
  <2>2. QED
    BY <1>6, <2>1 DEF Bind, BindReplyLost, BecomesBound, Bindable, Fenced, TypeOK
<1>7. ASSUME NEW w \in Workers, Renew(w) PROVE RowStep(t)
  BY <1>7 DEF Renew, Fenced, TypeOK
<1>8. ASSUME NEW w \in Workers, Complete(w) \/ Retry(w) \/ Fail(w) PROVE RowStep(t)
  BY <1>8 DEF Complete, Retry, Fail, Settle, Finishing, Holds, Busy, TypeOK
<1>9. ASSUME UNCHANGED row PROVE RowStep(t)
  BY <1>9
<1> HIDE DEF RowStep
<1>10. ASSUME NEW w \in Workers, Step(w) \/ Renew(w) \/ Mishap(w) PROVE RowStep(t)
  <2>1. UNCHANGED row \/ Renew(w) \/ Complete(w) \/ Retry(w) \/ Fail(w)
        \/ (\E x \in Tasks : Claim(w, x) \/ ClaimReplyLost(w, x))
        \/ Bind(w) \/ BindReplyLost(w)
    BY <1>10 DEF Step, Mishap, ListDue, ResolveBinding, ResolveFails, ExecuteFails, PersistArtifact,
                 SetChecksum, MarkReady, MarkErrorAndMaybeModel, Restart, RenewFails,
                 MarkReadyReplyLost, CallFails, Crash
  <2>2. QED
    BY <2>1, <1>5, <1>6, <1>7, <1>8, <1>9
<1>11. QED
  BY <1>1, <1>2, <1>3, <1>4, <1>9, <1>10 DEF Next, User, vars
-----------------------------------------------------------------------------
\* What a step does to version v.

VersionStep(v) ==
    LET x == ver[v]
        y == ver'[v] IN
    \/ y = x
    \/ /\ y.artifact = x.artifact
       /\ y.checksum = x.checksum
       /\ \/ y.status \in {x.status, "deleted"}
          \/ x.status = "error" /\ y.status = "pending"
          \/ Readyable(v) /\ y.status = "ready"
          \/ /\ x.status = "pending"
             /\ y.status = "error"
             /\ \E w \in Workers, t \in Tasks :
                   Finishing(w, t, "markError") /\ row[t].version = v /\ row'[t] = row[t]
    \/ /\ y.status = x.status
       /\ y.checksum = x.checksum
       /\ x.artifact \in {NoArtifact, y.artifact}
    \/ /\ y.status = x.status
       /\ y.artifact = x.artifact
       /\ ChecksumSettable(v, y.checksum)

LEMMA VersionSteps ==
    ASSUME TypeOK, [Next]_vars, NEW v \in Versions
    PROVE  VersionStep(v)
<1> USE DEF VersionStep
<1>0. ver \in [Versions -> Version]
  BY DEF TypeOK
<1>1. ASSUME NEW t \in Tasks, RetryFailed(t) PROVE VersionStep(v)
  BY <1>0, <1>1 DEF RetryFailed, Version
<1>2. ASSUME NEW u \in Versions, DeleteVersion(u) \/ DeleteModel(u)
      PROVE  VersionStep(v)
  BY <1>0, <1>2 DEF DeleteVersion, DeleteModel, Version
<1>3. ASSUME NEW w \in Workers, NEW c \in Contents, PersistArtifact(w, c)
      PROVE  VersionStep(v)
  BY <1>0, <1>3 DEF PersistArtifact, Recordable, Version
<1>4. ASSUME NEW w \in Workers, NEW spurious \in BOOLEAN, SetChecksum(w, spurious)
      PROVE  VersionStep(v)
  BY <1>0, <1>4 DEF SetChecksum, Version, ChecksumSettable
<1>5. ASSUME NEW w \in Workers, MarkReady(w) \/ MarkReadyReplyLost(w)
      PROVE  VersionStep(v)
  BY <1>0, <1>5 DEF MarkReady, MarkReadyReplyLost, BecomesReady, Version
<1>6. ASSUME NEW w \in Workers, MarkErrorAndMaybeModel(w) PROVE VersionStep(v)
  <2>1. wk[w].task \in Tasks /\ wk[w].pc \in Busy
    BY <1>6 DEF MarkErrorAndMaybeModel, TypeOK, Busy
  <2>2. QED
    BY <1>0, <1>6, <2>1 DEF MarkErrorAndMaybeModel, Version, Finishing, Holds
<1>7. ASSUME UNCHANGED ver PROVE VersionStep(v)
  BY <1>7
<1> HIDE DEF VersionStep
<1>8. ASSUME NEW w \in Workers, Step(w) \/ Renew(w) \/ Mishap(w) PROVE VersionStep(v)
  <2>1. \/ UNCHANGED ver
        \/ MarkReady(w) \/ MarkReadyReplyLost(w) \/ MarkErrorAndMaybeModel(w)
        \/ \E c \in Contents : PersistArtifact(w, c)
        \/ \E spurious \in BOOLEAN : SetChecksum(w, spurious)
    BY <1>8 DEF Step, Mishap, ListDue, Claim, ClaimReplyLost, ResolveBinding, ResolveFails,
                Bind, BindReplyLost, Renew, RenewFails, ExecuteFails, Complete, Retry, Fail, Settle, Restart,
                CallFails, Crash
  <2>2. QED
    BY <2>1, <1>3, <1>4, <1>5, <1>6, <1>7
<1>9. QED
  BY <1>1, <1>2, <1>7, <1>8 DEF Next, User, Create, Tick, LateTick, vars

-----------------------------------------------------------------------------
\* What a step does to worker w, when it is busy afterwards.

Claims(w) ==
    /\ \E t \in Tasks : /\ Claim(w, t)
                        /\ Due(row[t])
                        /\ row'[t] = ClaimRow(row[t], OwnerOf[w])
                        /\ wk'[w] = ClaimOf(t)
    /\ \A u \in Workers \ {w} : wk'[u] = wk[u]

Advances(w) ==
    LET r == wk[w]
        s == wk'[w] IN
    /\ r.pc \in Busy
    /\ SameClaim(r, s)
    /\ \/ s = AfterError(r)
       \/ /\ r.pc = "resolve"
          /\ s.pc = "bind"
          /\ s.found # NoVersion
          /\ s.version = r.version
       \/ /\ r.pc = "bind"
          /\ s = BoundTo(r, r.found)
          /\ row'[r.task].version = r.found
       \/ /\ r.pc \in Executing
          /\ s.pc \in Executing \cup {"markReady"}
          /\ s.version = r.version
       \/ /\ r.pc = "markReady"
          /\ s.pc = "complete"
          /\ s.version = r.version
          /\ r.version \in Versions => ver'[r.version].status = "ready"
       \/ r.pc = "markError" /\ s.pc = "fail" /\ s.version = r.version

WorkerStep(w) ==
    wk'[w] = wk[w] \/ wk'[w].pc \notin Busy \/ Claims(w) \/ Advances(w)
LEMMA WorkerSteps ==
    ASSUME TypeOK, [Next]_vars, NEW w \in Workers
    PROVE  WorkerStep(w)
<1> USE DEF WorkerStep
<1>1. wk \in [Workers -> Worker] /\ wk[w] \in Worker
  BY DEF TypeOK
<1>2. ASSUME NEW u \in Workers, u # w, NEW r, Goto(u, r) PROVE WorkerStep(w)
  BY <1>1, <1>2 DEF Goto
<1>3. ASSUME UNCHANGED wk PROVE WorkerStep(w)
  BY <1>3
<1>4. ASSUME NEW t \in Tasks, Claim(w, t) PROVE WorkerStep(w)
  BY <1>1, <1>4 DEF Claim, Claims, Goto, TypeOK
<1>5. ASSUME wk[w].pc \in Busy, Goto(w, AfterError(wk[w])) PROVE WorkerStep(w)
  BY <1>1, <1>5, FailedWorker DEF Goto, Advances, SameClaim
<1>6. ASSUME NEW pc \in {"idle", "down"}, Goto(w, At(pc)) PROVE WorkerStep(w)
  BY <1>1, <1>6, IdleWorker DEF Goto
<1>7. ASSUME Bind(w) PROVE WorkerStep(w)
  <2>1. CASE Goto(w, AfterError(wk[w]))
    BY <1>5, <1>7, <2>1 DEF Bind, Busy
  <2>2. CASE Goto(w, BoundTo(wk[w], wk[w].found)) /\ Bindable(w)
    <3>1. /\ wk[w].pc = "bind" /\ wk[w].pc \in Busy /\ wk[w].task \in Tasks
          /\ wk[w].found \in Versions \cup {NoVersion}
      BY <1>1, <1>7 DEF Bind, Busy, TypeOK, Worker
    <3>2. BindRow(row[wk[w].task], wk[w].found).version = wk[w].found
      BY <3>1 DEF BindRow, TypeOK, Row
    <3>3. row'[wk[w].task].version = wk[w].found
      BY <1>7, <2>2, <3>1, <3>2 DEF Bind, BecomesBound, TypeOK
    <3>4. wk'[w] = BoundTo(wk[w], wk[w].found)
      BY <1>1, <2>2 DEF Goto
    <3>5. SameClaim(wk[w], BoundTo(wk[w], wk[w].found))
      BY <1>1, <3>1, BoundWorker
    <3>6. QED
      BY <3>1, <3>3, <3>4, <3>5 DEF Advances
  <2>3. QED
    BY <1>7, <2>1, <2>2 DEF Bind
<1>8. ASSUME wk[w].pc \in Executing, Goto(w, Cancelled(wk[w])) PROVE WorkerStep(w)
  BY <1>1, <1>8, CancelledWorker DEF Goto, Advances, Busy
<1>9. ASSUME NEW c \in Contents, PersistArtifact(w, c) PROVE WorkerStep(w)
  <2>1. wk[w].pc \in Executing /\ wk[w].pc \in Busy
    BY <1>9 DEF PersistArtifact, Executing, Busy
  <2>2. CASE Goto(w, Recorded(wk[w], c))
    <3>1. wk'[w] = Recorded(wk[w], c)
      BY <1>1, <2>2 DEF Goto
    <3>2. "checksum" \in Executing
      BY DEF Executing
    <3>3. /\ SameClaim(wk[w], Recorded(wk[w], c))
          /\ Recorded(wk[w], c).pc = "checksum"
          /\ Recorded(wk[w], c).version = wk[w].version
      BY <1>1, RecordedWorker
    <3>4. QED
      BY <2>1, <3>1, <3>2, <3>3 DEF Advances
  <2>3. QED
    BY <1>5, <1>9, <2>1, <2>2 DEF PersistArtifact
<1>10. ASSUME NEW spurious \in BOOLEAN, SetChecksum(w, spurious) PROVE WorkerStep(w)
  <2>1. wk[w].pc \in Executing /\ wk[w].pc \in Busy
    BY <1>10 DEF SetChecksum, Executing, Busy
  <2>2. CASE Goto(w, Executed(wk[w]))
    BY <1>1, <2>1, <2>2, ExecutedWorker DEF Goto, Advances
  <2>3. QED
    BY <1>5, <1>10, <2>1, <2>2 DEF SetChecksum
<1>11. ASSUME MarkReady(w) PROVE WorkerStep(w)
  <2>1. wk[w].pc = "markReady" /\ wk[w].pc \in Busy /\ "complete" \in Busy
    BY <1>11 DEF MarkReady, Busy
  <2>2. CASE Goto(w, Moved(wk[w], "complete")) /\ ~Goto(w, AfterError(wk[w]))
    <3>1. wk'[w] = Moved(wk[w], "complete")
      BY <1>1, <2>2 DEF Goto
    <3>2. /\ SameClaim(wk[w], Moved(wk[w], "complete"))
          /\ Moved(wk[w], "complete").pc = "complete"
          /\ Moved(wk[w], "complete").version = wk[w].version
      BY <1>1, <2>1, MovedWorker
    <3>3. wk[w].version \in Versions => ver'[wk[w].version].status = "ready"
      BY <1>11, <2>2 DEF MarkReady, BecomesReady, TypeOK, Version
    <3>4. QED
      BY <2>1, <3>1, <3>2, <3>3 DEF Advances
  <2>3. QED
    BY <1>5, <1>11, <2>1, <2>2 DEF MarkReady
<1>12. ASSUME wk[w].pc = "markError", Goto(w, Moved(wk[w], "fail")) PROVE WorkerStep(w)
  <2>1. wk'[w] = Moved(wk[w], "fail")
    BY <1>1, <1>12 DEF Goto
  <2>2. wk[w].pc \in Busy /\ "fail" \in Busy
    BY <1>12 DEF Busy
  <2>3. /\ SameClaim(wk[w], Moved(wk[w], "fail"))
        /\ Moved(wk[w], "fail").pc = "fail"
        /\ Moved(wk[w], "fail").version = wk[w].version
    BY <1>1, <2>2, MovedWorker
  <2>4. QED
    BY <1>12, <2>1, <2>2, <2>3 DEF Advances
<1>13. ASSUME NEW v \in Versions, ResolveBinding(w, v) PROVE WorkerStep(w)
  <2>1. wk[w].pc = "resolve" /\ wk[w].pc \in Busy /\ wk'[w] = Resolved(wk[w], v)
    BY <1>1, <1>13 DEF ResolveBinding, Goto, Busy
  <2>2. /\ SameClaim(wk[w], Resolved(wk[w], v))
        /\ Resolved(wk[w], v).pc = "bind"
        /\ Resolved(wk[w], v).version = wk[w].version
        /\ Resolved(wk[w], v).found = v
    BY <1>1, ResolvedWorker
  <2>3. v # NoVersion
    BY TaskRowAssumption
  <2>4. QED
    BY <2>1, <2>2, <2>3 DEF Advances
<1> HIDE DEF WorkerStep
<1>14. ASSUME NEW u \in Workers, Step(u) \/ Renew(u) \/ Mishap(u) PROVE WorkerStep(w)
  <2>1. CASE u = w
    BY <1>3, <1>4, <1>5, <1>6, <1>7, <1>8, <1>9, <1>10, <1>11, <1>12, <1>13, <1>14, <2>1
    DEF Step, Mishap, ListDue, ClaimReplyLost, ResolveFails, BindReplyLost, Renew, RenewFails,
        ExecuteFails, Complete, Retry, Fail, Settle, MarkErrorAndMaybeModel, Restart,
        MarkReadyReplyLost, CallFails, Crash, Busy, Executing
  <2>2. CASE u # w
    BY <1>2, <1>3, <1>14, <2>2
    DEF Step, Mishap, ListDue, Claim, ClaimReplyLost, ResolveBinding, ResolveFails, Bind,
        BindReplyLost, Renew, RenewFails, ExecuteFails, PersistArtifact, SetChecksum, MarkReady, Complete,
        Retry, Fail, Settle, MarkErrorAndMaybeModel, Restart, MarkReadyReplyLost,
        CallFails, Crash
  <2>3. QED
    BY <2>1, <2>2
<1>15. QED
  BY <1>3, <1>14 DEF Next, User, Create, RetryFailed, DeleteVersion, DeleteModel,
                     Tick, LateTick, vars
-----------------------------------------------------------------------------
\* What no statement undoes: a row stays, its epoch grows and changes whenever
\* the row is claimed, and a version once bound remains bound.
Progress(r, s) ==
    r.status # "absent" =>
        /\ s.status # "absent"
        /\ r.epoch <= s.epoch
        /\ s.status = "importing" /\ s.epoch = r.epoch
              => r.status = "importing" /\ s.attempt = r.attempt
        /\ r.version # NoVersion => s.version = r.version

\* Completed and failed rows come from Complete and Fail only.
Unsettled(r, s) ==
    s.status \in {"completed", "failed"} =>
        s.status = r.status /\ s.attempt = r.attempt /\ s.version = r.version

LEMMA RowOperationsProgress ==
    ASSUME NEW r \in Row
    PROVE  /\ Progress(r, r) /\ Unsettled(r, r)
           /\ Progress(r, Elapse(r)) /\ Unsettled(r, Elapse(r))
           /\ \A v \in Versions \cup {NoVersion} :
                 /\ r.status = "absent" => Progress(r, NewRow(v))
                 /\ Unsettled(r, NewRow(v))
           /\ r.status = "failed" => Progress(r, RetryFailedRow(r))
           /\ Unsettled(r, RetryFailedRow(r))
           /\ \A o \in Owners : Progress(r, ClaimRow(r, o)) /\ Unsettled(r, ClaimRow(r, o))
           /\ r.status = "importing" =>
                 /\ Progress(r, RenewRow(r)) /\ Unsettled(r, RenewRow(r))
                 /\ \A v \in Versions \cup {NoVersion} :
                       /\ r.version = NoVersion => Progress(r, BindRow(r, v))
                       /\ Unsettled(r, BindRow(r, v))
                 /\ Progress(r, CompleteRow(r))
                 /\ Progress(r, RetryRow(r)) /\ Unsettled(r, RetryRow(r))
                 /\ Progress(r, FailRow(r))
<1> USE DEF Progress, Unsettled
<1>1. r.epoch \in Nat /\ r.attempt \in Nat
  BY DEF Row
<1>2. Progress(r, r) /\ Unsettled(r, r)
  BY <1>1
<1>3. Progress(r, Elapse(r)) /\ Unsettled(r, Elapse(r))
  BY <1>1, ElapseFields
<1>4. ASSUME NEW v \in Versions \cup {NoVersion}
      PROVE  /\ r.status = "absent" => Progress(r, NewRow(v))
             /\ Unsettled(r, NewRow(v))
  BY DEF NewRow, NoRow
<1>5. /\ r.status = "failed" => Progress(r, RetryFailedRow(r))
      /\ Unsettled(r, RetryFailedRow(r))
  <2>1. /\ RetryFailedRow(r).status = "pending"
        /\ RetryFailedRow(r).epoch = r.epoch
        /\ RetryFailedRow(r).version = r.version
    BY DEF RetryFailedRow, Row
  <2>2. QED
    BY <1>1, <2>1
<1>6. \A o \in Owners : Progress(r, ClaimRow(r, o)) /\ Unsettled(r, ClaimRow(r, o))
  BY <1>1, ClaimFields
<1>7. /\ RenewRow(r).status = r.status
      /\ RenewRow(r).epoch = r.epoch
      /\ RenewRow(r).attempt = r.attempt
      /\ RenewRow(r).version = r.version
  BY DEF RenewRow, Row
<1>8. ASSUME NEW v \in Versions \cup {NoVersion}
      PROVE  /\ BindRow(r, v).status = r.status
             /\ BindRow(r, v).epoch = r.epoch
             /\ BindRow(r, v).attempt = r.attempt
  BY DEF BindRow, Row
<1>9. /\ CompleteRow(r).status = "completed"
      /\ CompleteRow(r).epoch = r.epoch
      /\ CompleteRow(r).version = r.version
  BY DEF CompleteRow, Row
<1>10. /\ RetryRow(r).status = "pending"
       /\ RetryRow(r).epoch = r.epoch
       /\ RetryRow(r).version = r.version
  BY DEF RetryRow, Row
<1>11. /\ FailRow(r).status = "failed"
       /\ FailRow(r).epoch = r.epoch
       /\ FailRow(r).version = r.version
  BY DEF FailRow, Row
<1>12. r.status = "importing" =>
          /\ Progress(r, RenewRow(r)) /\ Unsettled(r, RenewRow(r))
          /\ Progress(r, CompleteRow(r))
          /\ Progress(r, RetryRow(r)) /\ Unsettled(r, RetryRow(r))
          /\ Progress(r, FailRow(r))
  BY <1>1, <1>7, <1>9, <1>10, <1>11
<1>13. r.status = "importing" => \A v \in Versions \cup {NoVersion} :
          /\ r.version = NoVersion => Progress(r, BindRow(r, v))
          /\ Unsettled(r, BindRow(r, v))
  BY <1>1, <1>8
<1> HIDE DEF Progress, Unsettled
<1>14. QED
  BY <1>2, <1>3, <1>4, <1>5, <1>6, <1>12, <1>13

\* Every step is progress for every row.
LEMMA RowProgress ==
    ASSUME TypeOK, [Next]_vars, NEW t \in Tasks
    PROVE  Progress(row[t], row'[t])
<1>1. row[t] \in Row
  BY DEF TypeOK
<1>2. RowStep(t)
  BY RowSteps
<1>3. \A w \in Workers, pc \in Busy : Finishing(w, t, pc) => row[t].status = "importing"
  BY DEF Finishing, Holds, Fenced
<1>4. QED
  BY <1>1, <1>2, <1>3, RowOperationsProgress DEF RowStep, Busy
\* A version that is ready or deleted is never anything else again.
LEMMA VersionProgress ==
    ASSUME TypeOK, [Next]_vars, NEW v \in Versions
    PROVE  ver[v].status \in {"ready", "deleted"} => ver'[v].status \in {"ready", "deleted"}
<1>1. VersionStep(v)
  BY VersionSteps
<1>2. QED
  BY <1>1 DEF VersionStep, Readyable

-----------------------------------------------------------------------------
\* The parts of the inductive invariant, one lemma each.

LEMMA WorkerInvPreserved == IInv /\ [Next]_vars => WorkerInv'
<1> SUFFICES ASSUME IInv, [Next]_vars, NEW w \in Workers, wk'[w].pc \in Busy
             PROVE  ClaimRemembered(w)' /\ PlaceJustified(w)'
  BY DEF WorkerInv
<1>1. TypeOK /\ TypeOK'
  BY TypePreserved DEF IInv
<1>2. wk[w] \in Worker /\ wk'[w] \in Worker /\ wk'[w].task \in Tasks
  BY <1>1 DEF TypeOK
<1>3. MaxAttempts \in Nat /\ wk[w].attempt \in Nat /\ wk[w].epoch \in Nat
  BY <1>2, ImportTasksAssumption DEF Worker
<1>4. \A t \in Tasks : /\ row[t] \in Row /\ row'[t] \in Row
                       /\ row[t].epoch \in Nat /\ row'[t].epoch \in Nat
                       /\ Progress(row[t], row'[t])
  BY <1>1, RowProgress DEF TypeOK, Row
<1>5. \A v \in Versions : ver[v].status \in {"ready", "deleted"}
                             => ver'[v].status \in {"ready", "deleted"}
  BY <1>1, VersionProgress
<1>6. wk[w].pc \in Busy => ClaimRemembered(w) /\ PlaceJustified(w) /\ wk[w].task \in Tasks
  BY DEF IInv, WorkerInv, TypeOK
<1>7. CASE wk'[w] = wk[w]
  <2>1. ClaimRemembered(w)'
    BY <1>3, <1>4, <1>6, <1>7 DEF ClaimRemembered, Progress
  <2>2. PlaceJustified(w)'
    BY <1>2, <1>5, <1>6, <1>7 DEF PlaceJustified, Worker
  <2>3. QED
    BY <2>1, <2>2
<1>8. CASE Claims(w)
  <2> PICK t \in Tasks : /\ row'[t] = ClaimRow(row[t], OwnerOf[w])
                         /\ wk'[w] = ClaimOf(t)
    BY <1>8 DEF Claims
  <2>1. /\ row'[t].status = "importing"
        /\ row'[t].epoch = row[t].epoch + 1
        /\ row'[t].attempt = row[t].attempt + 1
        /\ row'[t].version = row[t].version
    BY <1>4, ClaimFields, ImportTasksAssumption
  <2>2. ClaimRemembered(w)'
    BY <1>4, <2>1 DEF ClaimRemembered, ClaimOf
  <2>3. PlaceJustified(w)'
    BY DEF PlaceJustified, ClaimOf
  <2>4. QED
    BY <2>2, <2>3
<1>9. CASE Advances(w)
  <2>1. /\ wk[w].pc \in Busy
        /\ wk'[w].task = wk[w].task
        /\ wk'[w].epoch = wk[w].epoch
        /\ wk'[w].attempt = wk[w].attempt
    BY <1>9 DEF Advances, SameClaim
  <2>2. wk'[w].version = wk[w].version => ClaimRemembered(w)'
    BY <1>3, <1>4, <1>6, <2>1 DEF ClaimRemembered, Progress
  <2>3. CASE wk'[w] = AfterError(wk[w])
    <3>1. PlaceJustified(w)'
      BY <1>2, <1>3, <2>1, <2>3, FailedWorker DEF PlaceJustified
    <3>2. QED
      BY <1>2, <2>2, <2>3, <3>1, FailedWorker
  <2>4. CASE /\ wk[w].pc = "bind"
             /\ wk'[w] = BoundTo(wk[w], wk[w].found)
             /\ row'[wk[w].task].version = wk[w].found
    <3>1. wk[w].found # NoVersion /\ wk[w].found \in Versions \cup {NoVersion}
      BY <1>2, <1>6, <2>1, <2>4 DEF PlaceJustified, Worker
    <3>2. /\ BoundTo(wk[w], wk[w].found).pc = "execute"
          /\ BoundTo(wk[w], wk[w].found).version = wk[w].found
      BY <1>2, <3>1, BoundWorker
    <3>3. ClaimRemembered(w)'
      BY <1>3, <1>4, <1>6, <2>1, <2>4, <3>2 DEF ClaimRemembered, Progress
    <3>4. PlaceJustified(w)'
      BY <2>4, <3>1, <3>2 DEF PlaceJustified
    <3>5. QED
      BY <3>3, <3>4
  <2>5. CASE /\ wk[w].pc = "resolve"
             /\ wk'[w].pc = "bind"
             /\ wk'[w].found # NoVersion
             /\ wk'[w].version = wk[w].version
    BY <2>2, <2>5 DEF PlaceJustified
  <2>6. CASE /\ wk[w].pc \in Executing
             /\ wk'[w].pc \in Executing \cup {"markReady"}
             /\ wk'[w].version = wk[w].version
    BY <1>6, <2>1, <2>2, <2>6 DEF PlaceJustified, Executing
  <2>7. CASE /\ wk[w].pc = "markReady"
             /\ wk'[w].pc = "complete"
             /\ wk'[w].version = wk[w].version
             /\ wk[w].version \in Versions => ver'[wk[w].version].status = "ready"
    <3>1. wk[w].version \in Versions
      BY <1>2, <1>6, <2>1, <2>7 DEF PlaceJustified, Worker
    <3>2. PlaceJustified(w)'
      BY <1>6, <2>1, <2>7, <3>1 DEF PlaceJustified
    <3>3. QED
      BY <2>2, <2>7, <3>2
  <2>8. CASE /\ wk[w].pc = "markError"
             /\ wk'[w].pc = "fail"
             /\ wk'[w].version = wk[w].version
    BY <1>6, <2>1, <2>2, <2>8 DEF PlaceJustified
  <2>9. QED
    BY <1>9, <2>3, <2>4, <2>6, <2>7, <2>8, <2>5 DEF Advances
<1>10. QED
  BY <1>1, <1>7, <1>8, <1>9, WorkerSteps DEF WorkerStep

LEMMA EpochUniquePreserved == IInv /\ [Next]_vars => EpochUnique'
<1> SUFFICES ASSUME IInv, [Next]_vars,
                    NEW w1 \in Workers, NEW w2 \in Workers,
                    wk'[w1].pc \in Busy, wk'[w2].pc \in Busy,
                    wk'[w1].task = wk'[w2].task, wk'[w1].epoch = wk'[w2].epoch
             PROVE  w1 = w2
  BY DEF EpochUnique
<1>1. TypeOK
  BY DEF IInv
<1>2. ASSUME NEW u \in Workers, NEW w \in Workers, u # w, Claims(u),
             wk'[u].task = wk'[w].task, wk'[u].epoch = wk'[w].epoch,
             wk'[w].pc \in Busy
      PROVE  FALSE
  <2>1. PICK t \in Tasks : wk'[u].task = t /\ wk'[u].epoch = row[t].epoch + 1
    BY <1>2 DEF Claims, ClaimOf
  <2>2. wk'[w] = wk[w]
    BY <1>2 DEF Claims
  <2>3. wk[w].epoch <= row[t].epoch
    BY <1>2, <2>1, <2>2 DEF IInv, WorkerInv, ClaimRemembered
  <2>4. row[t].epoch \in Nat /\ wk[w].epoch \in Nat
    BY <1>1 DEF TypeOK, Row, Worker
  <2>5. wk[w].epoch = row[t].epoch + 1
    BY <1>2, <2>1, <2>2
  <2>6. QED
    BY <2>3, <2>4, <2>5
<1>3. ASSUME NEW w \in Workers, wk'[w].pc \in Busy, ~Claims(w)
      PROVE  wk[w].pc \in Busy /\ wk[w].task = wk'[w].task /\ wk[w].epoch = wk'[w].epoch
  BY <1>1, <1>3, WorkerSteps DEF WorkerStep, Advances, SameClaim
<1>4. QED
  BY <1>2, <1>3 DEF IInv, EpochUnique

LEMMA FailedOnlyExhaustedPreserved == IInv /\ [Next]_vars => FailedOnlyExhausted'
<1> SUFFICES ASSUME IInv, [Next]_vars, NEW t \in Tasks, row'[t].status = "failed"
             PROVE  row'[t].attempt >= MaxAttempts
  BY DEF FailedOnlyExhausted
<1>1. TypeOK
  BY DEF IInv
<1>2. row[t] \in Row
  BY <1>1 DEF TypeOK
<1>3. CASE Unsettled(row[t], row'[t])
  BY <1>3 DEF Unsettled, IInv, FailedOnlyExhausted
<1>4. ASSUME NEW w \in Workers, row'[t] = FailRow(row[t]), Finishing(w, t, "fail")
      PROVE  row'[t].attempt >= MaxAttempts
  <2>1. row'[t].attempt = row[t].attempt
    BY <1>2, <1>4 DEF FailRow, Row
  <2>2. row[t].attempt = wk[w].attempt
    BY <1>4 DEF Finishing, Holds, Fenced, IInv, WorkerInv, ClaimRemembered
  <2>3. wk[w].attempt >= MaxAttempts
    BY <1>4 DEF Finishing, Holds, IInv, WorkerInv, PlaceJustified
  <2>4. QED
    BY <2>1, <2>2, <2>3
<1>5. row'[t] # CompleteRow(row[t])
  BY <1>2 DEF CompleteRow, Row
<1>6. \A w \in Workers, pc \in Busy : Finishing(w, t, pc) => row[t].status = "importing"
  BY DEF Finishing, Holds, Fenced
<1>7. RowStep(t)
  BY <1>1, RowSteps
<1>8. QED
  BY <1>2, <1>3, <1>4, <1>5, <1>6, <1>7, RowOperationsProgress DEF RowStep, Busy

LEMMA ReadyVerifiedPreserved == IInv /\ [Next]_vars => ReadyVerified'
<1> SUFFICES ASSUME IInv, [Next]_vars, NEW v \in Versions, ver'[v].status = "ready"
             PROVE  /\ ver'[v].artifact # NoArtifact
                    /\ ver'[v].artifact.content = ver'[v].checksum
  BY DEF ReadyVerified
<1>1. TypeOK
  BY DEF IInv
<1>2. ver[v].checksum \in Contents \cup {NoContent}
  BY <1>1 DEF TypeOK, Version
<1>3. ver[v].status = "ready" => /\ ver[v].artifact # NoArtifact
                                 /\ ver[v].artifact.content = ver[v].checksum
  BY DEF IInv, ReadyVerified
<1>4. VersionStep(v)
  BY <1>1, VersionSteps
<1>5. QED
  BY <1>2, <1>3, <1>4 DEF VersionStep, Readyable, ChecksumSettable

LEMMA CompletedOnlyReadyPreserved == IInv /\ [Next]_vars => CompletedOnlyReady'
<1> SUFFICES ASSUME IInv, [Next]_vars, NEW t \in Tasks, row'[t].status = "completed"
             PROVE  /\ row'[t].version # NoVersion
                    /\ ver'[row'[t].version].status \in {"ready", "deleted"}
  BY DEF CompletedOnlyReady
<1>1. TypeOK
  BY DEF IInv
<1>2. row[t] \in Row
  BY <1>1 DEF TypeOK
<1>3. /\ row'[t].version = row[t].version
      /\ row[t].version # NoVersion
      /\ ver[row[t].version].status \in {"ready", "deleted"}
  <2>1. CASE Unsettled(row[t], row'[t])
    BY <2>1 DEF Unsettled, IInv, CompletedOnlyReady
  <2>2. ASSUME NEW w \in Workers, row'[t] = CompleteRow(row[t]),
               Finishing(w, t, "complete")
        PROVE  <1>3
    <3>1. row'[t].version = row[t].version
      BY <1>2, <2>2 DEF CompleteRow, Row
    <3>2. wk[w].task = t /\ wk[w].pc = "complete" /\ wk[w].pc \in Busy
      BY <2>2 DEF Finishing, Holds
    <3>3. wk[w].version # NoVersion /\ row[t].version = wk[w].version
      BY <3>2 DEF IInv, WorkerInv, ClaimRemembered, PlaceJustified
    <3>4. ver[wk[w].version].status \in {"ready", "deleted"}
      BY <3>2 DEF IInv, WorkerInv, PlaceJustified
    <3>5. QED
      BY <3>1, <3>3, <3>4
  <2>3. row'[t] # FailRow(row[t])
    BY <1>2 DEF FailRow, Row
  <2>4. \A w \in Workers, pc \in Busy : Finishing(w, t, pc) => row[t].status = "importing"
    BY DEF Finishing, Holds, Fenced
  <2>5. RowStep(t)
    BY <1>1, RowSteps
  <2>6. QED
    BY <1>2, <2>1, <2>2, <2>3, <2>4, <2>5, RowOperationsProgress DEF RowStep, Busy
<1>4. row[t].version \in Versions
  BY <1>2, <1>3 DEF Row
<1>5. QED
  BY <1>1, <1>3, <1>4, VersionProgress

\* A task row that will bring its version back from the error state.
Doomed(r) ==
    \/ r.status = "failed"
    \/ r.status = "importing" /\ r.attempt >= MaxAttempts

LEMMA DoomedRows ==
    ASSUME NEW r \in Row, Doomed(r)
    PROVE  /\ Doomed(Elapse(r)) /\ Elapse(r).version = r.version
           /\ r.status = "importing" =>
                 /\ Doomed(RenewRow(r)) /\ RenewRow(r).version = r.version
                 /\ Doomed(FailRow(r)) /\ FailRow(r).version = r.version
                 /\ \A o \in Owners : /\ Doomed(ClaimRow(r, o))
                                      /\ ClaimRow(r, o).version = r.version
<1>1. r.attempt \in Nat /\ MaxAttempts \in Nat
  BY ImportTasksAssumption DEF Row
<1>2. Doomed(Elapse(r)) /\ Elapse(r).version = r.version
  BY ElapseFields DEF Doomed
<1>3. ASSUME r.status = "importing", NEW o \in Owners
      PROVE  Doomed(ClaimRow(r, o)) /\ ClaimRow(r, o).version = r.version
  BY <1>1, <1>3, ClaimFields DEF Doomed
<1>4. /\ RenewRow(r).status = r.status
      /\ RenewRow(r).attempt = r.attempt
      /\ RenewRow(r).version = r.version
  BY DEF RenewRow, Row
<1>5. FailRow(r).status = "failed" /\ FailRow(r).version = r.version
  BY DEF FailRow, Row
<1>6. QED
  BY <1>2, <1>3, <1>4, <1>5 DEF Doomed

LEMMA ErrorRecoverablePreserved == IInv /\ [Next]_vars => ErrorRecoverable'
<1> SUFFICES ASSUME IInv, [Next]_vars, NEW v \in Versions, ver'[v].status = "error"
             PROVE  \E t \in Tasks : row'[t].version = v /\ Doomed(row'[t])
  BY DEF ErrorRecoverable, Doomed
<1>1. TypeOK
  BY DEF IInv
<1>2. ASSUME NEW w \in Workers, NEW t \in Tasks, NEW pc \in Busy, Finishing(w, t, pc)
      PROVE  /\ row[t].status = "importing"
             /\ row[t].attempt = wk[w].attempt
             /\ row[t].attempt \in Nat /\ MaxAttempts \in Nat
             /\ wk[w].pc = pc /\ wk[w].pc \in Busy
             /\ PlaceJustified(w)
             /\ wk[w].version # NoVersion => row[t].version = wk[w].version
  BY <1>1, <1>2, ImportTasksAssumption
  DEF Finishing, Holds, Fenced, IInv, WorkerInv, ClaimRemembered, TypeOK, Row
<1>3. CASE ver[v].status = "error"
  <2>1. PICK t \in Tasks : row[t].version = v /\ Doomed(row[t])
    BY <1>3 DEF IInv, ErrorRecoverable, Doomed
  <2>2. row[t] \in Row /\ v # NoVersion
    BY <1>1, TaskRowAssumption DEF TypeOK
  <2>3. RowStep(t)
    BY <1>1, RowSteps
  <2>4. row[t].status \in {"failed", "importing"}
    BY <2>1 DEF Doomed
  <2>5. \A w \in Workers : ~Finishing(w, t, "complete")
    BY <1>2, <1>3, <2>1 DEF Busy, PlaceJustified
  <2>6. \A w \in Workers : ~Finishing(w, t, "retry")
    <3> SUFFICES ASSUME NEW w \in Workers, Finishing(w, t, "retry") PROVE FALSE
      OBVIOUS
    <3>1. /\ row[t].status = "importing"
          /\ row[t].attempt \in Nat /\ MaxAttempts \in Nat
          /\ row[t].attempt < MaxAttempts
      BY <1>2 DEF Busy, PlaceJustified
    <3>2. QED
      BY <2>1, <3>1 DEF Doomed
  <2>7. Due(row[t]) => row[t].status = "importing"
    BY <2>4 DEF Due
  <2>8. \A w \in Workers : Finishing(w, t, "fail") => row[t].status = "importing"
    BY <1>2 DEF Busy
  <2>9. row'[t].version = v /\ Doomed(row'[t])
    BY <1>3, <2>1, <2>2, <2>3, <2>4, <2>5, <2>6, <2>7, <2>8, DoomedRows DEF RowStep
  <2>10. QED
    BY <2>9
<1>4. CASE ver[v].status # "error"
  <2>1. PICK w \in Workers, t \in Tasks :
             Finishing(w, t, "markError") /\ row[t].version = v /\ row'[t] = row[t]
    BY <1>1, <1>4, VersionSteps DEF VersionStep
  <2>2. row[t].status = "importing" /\ row[t].attempt >= MaxAttempts
    BY <1>2, <2>1 DEF Busy, PlaceJustified
  <2>3. QED
    BY <2>1, <2>2 DEF Doomed
<1>5. QED
  BY <1>3, <1>4

-----------------------------------------------------------------------------
\* The theorems.

\* What a busy worker remembers of its claim, and what the versions and rows
\* say about each other, in every reachable state: the inductive invariant.
THEOREM Invariance == Spec => []IInv
<1>1. Init => IInv
  <2> SUFFICES ASSUME Init PROVE IInv
    OBVIOUS
  <2>1. TypeOK
    BY InitTyped
  <2>2. /\ \A w \in Workers : wk[w].pc \notin Busy
        /\ \A t \in Tasks : row[t].status = "absent"
        /\ \A v \in Versions : ver[v].status = "pending"
    BY IdleWorker DEF Init, NoRow
  <2>3. QED
    BY <2>1, <2>2 DEF IInv, WorkerInv, EpochUnique, FailedOnlyExhausted,
                      ReadyVerified, CompletedOnlyReady, ErrorRecoverable
<1>2. IInv /\ [Next]_vars => IInv'
  BY TypePreserved, WorkerInvPreserved, EpochUniquePreserved,
     FailedOnlyExhaustedPreserved, ReadyVerifiedPreserved,
     CompletedOnlyReadyPreserved, ErrorRecoverablePreserved DEF IInv
<1>3. QED
  BY <1>1, <1>2, PTL DEF Spec

\* No two workers hold the live lease of a task, whatever owner strings they
\* write: the epoch a claim assigns (work_store.go:138) excludes all others.
THEOREM Exclusion == Spec => []LeaseExclusive
<1>1. IInv => LeaseExclusive
  BY DEF IInv, EpochUnique, LeaseExclusive, Holds, Fenced
<1>2. QED
  BY <1>1, Invariance, PTL

\* A task is failed only with its attempts used up (retryOrFail,
\* import_worker.go:263).
THEOREM Exhaustion == Spec => []FailedOnlyExhausted
<1>1. IInv => FailedOnlyExhausted
  BY DEF IInv
<1>2. QED
  BY <1>1, Invariance, PTL

\* A ready version has an artifact with the version's checksum
\* (MarkModelVersionReady, model.sql:117).
THEOREM Verification == Spec => []ReadyVerified
<1>1. IInv => ReadyVerified
  BY DEF IInv
<1>2. QED
  BY <1>1, Invariance, PTL

\* A completed task made its version ready (import_worker.go:235-243).
THEOREM Completion == Spec => []CompletedOnlyReady
<1>1. IInv => CompletedOnlyReady
  BY DEF IInv
<1>2. QED
  BY <1>1, Invariance, PTL

\* A version in error always has a task whose retry resets it
\* (import_worker.go:268-277, model.sql:346-364).
THEOREM Recovery == Spec => []ErrorRecoverable
<1>1. IInv => ErrorRecoverable
  BY DEF IInv
<1>2. QED
  BY <1>1, Invariance, PTL

\* A ready version keeps its artifact, checksum and status until it is deleted,
\* whatever late workers do (SetModelVersionChecksum, persistArtifact).
THEOREM Finality == Spec => ReadyIsFinal
<1>1. IInv /\ [Next]_vars =>
        [\A v \in Versions : ver[v].status = "ready" =>
            /\ ver'[v].status \in {"ready", "deleted"}
            /\ ver'[v].artifact = ver[v].artifact
            /\ ver'[v].checksum = ver[v].checksum]_vars
  <2> SUFFICES ASSUME IInv, [Next]_vars, NEW v \in Versions, ver[v].status = "ready"
               PROVE  /\ ver'[v].status \in {"ready", "deleted"}
                      /\ ver'[v].artifact = ver[v].artifact
                      /\ ver'[v].checksum = ver[v].checksum
    OBVIOUS
  <2>1. TypeOK /\ ver[v].artifact # NoArtifact
    BY DEF IInv, ReadyVerified
  <2>2. VersionStep(v)
    BY <2>1, VersionSteps
  <2>3. QED
    BY <2>1, <2>2 DEF VersionStep, Readyable, ChecksumSettable
<1>2. QED
  BY <1>1, Invariance, PTL DEF Spec, ReadyIsFinal
-----------------------------------------------------------------------------
\* The refinement: a step of the rows and workers is a step of TaskLifecycle.

Outcome(t) == IF row[t].status \in {"pending", "importing"}
              THEN "open" ELSE row[t].status

Holders(t) == {w \in Workers : Holds(w, t)}

KeepsOutcome(t) == Outcome(t)' = Outcome(t)

KeepsHolders(t) == Holders(t)' = Holders(t)

\* Only Create, RetryFailed, Complete and Fail change what callers see.
LEMMA RowOutcomes ==
    ASSUME NEW r \in Row
    PROVE  /\ \A v \in Versions \cup {NoVersion} :
                 /\ NewRow(v).status = "pending"
                 /\ BindRow(r, v).status = r.status
                 /\ BindRow(r, v).owner = r.owner
                 /\ BindRow(r, v).epoch = r.epoch
           /\ RetryFailedRow(r).status = "pending"
           /\ RenewRow(r).status = r.status
           /\ RenewRow(r).owner = r.owner
           /\ RenewRow(r).epoch = r.epoch
           /\ RetryRow(r).status = "pending"
           /\ CompleteRow(r).status = "completed"
           /\ FailRow(r).status = "failed"
BY DEF Row, NewRow, NoRow, BindRow, RetryFailedRow, RenewRow, RetryRow, CompleteRow, FailRow

\* A worker that holds a task after a step held it before, unless the step is
\* its claim: no statement makes a lapsed claim valid again.
LEMMA NoClaimRevived ==
    ASSUME IInv, [Next]_vars, NEW w \in Workers, NEW t \in Tasks,
           Holds(w, t)', ~Claims(w)
    PROVE  Holds(w, t)
<1>1. TypeOK /\ row[t] \in Row
  BY DEF IInv, TypeOK
<1>2. wk[w].pc \in Busy /\ wk[w].task = t /\ wk'[w].epoch = wk[w].epoch
  BY <1>1, WorkerSteps DEF WorkerStep, Advances, SameClaim, Holds
<1>3. Fenced(row'[t], OwnerOf[w], wk[w].epoch)
  BY <1>2 DEF Holds
<1>4. /\ wk[w].epoch \in Nat /\ row[t].epoch \in Nat
      /\ wk[w].epoch <= row[t].epoch
  BY <1>1, <1>2 DEF IInv, WorkerInv, ClaimRemembered, TypeOK, Worker, Row
<1>5. \A o \in Owners : row'[t] # ClaimRow(row[t], o)
  BY <1>1, <1>3, <1>4, ClaimFields DEF Fenced
<1>6. Fenced(row[t], OwnerOf[w], wk[w].epoch)
  BY <1>1, <1>3, <1>5, RowSteps, RowOutcomes, ElapseFields DEF RowStep, Fenced
<1>7. QED
  BY <1>2, <1>6 DEF Holds
\* A task that no row statement gives an outcome stays as open as it was.
LEMMA OpenTasksStayOpen ==
    ASSUME IInv, [Next]_vars, NEW t \in Tasks,
           \A v \in Versions \cup {NoVersion} : ~Create(t, v),
           ~RetryFailed(t),
           \A w \in Workers : wk[w].task = t => ~Complete(w) /\ ~Fail(w)
    PROVE  KeepsOutcome(t)
<1>1. TypeOK /\ row[t] \in Row
  BY DEF IInv, TypeOK
<1>2. Elapse(row[t]).status = row[t].status
  BY <1>1, ElapseFields
<1>3. ASSUME row'[t].status = row[t].status PROVE KeepsOutcome(t)
  BY <1>3 DEF KeepsOutcome, Outcome
<1>4. ASSUME row[t].status \in {"pending", "importing"}, row'[t].status \in {"pending", "importing"}
      PROVE  KeepsOutcome(t)
  BY <1>4 DEF KeepsOutcome, Outcome
<1>5. ASSUME NEW x \in Tasks, x # t, NEW v \in Versions \cup {NoVersion}, Create(x, v) \/ RetryFailed(x)
      PROVE  row'[t] = row[t]
  BY <1>1, <1>5 DEF Create, RetryFailed, TypeOK
<1>6. ASSUME Tick \/ LateTick PROVE KeepsOutcome(t)
  BY <1>2, <1>3, <1>6 DEF Tick, LateTick, Elapsed
<1>7. ASSUME NEW w \in Workers, NEW x \in Tasks, Claim(w, x) \/ ClaimReplyLost(w, x)
      PROVE  KeepsOutcome(t)
  <2>1. x # t => row'[t] = row[t]
    BY <1>1, <1>7 DEF Claim, ClaimReplyLost, TypeOK
  <2>2. x = t => \/ row'[t] = row[t]
                 \/ Due(row[t]) /\ row'[t] = ClaimRow(row[t], OwnerOf[w])
    BY <1>1, <1>7 DEF Claim, ClaimReplyLost, TypeOK
  <2>3. OwnerOf[w] \in Owners
    BY ImportTasksAssumption
  <2>4. QED
    BY <1>1, <1>3, <1>4, <2>1, <2>2, <2>3, ClaimFields DEF Due
<1>8. ASSUME NEW w \in Workers, Bind(w) \/ BindReplyLost(w) PROVE KeepsOutcome(t)
  <2>1. wk[w].found \in Versions \cup {NoVersion}
    BY <1>1 DEF TypeOK, Worker
  <2>2. row'[t] = row[t] \/ row'[t] = BindRow(row[t], wk[w].found)
    BY <1>1, <1>8 DEF Bind, BindReplyLost, BecomesBound, TypeOK
  <2>3. QED
    BY <1>1, <1>3, <2>1, <2>2, RowOutcomes
<1>9. ASSUME NEW w \in Workers, Renew(w) PROVE KeepsOutcome(t)
  <2>1. row'[t] = row[t] \/ row'[t] = RenewRow(row[t])
    BY <1>1, <1>9 DEF Renew, TypeOK
  <2>2. QED
    BY <1>1, <1>3, <2>1, RowOutcomes
<1>10. ASSUME NEW w \in Workers, Retry(w) PROVE KeepsOutcome(t)
  <2>1. \/ row'[t] = row[t]
        \/ row[t].status = "importing" /\ row'[t] = RetryRow(row[t])
    BY <1>1, <1>10 DEF Retry, Settle, Fenced, TypeOK
  <2>2. QED
    BY <1>1, <1>3, <1>4, <2>1, RowOutcomes
<1>11. ASSUME NEW w \in Workers, Complete(w) \/ Fail(w) PROVE KeepsOutcome(t)
  <2>1. row'[t] = row[t]
    BY <1>1, <1>11 DEF Complete, Fail, Settle, TypeOK
  <2>2. QED
    BY <1>3, <2>1
<1>12. ASSUME UNCHANGED row PROVE KeepsOutcome(t)
  BY <1>3, <1>12
<1>13. ASSUME NEW w \in Workers, Step(w) \/ Renew(w) \/ Mishap(w) PROVE KeepsOutcome(t)
  <2>1. \/ UNCHANGED row
        \/ Renew(w) \/ Complete(w) \/ Retry(w) \/ Fail(w) \/ Bind(w) \/ BindReplyLost(w)
        \/ \E x \in Tasks : Claim(w, x) \/ ClaimReplyLost(w, x)
    BY <1>13 DEF Step, Mishap, ListDue, ResolveBinding, ResolveFails, ExecuteFails, PersistArtifact,
                 SetChecksum, MarkReady, MarkErrorAndMaybeModel, Restart, RenewFails,
                 MarkReadyReplyLost, CallFails, Crash
  <2>2. QED
    BY <2>1, <1>7, <1>8, <1>9, <1>10, <1>11, <1>12
<1>14. CASE User
  BY <1>3, <1>5, <1>12, <1>14 DEF User, DeleteVersion, DeleteModel
<1>15. QED
  BY <1>6, <1>12, <1>13, <1>14 DEF Next, vars

\* Whatever takes holders away from tasks, and only that, is a release.
LEMMA LosingHoldersReleases ==
    ASSUME IInv,
           \A t \in Tasks : KeepsOutcome(t),
           \A t \in Tasks, w \in Workers : Holds(w, t)' => Holds(w, t)
    PROVE  \E S \in SUBSET Tasks : Lifecycle!Release(S)
<1> DEFINE S == {t \in Tasks : ~KeepsHolders(t)}
<1>1. ASSUME NEW t \in S PROVE Holders(t)' = {}
  <2>1. \A w1, w2 \in Workers : Holds(w1, t) /\ Holds(w2, t) => w1 = w2
    BY DEF IInv, EpochUnique, Holds, Fenced
  <2>2. QED
    BY <2>1 DEF KeepsHolders, Holders
<1>2. \A t \in Tasks \ S : Holders(t)' = Holders(t)
  BY DEF KeepsHolders
<1>3. [t \in Tasks |-> Outcome(t)]' = [t \in Tasks |-> Outcome(t)]
  BY DEF KeepsOutcome
<1>4. [t \in Tasks |-> Holders(t)]'
        = [t \in Tasks |-> IF t \in S THEN {} ELSE [x \in Tasks |-> Holders(x)][t]]
  BY <1>1, <1>2
<1>5. Lifecycle!Release(S)
  BY <1>3, <1>4 DEF Lifecycle!Release, Outcome, Holders
<1>6. QED
  BY <1>5
\* A task that changes alone is updated in the two abstract functions.
LEMMA OneTaskChanges ==
    ASSUME NEW t \in Tasks,
           \A x \in Tasks \ {t} : KeepsOutcome(x) /\ KeepsHolders(x)
    PROVE  /\ [x \in Tasks |-> Outcome(x)]'
                = [[x \in Tasks |-> Outcome(x)] EXCEPT ![t] = Outcome(t)']
           /\ [x \in Tasks |-> Holders(x)]'
                = [[x \in Tasks |-> Holders(x)] EXCEPT ![t] = Holders(t)']
BY DEF KeepsOutcome, KeepsHolders

LEMMA CreateSubmits ==
    ASSUME TypeOK, NEW t \in Tasks, NEW v \in Versions \cup {NoVersion}, Create(t, v)
    PROVE  Lifecycle!Submit(t)
<1>1. row[t].status = "absent" /\ row'[t].status = "pending"
  BY RowOutcomes DEF Create, TypeOK
<1>2. \A x \in Tasks \ {t} : row'[x] = row[x]
  BY DEF Create, TypeOK
<1>3. UNCHANGED wk
  BY DEF Create
<1>4. \A x \in Tasks : KeepsHolders(x)
  BY <1>1, <1>2, <1>3 DEF KeepsHolders, Holders, Holds, Fenced
<1>5. \A x \in Tasks \ {t} : KeepsOutcome(x)
  BY <1>2 DEF KeepsOutcome, Outcome
<1>6. Outcome(t) = "absent" /\ Outcome(t)' = "open"
  BY <1>1 DEF Outcome
<1>7. [x \in Tasks |-> Holders(x)]' = [x \in Tasks |-> Holders(x)]
  BY <1>4 DEF KeepsHolders
<1>8. QED
  BY <1>4, <1>5, <1>6, <1>7, OneTaskChanges DEF Lifecycle!Submit, Outcome, Holders

LEMMA RetryFailedReopens ==
    ASSUME TypeOK, NEW t \in Tasks, RetryFailed(t)
    PROVE  Lifecycle!Reopen(t)
<1>1. row[t].status = "failed" /\ row'[t].status = "pending"
  BY RowOutcomes DEF RetryFailed, TypeOK
<1>2. \A x \in Tasks \ {t} : row'[x] = row[x]
  BY DEF RetryFailed, TypeOK
<1>3. UNCHANGED wk
  BY DEF RetryFailed
<1>4. \A x \in Tasks : KeepsHolders(x)
  BY <1>1, <1>2, <1>3 DEF KeepsHolders, Holders, Holds, Fenced
<1>5. \A x \in Tasks \ {t} : KeepsOutcome(x)
  BY <1>2 DEF KeepsOutcome, Outcome
<1>6. Outcome(t) = "failed" /\ Outcome(t)' = "open"
  BY <1>1 DEF Outcome
<1>7. [x \in Tasks |-> Holders(x)]' = [x \in Tasks |-> Holders(x)]
  BY <1>4 DEF KeepsHolders
<1>8. QED
  BY <1>4, <1>5, <1>6, <1>7, OneTaskChanges DEF Lifecycle!Reopen, Outcome, Holders

\* A claim finds the task without a holder, for its lease has run out, and
\* leaves the claiming worker as the only one.
LEMMA ClaimAcquires ==
    ASSUME IInv, [Next]_vars, NEW w \in Workers, NEW t \in Tasks,
           Claim(w, t), Due(row[t])
    PROVE  Lifecycle!Acquire(t, w)
<1>1. TypeOK /\ row[t] \in Row /\ OwnerOf[w] \in Owners
  BY ImportTasksAssumption DEF IInv, TypeOK
<1>2. /\ wk[w].pc \notin Busy
      /\ row' = [row EXCEPT ![t] = ClaimRow(row[t], OwnerOf[w])]
      /\ wk' = [wk EXCEPT ![w] = ClaimOf(t)]
  BY DEF Claim, Goto, Busy, Executing
<1>3. /\ row'[t] = ClaimRow(row[t], OwnerOf[w])
      /\ wk'[w] = ClaimOf(t)
      /\ \A x \in Tasks \ {t} : row'[x] = row[x]
      /\ \A u \in Workers \ {w} : wk'[u] = wk[u]
  BY <1>1, <1>2 DEF TypeOK
<1>4. ClaimOf(t).pc \in Busy /\ ClaimOf(t).task = t /\ ClaimOf(t).epoch = row[t].epoch + 1
  BY DEF ClaimOf, Busy, Executing
<1>5. Holders(t) = {}
  BY <1>1 DEF Holders, Holds, Fenced, Due, Row
<1>6. Holds(w, t)'
  BY <1>1, <1>3, <1>4, ClaimFields DEF Holds, Fenced
<1>7. \A u \in Workers \ {w} : ~Holds(u, t)'
  <2> SUFFICES ASSUME NEW u \in Workers \ {w}, Holds(u, t)' PROVE FALSE
    OBVIOUS
  <2>1. wk[u].pc \in Busy /\ wk[u].task = t /\ wk[u].epoch = row[t].epoch + 1
    BY <1>1, <1>3, ClaimFields DEF Holds, Fenced
  <2>2. wk[u].epoch <= row[t].epoch
    BY <2>1 DEF IInv, WorkerInv, ClaimRemembered
  <2>3. QED
    BY <1>1, <2>1, <2>2 DEF Row
<1>8. Holders(t)' = {w}
  BY <1>6, <1>7 DEF Holders
<1>9. \A x \in Tasks \ {t} : KeepsOutcome(x) /\ KeepsHolders(x)
  BY <1>2, <1>3, <1>4 DEF KeepsOutcome, Outcome, KeepsHolders, Holders, Holds
<1>10. Outcome(t) = "open" /\ Outcome(t)' = "open"
  BY <1>1, <1>3, ClaimFields DEF Outcome, Due
<1>11. [x \in Tasks |-> Outcome(x)]' = [x \in Tasks |-> Outcome(x)]
  BY <1>9, <1>10 DEF KeepsOutcome
<1>12. QED
  BY <1>5, <1>8, <1>9, <1>10, <1>11, OneTaskChanges DEF Lifecycle!Acquire, Outcome, Holders

\* Completing and failing decide the task when the lease is still held.
LEMMA SettlingDecides ==
    ASSUME IInv, [Next]_vars, NEW w \in Workers, NEW t \in Tasks, Holds(w, t),
           Complete(w) \/ Fail(w)
    PROVE  \E result \in {"completed", "failed"} : Lifecycle!Decide(t, w, result)
<1>1. /\ TypeOK /\ row[t] \in Row
      /\ wk[w].task = t /\ Fenced(row[t], OwnerOf[w], wk[w].epoch)
  BY DEF IInv, TypeOK, Holds
<1>2. PICK result \in {"completed", "failed"} : row'[t].status = result
  BY <1>1, RowOutcomes DEF Complete, Fail, Settle, TypeOK
<1>3. /\ \A x \in Tasks \ {t} : row'[x] = row[x]
      /\ \A u \in Workers \ {w} : wk'[u] = wk[u]
      /\ wk'[w].pc \notin Busy
  BY <1>1, IdleWorker DEF Complete, Fail, Settle, Goto, TypeOK
<1>4. Holders(t) = {w}
  BY DEF IInv, EpochUnique, Holds, Fenced, Holders
<1>5. Holders(t)' = {}
  BY <1>2 DEF Holders, Holds, Fenced
<1>6. \A x \in Tasks \ {t} : KeepsOutcome(x) /\ KeepsHolders(x)
  BY <1>1, <1>3 DEF KeepsOutcome, Outcome, KeepsHolders, Holders, Holds
<1>7. Outcome(t) = "open" /\ Outcome(t)' = result
  BY <1>1, <1>2 DEF Outcome, Fenced
<1>8. Lifecycle!Decide(t, w, result)
  BY <1>1, <1>4, <1>5, <1>6, <1>7, OneTaskChanges DEF Lifecycle!Decide, Outcome, Holders
<1>9. QED
  BY <1>8
\* Every step is one of the promised kinds, or invisible to the callers.
LEMMA StepsImplement ==
    ASSUME IInv, [Next]_vars
    PROVE  [Lifecycle!LifecycleNext]_(Lifecycle!lifecycleVars)
<1>1. TypeOK
  BY DEF IInv
<1>2. ASSUME NEW t \in Tasks, NEW v \in Versions \cup {NoVersion}, Create(t, v)
      PROVE  Lifecycle!LifecycleNext
  BY <1>1, <1>2, CreateSubmits DEF Lifecycle!LifecycleNext
<1>3. ASSUME NEW t \in Tasks, RetryFailed(t)
      PROVE  Lifecycle!LifecycleNext
  BY <1>1, <1>3, RetryFailedReopens DEF Lifecycle!LifecycleNext
<1>4. ASSUME NEW w \in Workers, Claims(w)
      PROVE  Lifecycle!LifecycleNext
  BY <1>4, ClaimAcquires DEF Claims, Lifecycle!LifecycleNext
<1>5. ASSUME NEW w \in Workers, NEW t \in Tasks, Holds(w, t), Complete(w) \/ Fail(w)
      PROVE  Lifecycle!LifecycleNext
  BY <1>5, SettlingDecides DEF Lifecycle!LifecycleNext
<1>6. ASSUME \A t \in Tasks : KeepsOutcome(t),
             \A w \in Workers : ~Claims(w)
      PROVE  Lifecycle!LifecycleNext
  BY <1>6, NoClaimRevived, LosingHoldersReleases DEF Lifecycle!LifecycleNext
<1>7. ASSUME NEW w \in Workers, Complete(w) \/ Fail(w), \A t \in Tasks : ~Holds(w, t)
      PROVE  (\A t \in Tasks : KeepsOutcome(t)) /\ (\A u \in Workers : ~Claims(u))
  <2>1. UNCHANGED row
    BY <1>1, <1>7 DEF Complete, Fail, Settle, Holds, Busy, TypeOK
  <2>2. \A u \in Workers : ~Claims(u)
    BY <1>1, <2>1, ClaimFields, ImportTasksAssumption DEF Claims, TypeOK, Row
  <2>3. QED
    BY <2>1, <2>2 DEF KeepsOutcome, Outcome
<1>8. CASE /\ \A t \in Tasks : ~RetryFailed(t)
           /\ \A t \in Tasks, v \in Versions \cup {NoVersion} : ~Create(t, v)
           /\ \A w \in Workers : ~Complete(w) /\ ~Fail(w)
           /\ \A w \in Workers : ~Claims(w)
  BY <1>6, <1>8, OpenTasksStayOpen
<1>9. QED
  BY <1>2, <1>3, <1>4, <1>5, <1>6, <1>7, <1>8

\* The task store with its rows, epochs, leases and forgetful workers keeps
\* the promise of TaskLifecycle: one holder at a time, which alone decides,
\* and final outcomes (work_store.go:121-262 behind import_worker.go).
THEOREM Refinement == Spec => ImplementsLifecycle
<1>1. Init => Lifecycle!LifecycleInit
  BY IdleWorker DEF Init, NoRow, Holds, Lifecycle!LifecycleInit
<1>2. QED
  BY <1>1, StepsImplement, Invariance, PTL
  DEF Spec, ImplementsLifecycle, Lifecycle!LifecycleSpec
=============================================================================
