------------------------------ MODULE Admission ------------------------------
(***************************************************************************)
(* How the API takes in new models, versions and import tasks:             *)
(* internal/service/model.go over the stores of internal/data/postgres.    *)
(* Calls run concurrently and a caller that got no answer repeats the      *)
(* request with its idempotency key; a step is one statement or            *)
(* transaction boundary, so calls interleave between the look-up of a key, *)
(* the insert it decides, the finalization of an upload and the audit      *)
(* event.                                                                  *)
(*                                                                         *)
(* A row is named after the call that inserted it (each handler draws a    *)
(* fresh uuid) and its contents are those of that call's request.          *)
(* Versions are created under one model that is there already; deletion is *)
(* in Catalog, the life of a task in ImportTasks.                          *)
(***************************************************************************)
EXTENDS Naturals, FiniteSets

CONSTANTS
    Calls,        \* calls of the API, and the ids of the rows they insert
    NoRow,        \* no row yet
    Keys, NoKey,  \* idempotency keys; the empty key
    Names,        \* names of models
    Sums,         \* contents and their checksums
    Paths, NoPath,\* storage paths of uploads; the empty path
    Stored,       \* Stored[p]: the content of the object at path p
    Requests,     \* the requests callers may send
    MaxActive,    \* bound: calls that run at a time
    MaxLost,      \* bound: calls that break off
    MaxFailures   \* bound: import tasks that fail

Request ==
    [op : {"model"}, key : Keys \cup {NoKey}, name : Names, sum : {NoRow}, path : {NoPath}]
    \cup [op : {"version"}, key : Keys \cup {NoKey}, name : {NoRow}, sum : Sums,
          path : Paths \cup {NoPath}]
    \cup [op : {"task", "bundle"}, key : Keys, name : Names, sum : {NoRow}, path : {NoPath}]

ASSUME AdmissionAssumption ==
    /\ NoRow \notin Calls
    /\ NoKey \notin Keys
    /\ NoPath \notin Paths
    /\ Stored \in [Paths -> Sums]
    /\ Requests \subseteq Request
    /\ MaxActive \in Nat /\ MaxLost \in Nat /\ MaxFailures \in Nat

VARIABLES
    req,      \* req[c]: the request of call c
    at,       \* at[c]: the place of call c in its handler
    got,      \* got[c]: the row that call c speaks of
    reply,    \* reply[c]: the answer
    rows,     \* rows[t]: the committed rows of table t
    open,     \* open[c]: the tables in which c's transaction has inserted
    ready,    \* versions that are ready
    artifact, \* artifact[v]: the artifact recorded for version v
    failed,   \* import tasks that have failed
    events,   \* audit events: the request's kind and the row
    lost,     \* number of calls that broke off
    failures  \* number of failures of tasks

callVars == <<req, at, got, reply>>
rowVars == <<rows, open>>
uploadVars == <<ready, artifact>>
avars == <<callVars, rowVars, uploadVars, failed, events, lost, failures>>

Tables == {"model", "version", "task"}

\* A retry names a task that is there when it is carried out.
Retry == [op |-> "retry", key |-> NoKey, name |-> NoRow, sum |-> NoRow, path |-> NoPath]
NoRequest == [Retry EXCEPT !.op = "none"]

Places == {"idle", "lookup", "insert", "reread", "replay", "begin", "inModel", "inVersion",
           "inTask", "commit", "replayAgain", "verify", "record", "markReady", "retry",
           "audit", "done"}
Answers == {"none", "ok", "conflict", "rejected", "broken"}

NoArtifact == [path |-> NoPath, sum |-> NoRow]

Init ==
    /\ req = [c \in Calls |-> NoRequest]
    /\ at = [c \in Calls |-> "idle"]
    /\ got = [c \in Calls |-> NoRow]
    /\ reply = [c \in Calls |-> "none"]
    /\ rows = [t \in Tables |-> {}]
    /\ open = [c \in Calls |-> {}]
    /\ ready = {}
    /\ artifact = [c \in Calls |-> NoArtifact]
    /\ failed = {} /\ events = {} /\ lost = 0 /\ failures = 0

-----------------------------------------------------------------------------
\* The request fingerprint leaves out the storage path and the ids a task is meant for.
Fingerprint(r) == [r EXCEPT !.path = NoPath]

ReplayMatches(row, c) == Fingerprint(req[row]) = Fingerprint(req[c])

\* The row of a key; the unique index on the key allows one.
ByKey(t, c) == {d \in rows[t] : req[d].key = req[c].key /\ req[c].key # NoKey}

\* The unique indexes: the key, the name of a model, the label of a version in
\* its model (calls that create a version all use one label).
Clash(t, c, d) ==
    /\ d # c
    /\ \/ req[d].key = req[c].key /\ req[c].key # NoKey
       \/ t = "model" /\ req[d].name = req[c].name
       \/ t = "version" /\ req[d].op = "version" /\ req[c].op = "version"

Taken(t, c) == \E d \in rows[t] : Clash(t, c, d)

\* An insert waits for a transaction that has inserted the same index entry.
Waits(t, c) == \E d \in Calls : t \in open[d] /\ Clash(t, c, d)

Table(c) == req[c].op

Answer(c, a) ==
    /\ at' = [at EXCEPT ![c] = "done"]
    /\ reply' = [reply EXCEPT ![c] = a]

Goto(c, p) == at' = [at EXCEPT ![c] = p] /\ UNCHANGED reply
\* Mutant of Proceed: a replay is answered at once.
ProceedReplayed(c, row, isReady) ==
    /\ got' = [got EXCEPT ![c] = row]
    /\ IF row # c \/ (req[c].path # NoPath /\ isReady) THEN Answer(c, "ok")
       ELSE IF req[c].op = "version" /\ req[c].path # NoPath THEN Goto(c, "verify")
       ELSE Goto(c, "audit")

\* What follows when the row of c is known and has the status it was read with.
Proceed(c, row, isReady) ==
    /\ got' = [got EXCEPT ![c] = row]
    /\ IF req[c].op = "version" /\ req[c].path # NoPath
       THEN IF isReady THEN Answer(c, "ok") ELSE Goto(c, "verify")
       ELSE Goto(c, "audit")
-----------------------------------------------------------------------------
\* The place of a handler's first statement.
First(r) == IF r.op = "bundle" THEN "replay"
            ELSE IF r.op = "retry" THEN "retry"
            ELSE IF r.key = NoKey THEN "insert"
            ELSE "lookup"

Receive(c, r) ==
    /\ at[c] = "idle"
    /\ c = CHOOSE d \in Calls : at[d] = "idle"
    /\ Cardinality({d \in Calls : at[d] \notin {"idle", "done"}}) < MaxActive
    /\ req' = [req EXCEPT ![c] = r]
    /\ Goto(c, First(r))
    /\ UNCHANGED <<got, rowVars, uploadVars, failed, events, lost, failures>>

\* CreateModel, CreateVersion and Create read the row of the key first.
LookUp(c) ==
    /\ at[c] = "lookup"
    /\ \/ /\ ByKey(Table(c), c) = {}
          /\ Goto(c, "insert")
          /\ UNCHANGED got
       \/ \E d \in ByKey(Table(c), c) :
             IF ReplayMatches(d, c) THEN Proceed(c, d, d \in ready)
                                    ELSE Answer(c, "conflict") /\ UNCHANGED got
    /\ UNCHANGED <<req, rowVars, uploadVars, failed, events, lost, failures>>

\* The insert of a call without a transaction; only Create reads again.
InsertRow(c) ==
    /\ at[c] = "insert"
    /\ ~Waits(Table(c), c)
    /\ IF Taken(Table(c), c)
       THEN /\ IF Table(c) = "task" THEN Goto(c, "reread") ELSE Answer(c, "conflict")
            /\ UNCHANGED <<got, rows>>
       ELSE /\ rows' = [rows EXCEPT ![Table(c)] = @ \cup {c}]
            /\ Proceed(c, c, FALSE)
    /\ UNCHANGED <<req, open, uploadVars, failed, events, lost, failures>>
\* Mutant of Reread: whoever took the key, its task is returned.
RereadAny(c) ==
    /\ at[c] = "reread"
    /\ \E d \in ByKey("task", c) : Proceed(c, d, FALSE)
    /\ UNCHANGED <<req, rowVars, uploadVars, failed, events, lost, failures>>

Reread(c) ==
    /\ at[c] = "reread"
    /\ \E d \in ByKey("task", c) :
          IF ReplayMatches(d, c) THEN Proceed(c, d, FALSE)
                                 ELSE Answer(c, "conflict") /\ UNCHANGED got
    /\ UNCHANGED <<req, rowVars, uploadVars, failed, events, lost, failures>>
-----------------------------------------------------------------------------
\* A bundle: model, version and task in one transaction.

\* The three look-ups share a snapshot; the aggregate is all there and matches,
\* all missing, or in conflict.
Missing(c) == \A t \in Tables : ByKey(t, c) = {}
Aggregate(c, d) == \A t \in Tables : d \in ByKey(t, c) /\ ReplayMatches(d, c)

\* replayBundle before the transaction and the first look-ups inside it.
ReplayBundle(c, from, to) ==
    /\ at[c] = from
    /\ \/ \E d \in Calls : Aggregate(c, d) /\ Proceed(c, d, FALSE)
       \/ Missing(c) /\ Goto(c, to) /\ UNCHANGED got
       \/ /\ ~Missing(c)
          /\ ~\E d \in Calls : Aggregate(c, d)
          /\ Answer(c, "conflict")
          /\ UNCHANGED got
    /\ UNCHANGED <<req, rowVars, uploadVars, failed, events, lost, failures>>
\* Mutant of InsertBundle: every insert is committed by itself.
InsertBundleAtOnce(c, t, from, to) ==
    /\ at[c] = from
    /\ IF Taken(t, c) THEN Goto(c, "replayAgain") /\ UNCHANGED rows
       ELSE Goto(c, to) /\ rows' = [rows EXCEPT ![t] = @ \cup {c}]
    /\ UNCHANGED <<req, got, open, uploadVars, failed, events, lost, failures>>

\* Mutant of InsertBundle: after a unique violation the transaction stays open.
InsertBundleLeftOpen(c, t, from, to) ==
    /\ at[c] = from
    /\ ~Waits(t, c)
    /\ IF Taken(t, c) THEN Goto(c, "replayAgain") /\ UNCHANGED open
       ELSE Goto(c, to) /\ open' = [open EXCEPT ![c] = @ \cup {t}]
    /\ UNCHANGED <<req, got, rows, uploadVars, failed, events, lost, failures>>

\* Mutant of InsertBundle: a row that is there already is passed over.
InsertBundleUnlessTaken(c, t, from, to) ==
    /\ at[c] = from
    /\ ~Waits(t, c)
    /\ Goto(c, to)
    /\ open' = [open EXCEPT ![c] = IF Taken(t, c) THEN @ ELSE @ \cup {t}]
    /\ UNCHANGED <<req, got, rows, uploadVars, failed, events, lost, failures>>

\* CreateBundleModel, CreateBundleVersion, CreateBundleTask; a unique violation
\* rolls the transaction back.
InsertBundle(c, t, from, to) ==
    /\ at[c] = from
    /\ ~Waits(t, c)
    /\ IF Taken(t, c)
       THEN Goto(c, "replayAgain") /\ open' = [open EXCEPT ![c] = {}]
       ELSE Goto(c, to) /\ open' = [open EXCEPT ![c] = @ \cup {t}]
    /\ UNCHANGED <<req, got, rows, uploadVars, failed, events, lost, failures>>

CommitBundle(c) ==
    /\ at[c] = "commit"
    /\ rows' = [t \in Tables |-> IF t \in open[c] THEN rows[t] \cup {c} ELSE rows[t]]
    /\ open' = [open EXCEPT ![c] = {}]
    /\ Proceed(c, c, FALSE)
    /\ UNCHANGED <<req, uploadVars, failed, events, lost, failures>>

\* Somebody else may have won: return the aggregate if it is the same one.
ReplayAgain(c) ==
    /\ at[c] = "replayAgain"
    /\ IF \E d \in Calls : Aggregate(c, d)
       THEN \E d \in Calls : Aggregate(c, d) /\ Proceed(c, d, FALSE)
       ELSE Answer(c, "conflict") /\ UNCHANGED got
    /\ UNCHANGED <<req, rowVars, uploadVars, failed, events, lost, failures>>

Bundle(c) ==
    \/ ReplayBundle(c, "replay", "begin")
    \/ ReplayBundle(c, "begin", "inModel")
    \/ InsertBundle(c, "model", "inModel", "inVersion")
    \/ InsertBundle(c, "version", "inVersion", "inTask")
    \/ InsertBundle(c, "task", "inTask", "commit")
    \/ CommitBundle(c)
    \/ ReplayAgain(c)
-----------------------------------------------------------------------------
\* Mutant of Verify: it is enough that the object exists.
VerifyExists(c) ==
    /\ at[c] = "verify"
    /\ Goto(c, "record")
    /\ UNCHANGED <<req, got, rowVars, uploadVars, failed, events, lost, failures>>

\* Finalizing an upload: ObjectExists and VerifyChecksum against the request.
Verify(c) ==
    /\ at[c] = "verify"
    /\ IF Stored[req[c].path] = req[c].sum THEN Goto(c, "record") ELSE Answer(c, "rejected")
    /\ UNCHANGED <<req, got, rowVars, uploadVars, failed, events, lost, failures>>

\* The artifact of a version is inserted once.
CreateArtifact(c) ==
    /\ at[c] = "record"
    /\ IF artifact[got[c]] = NoArtifact
       THEN /\ artifact' = [artifact EXCEPT ![got[c]] =
                               [path |-> req[c].path, sum |-> req[c].sum]]
            /\ Goto(c, "markReady")
       ELSE Answer(c, "conflict") /\ UNCHANGED artifact
    /\ UNCHANGED <<req, got, rowVars, ready, failed, events, lost, failures>>

MarkReady(c) ==
    /\ at[c] = "markReady"
    /\ IF artifact[got[c]].sum = req[got[c]].sum
       THEN ready' = ready \cup {got[c]} /\ Goto(c, "audit")
       ELSE Answer(c, "rejected") /\ UNCHANGED ready
    /\ UNCHANGED <<req, got, rowVars, artifact, failed, events, lost, failures>>

\* recordAudit, then the wake-up of the worker and the answer.
RecordAudit(c) ==
    /\ at[c] = "audit"
    /\ events' = events \cup {<<req[c].op, got[c]>>}
    /\ Answer(c, "ok")
    /\ UNCHANGED <<req, got, rowVars, uploadVars, failed, lost, failures>>


\* RetryImportTask sets a failed task back to pending.
RetryFailed(c, d) ==
    /\ at[c] = "retry"
    /\ d \in rows["task"]
    /\ IF d \in failed
       THEN /\ failed' = failed \ {d}
            /\ got' = [got EXCEPT ![c] = d]
            /\ Goto(c, "audit")
       ELSE Answer(c, "rejected") /\ UNCHANGED <<got, failed>>
    /\ UNCHANGED <<req, rowVars, uploadVars, events, lost, failures>>

\* The worker gives a task up.
TaskFails(d) ==
    /\ failures < MaxFailures
    /\ d \in rows["task"] \ failed
    /\ failed' = failed \cup {d}
    /\ failures' = failures + 1
    /\ UNCHANGED <<callVars, rowVars, uploadVars, events, lost>>

\* A statement fails, its answer is lost, the deadline passes or the process
\* dies: the caller gets an error, an open transaction is rolled back.
BreakOff(c) ==
    /\ at[c] \notin {"idle", "done"}
    /\ lost < MaxLost
    /\ lost' = lost + 1
    /\ open' = [open EXCEPT ![c] = {}]
    /\ Answer(c, "broken")
    /\ UNCHANGED <<req, got, rows, uploadVars, failed, events, failures>>
-----------------------------------------------------------------------------
Handle(c) ==
    \/ LookUp(c) \/ InsertRow(c) \/ Reread(c)
    \/ Bundle(c)
    \/ Verify(c) \/ CreateArtifact(c) \/ MarkReady(c)
    \/ RecordAudit(c)
    \/ \E d \in Calls : RetryFailed(c, d)

Arrive(c) ==
    \/ \E r \in Requests : Receive(c, r)
    \/ rows["task"] # {} /\ Receive(c, Retry)

Next ==
    \/ \E c \in Calls : Arrive(c) \/ Handle(c) \/ BreakOff(c)
    \/ \E d \in Calls : TaskFails(d)

Spec == Init /\ [][Next]_avars
FairSpec == Spec /\ \A c \in Calls : WF_avars(Handle(c))
-----------------------------------------------------------------------------
TypeOK ==
    /\ req \in [Calls -> Requests \cup {Retry, NoRequest}]
    /\ at \in [Calls -> Places]
    /\ got \in [Calls -> Calls \cup {NoRow}]
    /\ reply \in [Calls -> Answers]
    /\ rows \in [Tables -> SUBSET Calls]
    /\ open \in [Calls -> SUBSET Tables]
    /\ ready \subseteq Calls /\ failed \subseteq Calls
    /\ artifact \in [Calls -> [path : Paths \cup {NoPath}, sum : Sums \cup {NoRow}]]
    /\ events \in SUBSET ({"model", "version", "task", "bundle", "retry"} \X Calls)
    /\ lost \in 0 .. MaxLost /\ failures \in 0 .. MaxFailures

Ok(c) == reply[c] = "ok"

\* Calls that repeat a request with its key and are answered speak of one row,
\* and a call with another payload under that key is never answered: whether the
\* repetition meets the first call before, between or after its statements
\* (model_store.go:47-56, work_store.go:49-66, import_bundle_store.go:47-73).
OneOutcome ==
    \A c, d \in Calls :
        Ok(c) /\ Ok(d) /\ req[c].op = req[d].op /\ req[c].key = req[d].key /\ req[c].key # NoKey
        => got[c] = got[d] /\ Fingerprint(req[c]) = Fingerprint(req[d])

\* Of a bundle the model, the version and the task are there or none is, and a
\* bundle that was answered is there, whichever of its unique indexes another
\* call has taken and wherever a call broke off (import_bundle_store.go:55-73).
BundlesWhole ==
    \A c \in Calls : req[c].op = "bundle" =>
        /\ \/ \A t \in Tables : c \in rows[t]
           \/ \A t \in Tables : c \notin rows[t]
        /\ Ok(c) => \A t \in Tables : got[c] \in rows[t]

\* What a call was told is accepted is there and has an audit event, although the
\* event is written after the commit and the call may break off in between.  A
\* finalized upload that is repeated is answered without one (model.go:336-343).
AnswersAudited ==
    \A c \in Calls : Ok(c) =>
        /\ \E t \in Tables : got[c] \in rows[t]
        /\ req[c].path = NoPath => <<req[c].op, got[c]>> \in events

\* An uploaded version is ready only when the object its artifact names was found
\* to have the checksum of the version, although a repetition may come with
\* another path and finalize the version of the first call (model.go:344-373).
UploadsVerified ==
    \A v \in ready : /\ v \in rows["version"]
                     /\ artifact[v] # NoArtifact
                     /\ Stored[artifact[v].path] = req[v].sum

\* Every call ends: no insert waits for ever for the transaction of another bundle.
CallsEnd == \A c \in Calls : at[c] # "idle" ~> at[c] = "done"

\* Over all its statements the intake does what Intake does in one: rows appear
\* for a whole request, in front of one answer, and whatever was looked up before
\* them (model_store.go:43-73, work_store.go:44-78, import_bundle_store.go:22-86).
Promise == INSTANCE Intake WITH
    asked <- req,
    stored <- rows,
    answer <- [c \in Calls |-> IF Ok(c) THEN "accepted"
                               ELSE IF at[c] = "done" THEN "refused" ELSE "none"],
    told <- [c \in Calls |-> IF Ok(c) THEN got[c] ELSE NoRow]

ImplementsIntake == Promise!Spec
=============================================================================
