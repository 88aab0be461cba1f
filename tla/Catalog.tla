------------------------------- MODULE Catalog -------------------------------
(***************************************************************************)
(* One model, its versions and the transactions that change or read their  *)
(* status: internal/data/postgres/version_store.go and deletion_store.go   *)
(* under READ COMMITTED row locks.                                         *)
(*                                                                         *)
(* A statement looks at a snapshot first; where it then has to wait for a  *)
(* row lock, PostgreSQL evaluates the conditions on the locked row again   *)
(* when it gets the lock, and only those.  Each transaction is therefore a *)
(* few steps: the snapshot, then one step per contended lock, the last of  *)
(* which commits.  A write becomes visible with the commit; nobody else    *)
(* could have seen it before.  What a transaction holds follows from where *)
(* it is (Holds).                                                          *)
(*                                                                         *)
(* The inference service is outside this repository.  As                   *)
(* deletion_store.go:110-113 says, a request commits its reference first   *)
(* and reads the ready version afterwards; only that read authorizes it.   *)
(***************************************************************************)
EXTENDS RowLocks

CONSTANTS
    Versions,    \* ids of the model's versions
    NoVersion,   \* the version of a transaction that names none
    TheModel,    \* the row of the model, as an object to lock
    Calls,       \* connections on which the service runs transactions
    Requests     \* inference requests

ASSUME CatalogAssumption ==
    /\ NoVersion \notin Versions
    /\ TheModel \notin Versions \cup {NoVersion}
    /\ Calls \cap Requests = {}

VARIABLES
    mdl,   \* the row of the model: its status and whether deleted_at is set
    ver,   \* ver[v]: the status of version v
    txn,   \* txn[x]: the transaction running on connection x
    ref    \* ref[r]: the reference inference request r holds

vars == <<mdl, ver, txn, ref>>

Txns == Calls \cup Requests
Objects == Versions \cup {TheModel}

ModelStatus == {"pending", "ready", "error", "deleted"}
VersionStatus == {"absent", "pending", "ready", "error", "deleted"}

Deletions == {"deleteModel", "deleteVersion"}
Finalizations == {"markReady", "markError"}
Ops == {"none", "createVersion", "read"} \cup Deletions \cup Finalizations

\* "lockModel" and "lockVersion" wait for that lock; "check" asks the inference
\* service, "delete" has its answer.
Stages == {"none", "lockModel", "lockVersion", "check", "delete"}

NoTxn == [op |-> "none", stage |-> "none", version |-> NoVersion]
NoRef == [state |-> "none", version |-> NoVersion]

Model == [status : ModelStatus, deletedAt : BOOLEAN]

Txn == [op : Ops, stage : Stages, version : Versions \cup {NoVersion}]

Reference == [state   : {"none", "committed", "validated", "refused"},
              version : Versions \cup {NoVersion}]

TypeOK ==
    /\ mdl \in Model
    /\ ver \in [Versions -> VersionStatus]
    /\ txn \in [Txns -> Txn]
    /\ ref \in [Requests -> Reference]

Init ==
    /\ mdl = [status |-> "pending", deletedAt |-> FALSE]
    /\ ver = [v \in Versions |-> "absent"]
    /\ txn = [x \in Txns |-> NoTxn]
    /\ ref = [r \in Requests |-> NoRef]

-----------------------------------------------------------------------------
\* Locks and stages of a transaction.

In(x, op, stage) == txn[x].op = op /\ txn[x].stage = stage

\* Mutant of Holds: a deletion asks about references before it locks anything.
HoldsAfterCheck(x, object, mode) ==
    \/ /\ txn[x].op \in Deletions
       /\ txn[x].stage = "lockVersion"
       /\ object = TheModel
       /\ mode = "update"
    \/ /\ txn[x].op \in Finalizations
       /\ txn[x].stage = "lockModel"
       /\ object = txn[x].version
       /\ mode = "noKeyUpdate"

\* Transaction x holds a lock of this mode on the row.
Holds(x, object, mode) ==
    \/ /\ txn[x].op \in Deletions
       /\ txn[x].stage \in {"lockVersion", "check", "delete"}
       /\ object = TheModel
       /\ mode = "update"
    \/ /\ txn[x].op = "deleteVersion"
       /\ txn[x].stage \in {"check", "delete"}
       /\ object = txn[x].version
       /\ mode = "update"
    \/ /\ txn[x].op \in Finalizations
       /\ txn[x].stage = "lockModel"
       /\ object = txn[x].version
       /\ mode = "noKeyUpdate"
    \/ /\ In(x, "read", "lockVersion")
       /\ object = TheModel
       /\ mode = "share"

Grantable(x, object, mode) ==
    \A y \in Txns \ {x}, held \in LockModes :
        Holds(y, object, held) => held \notin ConflictsWith[mode]

Begin(x, op, stage, v) ==
    /\ txn[x].op = "none"
    /\ txn' = [txn EXCEPT ![x] = [op |-> op, stage |-> stage, version |-> v]]

Advance(x, stage) ==
    txn' = [txn EXCEPT ![x] = [op      |-> txn[x].op,
                               stage   |-> stage,
                               version |-> txn[x].version]]

End(x) == txn' = [txn EXCEPT ![x] = NoTxn]

BecomesModel(status) ==
    mdl' = [status |-> status, deletedAt |-> mdl.deletedAt]

BecomesRef(r, state) ==
    ref' = [ref EXCEPT ![r] = [state |-> state, version |-> ref[r].version]]

-----------------------------------------------------------------------------
\* CreateVersion: the parent is locked FOR KEY SHARE and must not be deleted.

BeginCreateVersion(c, v) ==
    /\ mdl.status # "deleted"
    /\ ver[v] = "absent"
    /\ Begin(c, "createVersion", "lockModel", v)
    /\ UNCHANGED <<mdl, ver, ref>>

\* Mutant of CreateVersion: the parent is looked at without a lock.
CreateVersionUnlocked(c) ==
    LET v == txn[c].version IN
    /\ In(c, "createVersion", "lockModel")
    /\ IF ver[v] = "absent"
       THEN ver' = [ver EXCEPT ![v] = "pending"]
       ELSE UNCHANGED ver
    /\ End(c)
    /\ UNCHANGED <<mdl, ref>>

\* A version number that was taken meanwhile is a unique violation.
CreateVersion(c) ==
    LET v == txn[c].version IN
    /\ In(c, "createVersion", "lockModel")
    /\ Grantable(c, TheModel, "keyShare")
    /\ IF mdl.status # "deleted" /\ ver[v] = "absent"
       THEN ver' = [ver EXCEPT ![v] = "pending"]
       ELSE UNCHANGED ver
    /\ End(c)
    /\ UNCHANGED <<mdl, ref>>

\* A trained artifact is completed on an existing model: it locks the model
\* FOR UPDATE, and version and model become ready in the same transaction.
CompleteRegistration(c, v) ==
    /\ txn[c].op = "none"
    /\ Grantable(c, TheModel, "update")
    /\ mdl.status # "deleted"
    /\ ver[v] = "absent"
    /\ ver' = [ver EXCEPT ![v] = "ready"]
    /\ BecomesModel("ready")
    /\ UNCHANGED <<txn, ref>>

\* RetryFailed resets the version of a failed task.
ResetVersion(c, v) ==
    /\ txn[c].op = "none"
    /\ Grantable(c, v, "noKeyUpdate")
    /\ ver[v] = "error"
    /\ ver' = [ver EXCEPT ![v] = "pending"]
    /\ UNCHANGED <<mdl, txn, ref>>

-----------------------------------------------------------------------------
\* MarkReady and MarkErrorAndMaybeModel: first the version, then the model.

\* The snapshot of MarkModelVersionReady also covers the model's status.
BeginMarkReady(c, v) ==
    /\ ver[v] = "pending"
    /\ mdl.status # "deleted"
    /\ Begin(c, "markReady", "lockVersion", v)
    /\ UNCHANGED <<mdl, ver, ref>>

\* The caller's task is leased; the statement looks at task and version only.
BeginMarkError(c, v) ==
    /\ ver[v] = "pending"
    /\ Begin(c, "markError", "lockVersion", v)
    /\ UNCHANGED <<mdl, ver, ref>>

\* Mutant of UpdateVersion: the row is not looked at again after the wait.
UpdateVersionBlindly(c) ==
    /\ txn[c].op \in Finalizations
    /\ txn[c].stage = "lockVersion"
    /\ Grantable(c, txn[c].version, "noKeyUpdate")
    /\ Advance(c, "lockModel")
    /\ UNCHANGED <<mdl, ver, ref>>

\* UPDATE of the version, whose status is looked at again after the wait.
UpdateVersion(c) ==
    /\ txn[c].op \in Finalizations
    /\ txn[c].stage = "lockVersion"
    /\ Grantable(c, txn[c].version, "noKeyUpdate")
    /\ IF ver[txn[c].version] = "pending" THEN Advance(c, "lockModel") ELSE End(c)
    /\ UNCHANGED <<mdl, ver, ref>>

\* The outer UPDATE of MarkModelVersionReady, which has no condition on the
\* model's status, and the commit.
MarkReady(c) ==
    /\ In(c, "markReady", "lockModel")
    /\ Grantable(c, TheModel, "noKeyUpdate")
    /\ ver' = [ver EXCEPT ![txn[c].version] = "ready"]
    /\ BecomesModel("ready")
    /\ End(c)
    /\ UNCHANGED ref

\* Mutant of ModelFails: one failed version is enough.
ModelFailsWithVersion == mdl.status # "deleted"

\* WHERE clause of MarkModelErrorIfNoReady, on a snapshot taken after the model
\* was locked.
ModelFails ==
    /\ mdl.status \in {"pending", "error"}
    /\ \A v \in Versions : ver[v] # "ready"

MarkErrorAndMaybeModel(c) ==
    /\ In(c, "markError", "lockModel")
    /\ Grantable(c, TheModel, "update")
    /\ ver' = [ver EXCEPT ![txn[c].version] = "error"]
    /\ IF ModelFails THEN BecomesModel("error") ELSE UNCHANGED mdl
    /\ End(c)
    /\ UNCHANGED ref

-----------------------------------------------------------------------------
\* DeleteModel and DeleteVersion: model, then version, then the remote check.

BeginDeleteModel(c) ==
    /\ Begin(c, "deleteModel", "lockModel", NoVersion)
    /\ UNCHANGED <<mdl, ver, ref>>

BeginDeleteVersion(c, v) ==
    /\ ver[v] # "absent"
    /\ Begin(c, "deleteVersion", "lockModel", v)
    /\ UNCHANGED <<mdl, ver, ref>>

\* A model that is deleted already ends the call with success.
LockModelForDeletion(c) ==
    /\ txn[c].op \in Deletions
    /\ txn[c].stage = "lockModel"
    /\ Grantable(c, TheModel, "update")
    /\ IF txn[c].op = "deleteVersion" THEN Advance(c, "lockVersion")
       ELSE IF mdl.status = "deleted" THEN End(c)
       ELSE Advance(c, "check")
    /\ UNCHANGED <<mdl, ver, ref>>

LockVersionForDeletion(c) ==
    /\ In(c, "deleteVersion", "lockVersion")
    /\ Grantable(c, txn[c].version, "update")
    /\ IF mdl.status = "deleted" \/ ver[txn[c].version] = "deleted"
       THEN End(c)
       ELSE Advance(c, "check")
    /\ UNCHANGED <<mdl, ver, ref>>

\* The versions whose references are asked for.
Selected(c) ==
    IF txn[c].op = "deleteVersion" THEN {txn[c].version}
    ELSE {v \in Versions : ver[v] # "absent"}

\* Every reference counts until it is released.  With one the call ends
\* (ErrModelInUse).
CheckReferences(c) ==
    /\ txn[c].stage = "check"
    /\ IF \E r \in Requests : ref[r].version \in Selected(c)
       THEN End(c)
       ELSE Advance(c, "delete")
    /\ UNCHANGED <<mdl, ver, ref>>

DeleteModel(c) ==
    /\ In(c, "deleteModel", "delete")
    /\ mdl' = [status |-> "deleted", deletedAt |-> TRUE]
    /\ End(c)
    /\ UNCHANGED <<ver, ref>>

DeleteVersion(c) ==
    /\ In(c, "deleteVersion", "delete")
    /\ ver' = [ver EXCEPT ![txn[c].version] = "deleted"]
    /\ End(c)
    /\ UNCHANGED <<mdl, ref>>

\* Mutant of Expire: the remote check is not covered by the deadline.
ExpireUnlessChecking(c) ==
    /\ txn[c].op \in Deletions
    /\ txn[c].stage # "check"
    /\ End(c)
    /\ UNCHANGED <<mdl, ver, ref>>

\* A deletion that takes more than 10 seconds is rolled back.
Expire(c) ==
    /\ txn[c].op \in Deletions
    /\ End(c)
    /\ UNCHANGED <<mdl, ver, ref>>

-----------------------------------------------------------------------------
\* The inference service.

CommitReference(r, v) ==
    /\ ref[r].state = "none"
    /\ ver[v] # "absent"
    /\ ref' = [ref EXCEPT ![r] = [state |-> "committed", version |-> v]]
    /\ UNCHANGED <<mdl, ver, txn>>

\* GetReadyModelVersion: FOR SHARE OF m, v.
BeginRead(r) ==
    LET v == ref[r].version IN
    /\ ref[r].state = "committed"
    /\ txn[r].op = "none"
    /\ IF ver[v] = "ready" /\ mdl.status # "deleted"
       THEN Begin(r, "read", "lockModel", v) /\ UNCHANGED ref
       ELSE BecomesRef(r, "refused") /\ UNCHANGED txn
    /\ UNCHANGED <<mdl, ver>>

LockModelForRead(r) ==
    /\ In(r, "read", "lockModel")
    /\ Grantable(r, TheModel, "share")
    /\ Advance(r, "lockVersion")
    /\ UNCHANGED <<mdl, ver, ref>>

\* The conditions are evaluated again on the locked rows.
ReadReady(r) ==
    LET v == txn[r].version IN
    /\ In(r, "read", "lockVersion")
    /\ Grantable(r, v, "share")
    /\ BecomesRef(r, IF ver[v] = "ready" /\ mdl.status # "deleted"
                     THEN "validated" ELSE "refused")
    /\ End(r)
    /\ UNCHANGED <<mdl, ver>>

\* The instance is gone for good, and its reference with it.
ReleaseReference(r) ==
    /\ ref[r].state \in {"validated", "refused"}
    /\ ref' = [ref EXCEPT ![r] = NoRef]
    /\ UNCHANGED <<mdl, ver, txn>>

-----------------------------------------------------------------------------
\* A transaction is rolled back: its connection is lost, its caller gives up,
\* or PostgreSQL picks it to break a deadlock.
Abandon(x) ==
    /\ txn[x].op # "none"
    /\ End(x)
    /\ UNCHANGED <<mdl, ver, ref>>

\* What PostgreSQL does for a transaction by itself, in the order in which it
\* asks for locks.
Proceed(x) ==
    \/ CreateVersion(x)
    \/ UpdateVersion(x)
    \/ MarkReady(x)
    \/ MarkErrorAndMaybeModel(x)
    \/ LockModelForDeletion(x)
    \/ LockVersionForDeletion(x)
    \/ DeleteModel(x)
    \/ DeleteVersion(x)

Start(c) ==
    \/ BeginDeleteModel(c)
    \/ \E v \in Versions :
         \/ BeginCreateVersion(c, v)
         \/ CompleteRegistration(c, v)
         \/ ResetVersion(c, v)
         \/ BeginMarkReady(c, v)
         \/ BeginMarkError(c, v)
         \/ BeginDeleteVersion(c, v)

Read(r) == LockModelForRead(r) \/ ReadReady(r)

Infer(r) ==
    \/ \E v \in Versions : CommitReference(r, v)
    \/ BeginRead(r)
    \/ Read(r)
    \/ ReleaseReference(r)

Next ==
    \/ \E c \in Calls : Start(c) \/ Proceed(c) \/ CheckReferences(c) \/ Expire(c)
    \/ \E r \in Requests : Infer(r)
    \/ \E x \in Txns : Abandon(x)

Spec == Init /\ [][Next]_vars

(***************************************************************************)
(* PostgreSQL serves the transactions that wait for a lock in turn, and    *)
(* the deadline of a deletion passes.  Nothing is assumed of the inference *)
(* service: it may never answer CheckReferences.                           *)
(***************************************************************************)
Fairness ==
    /\ \A c \in Calls : SF_vars(Proceed(c)) /\ WF_vars(Expire(c))
    /\ \A r \in Requests : SF_vars(Read(r))

FairSpec == Spec /\ Fairness

-----------------------------------------------------------------------------
\* Properties.

\* What an inference request was allowed to use is not deleted, neither the
\* version nor its model (deleteProtected, deletion_store.go:66-135): a read
\* that passed the check is kept out by the locks.
InUse ==
    \A r \in Requests : ref[r].state = "validated" =>
        /\ mdl.status # "deleted"
        /\ ver[ref[r].version] # "deleted"

\* The model's status aggregates its versions: with a ready version it is
\* ready, unless it is deleted, whatever finalization of another version
\* MarkErrorAndMaybeModel (version_store.go:268-280) raced with.
Aggregate ==
    (\E v \in Versions : ver[v] = "ready") => mdl.status \in {"ready", "deleted"}

\* No version appears under a deleted model (CreateModelVersion, model.sql:102,
\* locks its parent).
NoNewVersionWhenDeleted ==
    [][\A v \in Versions : ver[v] = "absent" /\ ver'[v] # "absent"
          => mdl.status # "deleted"]_vars

\* A deleted version stays deleted and a ready one is only ever deleted, also
\* by a finalization that waited for the lock of its deletion
\* (MarkModelVersionReady and MarkModelVersionErrorForTask, model.sql:117-160).
VersionFinal ==
    [][\A v \in Versions :
          /\ ver[v] = "deleted" => ver'[v] = "deleted"
          /\ ver[v] = "ready" => ver'[v] \in {"ready", "deleted"}]_vars

\* Every transaction ends, although deletions and finalizations lock model and
\* version in opposite orders and the inference service may never answer
\* (deletion_store.go:39).
TransactionsEnd == \A x \in Txns : txn[x].op # "none" ~> txn[x].op = "none"

\* What docs/superpowers/plans/2026-09-17-ai-services-functional-completion.md:42
\* says of requests that commit their reference after the check of a deletion:
\* their read finds the model deleted.  MarkReady may have made it ready again.
NoReadAfterDeletion ==
    [][\A r \in Requests : ref[r].state # "validated" /\ ref'[r].state = "validated"
          => ~mdl.deletedAt]_vars

-----------------------------------------------------------------------------
\* The inductive invariant behind the safety properties.

\* Locks that conflict are never held together.
LockExclusion ==
    \A x, y \in Txns : \A object \in Objects : \A m1, m2 \in LockModes :
        x # y /\ Holds(x, object, m1) /\ Holds(y, object, m2)
            => m1 \notin ConflictsWith[m2]

\* What follows from the place of a transaction.
TxnJustified ==
    \A x \in Txns :
        /\ txn[x].op \notin {"none", "deleteModel"} => txn[x].version \in Versions
        /\ txn[x].op = "deleteVersion" => ver[txn[x].version] # "absent"
        /\ txn[x].stage \in {"check", "delete"} => txn[x].op \in Deletions
        /\ txn[x].op \in Finalizations /\ txn[x].stage = "lockModel"
              => ver[txn[x].version] = "pending"
        /\ txn[x].op = "read" => /\ x \in Requests
                                 /\ ref[x].state = "committed"
                                 /\ ref[x].version = txn[x].version

\* Between its check and its commit nobody is validated for what a deletion
\* selected.
Unreferenced ==
    \A x \in Txns : txn[x].stage = "delete" =>
        \A r \in Requests :
            ref[r].state = "validated" => ref[r].version \notin Selected(x)

Referenced ==
    \A r \in Requests :
        /\ ref[r].state # "none" => ref[r].version \in Versions
        /\ ref[r].state = "validated" => ver[ref[r].version] # "absent"

IInv ==
    /\ TypeOK
    /\ LockExclusion
    /\ TxnJustified
    /\ Unreferenced
    /\ Referenced
    /\ InUse
    /\ Aggregate
=============================================================================
