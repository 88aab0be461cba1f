------------------------ MODULE TrainedRegistration ------------------------
(***************************************************************************)
(* Registrations of trained artifacts: Prepare hands out an address for    *)
(* the upload, Complete checks the object and makes a ready version,       *)
(* Abort gives up (internal/service/trained_artifact.go over               *)
(* internal/data/postgres/trained_artifact_store.go).                      *)
(*                                                                         *)
(* A call on connection c is a few steps, one per statement, object store  *)
(* request or contended row lock.  The transaction of Complete locks the   *)
(* registration and then the model; its writes become visible with its     *)
(* commit.                                                                 *)
(*                                                                         *)
(* An idempotency key has one registration (UNIQUE in migration 000008),   *)
(* which is named by the key here.  All registrations ask for the same     *)
(* label and, when they make a model, for the same name: the cases that    *)
(* compete.                                                                *)
(***************************************************************************)
EXTENDS Naturals

CONSTANTS
    Regs,       \* registrations, each with its idempotency key and path
    NoReg,      \* no registration
    Existing,   \* a model that is in the catalog from the start
    Named,      \* the model with the name the registrations ask for
    NoModel,    \* no model: the target of a registration that makes one
    Calls,      \* connections on which the service runs calls
    Contents,   \* what clients upload
    Right,      \* the content with the declared size and checksum
    MaxLost     \* bounds the calls that end where they are

ASSUME TrainedRegistrationAssumption ==
    /\ NoReg \notin Regs
    /\ Existing # Named
    /\ NoModel \notin {Existing, Named}
    /\ "none" \notin Contents
    /\ MaxLost \in Nat

VARIABLES
    reg,      \* reg[r]: the row of registration r
    mdl,      \* mdl[m]: whether the model is in the catalog
    ver,      \* ver[m]: who made the version of m with the label in question
    object,   \* object[r]: what is stored at the path of r
    url,      \* url[r]: whether an upload address for the path has been signed
    call,     \* call[c]: where the call on connection c is
    lost      \* calls that ended where they were

vars == <<reg, mdl, ver, object, url, call, lost>>
catalog == <<mdl, ver>>
storage == <<object, url>>

Models == {Existing, Named}

Open == {"pending", "uploaded"}
Terminal == {"ready", "failed", "aborted"}

\* "insert", "sign": Prepare.  "exists" to "begin": Complete up to its
\* transaction.  "model", "commit": in it.  "undo": its statement failed.
\* "fail": about to mark the registration failed.
Stages == {"none", "insert", "sign", "exists", "verify", "mark", "recheck",
           "begin", "model", "commit", "undo", "fail"}

Registration == [status : {"absent"} \cup Open \cup Terminal,
                 target : Models \cup {NoModel},
                 model  : Models \cup {NoModel}]

Call == [stage  : Stages,
         reg    : Regs \cup {NoReg},
         target : Models \cup {NoModel}]

Makers == Regs \cup {NoReg}

TypeOK ==
    /\ reg \in [Regs -> Registration]
    /\ mdl \in [Models -> {"absent", "present", "deleted"}]
    /\ ver \in [Models -> Makers]
    /\ object \in [Regs -> {"none"} \cup Contents]
    /\ url \in [Regs -> BOOLEAN]
    /\ call \in [Calls -> Call]
    /\ \A c \in Calls : call[c].stage # "none" => call[c].reg \in Regs
    /\ lost \in 0..MaxLost

NoCall == [stage |-> "none", reg |-> NoReg, target |-> NoModel]

Init ==
    /\ reg = [r \in Regs |-> [status |-> "absent", target |-> NoModel, model |-> NoModel]]
    /\ mdl = [m \in Models |-> IF m = Existing THEN "present" ELSE "absent"]
    /\ ver = [m \in Models |-> NoReg]
    /\ object = [r \in Regs |-> "none"]
    /\ url = [r \in Regs |-> FALSE]
    /\ call = [c \in Calls |-> NoCall]
    /\ lost = 0

-----------------------------------------------------------------------------
\* Stages and locks of a call.

Goto(c, stage) ==
    call' = [call EXCEPT ![c] = [stage |-> stage, reg |-> call[c].reg, target |-> call[c].target]]

End(c) == call' = [call EXCEPT ![c] = NoCall]

Becomes(r, status) ==
    reg' = [reg EXCEPT ![r] = [status |-> status, target |-> reg[r].target, model |-> reg[r].model]]

\* The model Complete puts the version of registration r under.
Destination(r) == IF reg[r].target = NoModel THEN Named ELSE reg[r].target

\* Mutant of HoldsReg: Fail runs before the transaction is rolled back.
HoldsRegToEnd(c, r) ==
    call[c].stage \in {"model", "commit", "undo", "fail"} /\ call[c].reg = r

\* The transaction of c has the row of the registration FOR UPDATE.
HoldsReg(c, r) ==
    call[c].stage \in {"model", "commit", "undo"} /\ call[c].reg = r

\* Mutant of HoldsModel: the target is looked up without FOR UPDATE.
HoldsNoModel(c, m) == FALSE

\* The transaction of c has the row of the model FOR UPDATE or has inserted it.
\* One that failed on the model itself is counted as if it had.
HoldsModel(c, m) ==
    /\ call[c].stage \in {"commit", "undo"}
    /\ Destination(call[c].reg) = m

RegFree(r) == \A c \in Calls : ~HoldsReg(c, r)
ModelFree(m) == \A c \in Calls : ~HoldsModel(c, m)

-----------------------------------------------------------------------------
\* Prepare and GetTrainedArtifactUploadURL.

\* The target must resolve to a model that is not deleted.
BeginPrepare(c, r, m) ==
    /\ call[c].stage = "none"
    /\ m # NoModel => mdl[m] = "present"
    /\ call' = [call EXCEPT ![c] = [stage |-> "insert", reg |-> r, target |-> m]]
    /\ UNCHANGED <<reg, catalog, storage, lost>>

\* The insert, or the registration the key has already.  A different request
\* for the key is refused.  The foreign key waits for a lock on the target.
Insert(c) ==
    LET r == call[c].reg
        m == call[c].target IN
    /\ call[c].stage = "insert"
    /\ \/ /\ reg[r].status = "absent"
          /\ m # NoModel => ModelFree(m)
          /\ reg' = [reg EXCEPT ![r] = [status |-> "pending", target |-> m, model |-> NoModel]]
          /\ Goto(c, "sign")
       \/ /\ reg[r].status # "absent"
          /\ IF reg[r].target = m THEN Goto(c, "sign") ELSE End(c)
          /\ UNCHANGED reg
    /\ UNCHANGED <<catalog, storage, lost>>

\* GetTrainedArtifactUploadURL, which looks at the status as Prepare does not.
BeginUploadURL(c, r) ==
    /\ call[c].stage = "none"
    /\ reg[r].status = "pending"
    /\ call' = [call EXCEPT ![c] = [stage |-> "sign", reg |-> r, target |-> NoModel]]
    /\ UNCHANGED <<reg, catalog, storage, lost>>

\* A presigned PUT for the path, bound to neither size nor checksum.
CreateUploadURL(c) ==
    /\ call[c].stage = "sign"
    /\ url' = [url EXCEPT ![call[c].reg] = TRUE]
    /\ End(c)
    /\ UNCHANGED <<reg, catalog, object, lost>>

-----------------------------------------------------------------------------
\* The client and the object store.

\* An address that has expired is one that is not used any more.
Upload(r, content) ==
    /\ url[r]
    /\ object' = [object EXCEPT ![r] = content]
    /\ UNCHANGED <<reg, catalog, url, call, lost>>

-----------------------------------------------------------------------------
\* Complete up to its transaction.

\* A ready registration is answered with its receipt, one that does not exist
\* with an error; neither changes anything.
BeginComplete(c, r) ==
    /\ call[c].stage = "none"
    /\ reg[r].status \notin {"absent", "ready"}
    /\ call' = [call EXCEPT ![c] = [stage |-> "exists", reg |-> r, target |-> NoModel]]
    /\ UNCHANGED <<reg, catalog, storage, lost>>

ObjectExists(c) ==
    /\ call[c].stage = "exists"
    /\ Goto(c, IF object[call[c].reg] = "none" THEN "fail" ELSE "verify")
    /\ UNCHANGED <<reg, catalog, storage, lost>>

VerifyObject(c) ==
    /\ call[c].stage = "verify"
    /\ Goto(c, IF object[call[c].reg] = Right THEN "mark" ELSE "fail")
    /\ UNCHANGED <<reg, catalog, storage, lost>>

\* Mutant of MarkUploaded: the update does not ask for a pending registration.
MarkUploadedAgain(c) ==
    /\ call[c].stage = "mark"
    /\ RegFree(call[c].reg)
    /\ Becomes(call[c].reg, "uploaded")
    /\ Goto(c, "begin")
    /\ UNCHANGED <<catalog, storage, lost>>

MarkUploaded(c) ==
    LET r == call[c].reg IN
    /\ call[c].stage = "mark"
    /\ \/ /\ reg[r].status = "pending"
          /\ RegFree(r)
          /\ Becomes(r, "uploaded")
          /\ Goto(c, "begin")
       \/ /\ reg[r].status # "pending"
          /\ Goto(c, "recheck")
          /\ UNCHANGED reg
    /\ UNCHANGED <<catalog, storage, lost>>

\* MarkUploaded changed no row and reads what the status is.
Recheck(c) ==
    /\ call[c].stage = "recheck"
    /\ IF reg[call[c].reg].status \in {"uploaded", "ready"} THEN Goto(c, "begin") ELSE End(c)
    /\ UNCHANGED <<reg, catalog, storage, lost>>

-----------------------------------------------------------------------------
\* The transaction of Complete.


LockRegistration(c) ==
    LET status == reg[call[c].reg].status IN
    /\ call[c].stage = "begin"
    /\ RegFree(call[c].reg)
    /\ \/ status = "ready" /\ End(c)
       \/ status \in {"failed", "aborted"} /\ Goto(c, "undo")
       \/ status \in Open /\ Goto(c, "model")
    /\ UNCHANGED <<reg, catalog, storage, lost>>

\* A target is locked if it is not deleted.  A new model is inserted; another
\* insert of the name is waited for, a row with the name is a conflict.
LockModel(c) ==
    LET m == Destination(call[c].reg)
        needed == IF reg[call[c].reg].target = NoModel THEN "absent" ELSE "present" IN
    /\ call[c].stage = "model"
    /\ ModelFree(m)
    /\ Goto(c, IF mdl[m] = needed THEN "commit" ELSE "undo")
    /\ UNCHANGED <<reg, catalog, storage, lost>>

\* Version, artifact, the status of version and model and the receipt become
\* visible together.
Publish(r) ==
    LET m == Destination(r) IN
    /\ ver[m] = NoReg
    /\ reg' = [reg EXCEPT ![r] = [status |-> "ready", target |-> reg[r].target, model |-> m]]
    /\ mdl' = [mdl EXCEPT ![m] = "present"]
    /\ ver' = [ver EXCEPT ![m] = r]

Commit(c) ==
    /\ call[c].stage = "commit"
    /\ Publish(call[c].reg)
    /\ End(c)
    /\ UNCHANGED <<storage, lost>>

\* The commit happens and its answer is lost: to the code that is an error.
CommitUnanswered(c) ==
    /\ call[c].stage = "commit"
    /\ Publish(call[c].reg)
    /\ Goto(c, "fail")
    /\ UNCHANGED <<storage, lost>>

\* UNIQUE (tenant_id, model_id, version).
Conflict(c) ==
    /\ call[c].stage = "commit"
    /\ ver[Destination(call[c].reg)] # NoReg
    /\ Goto(c, "undo")
    /\ UNCHANGED <<reg, catalog, storage, lost>>

\* Any other error of a statement of the transaction, or the context cancelled,
\* also while it waits for a lock.
StatementFails(c) ==
    /\ \/ call[c].stage = "begin" /\ Goto(c, "fail")
       \/ call[c].stage \in {"model", "commit"} /\ Goto(c, "undo")
    /\ UNCHANGED <<reg, catalog, storage, lost>>

\* Mutant of Rollback: nothing records that the registration failed.
RollbackOnly(c) ==
    /\ call[c].stage = "undo"
    /\ End(c)
    /\ UNCHANGED <<reg, catalog, storage, lost>>

Rollback(c) ==
    /\ call[c].stage = "undo"
    /\ Goto(c, "fail")
    /\ UNCHANGED <<reg, catalog, storage, lost>>

-----------------------------------------------------------------------------
\* Giving up.

\* Mutant of Fail: whatever the status is.
FailAnyStatus(c) ==
    LET r == call[c].reg IN
    /\ call[c].stage = "fail"
    /\ RegFree(r)
    /\ Becomes(r, "failed")
    /\ End(c)
    /\ UNCHANGED <<catalog, storage, lost>>

\* A statement of its own, on another connection than the transaction.
Fail(c) ==
    LET r == call[c].reg IN
    /\ call[c].stage = "fail"
    /\ \/ /\ reg[r].status \in Open
          /\ RegFree(r)
          /\ Becomes(r, "failed")
       \/ /\ reg[r].status \notin Open
          /\ UNCHANGED reg
    /\ End(c)
    /\ UNCHANGED <<catalog, storage, lost>>

Abort(r) ==
    /\ reg[r].status \in Open
    /\ RegFree(r)
    /\ Becomes(r, "aborted")
    /\ UNCHANGED <<catalog, storage, call, lost>>

\* The process ends, or an error the code only reports or drops: of the object
\* store, of MarkUploaded, of BeginTx, of Fail.
Lose(c) ==
    /\ call[c].stage # "none"
    /\ lost < MaxLost
    /\ End(c)
    /\ lost' = lost + 1
    /\ UNCHANGED <<reg, catalog, storage>>

-----------------------------------------------------------------------------
\* DeleteModel (module Catalog), which takes the model FOR UPDATE.

DeleteModel(m) ==
    /\ mdl[m] = "present"
    /\ ModelFree(m)
    /\ mdl' = [mdl EXCEPT ![m] = "deleted"]
    /\ UNCHANGED <<reg, ver, storage, call, lost>>

-----------------------------------------------------------------------------
Step(c) ==
    \/ Insert(c) \/ CreateUploadURL(c)
    \/ ObjectExists(c) \/ VerifyObject(c) \/ MarkUploaded(c) \/ Recheck(c)
    \/ LockRegistration(c) \/ LockModel(c) \/ Commit(c) \/ Conflict(c)
    \/ Rollback(c) \/ Fail(c)

Error(c) == CommitUnanswered(c) \/ StatementFails(c) \/ Lose(c)

Begin(c) == \E r \in Regs :
    \/ \E m \in Models \cup {NoModel} : BeginPrepare(c, r, m)
    \/ BeginUploadURL(c, r)
    \/ BeginComplete(c, r)

Outside ==
    \/ \E r \in Regs : Abort(r) \/ \E content \in Contents : Upload(r, content)
    \/ \E m \in Models : DeleteModel(m)

Next ==
    \/ \E c \in Calls : Step(c) \/ Error(c) \/ Begin(c)
    \/ Outside

Spec == Init /\ [][Next]_vars

\* A call in progress goes on.  Errors need not happen and nobody has to call.
FairSpec == Spec /\ \A c \in Calls : WF_vars(Step(c))

-----------------------------------------------------------------------------
\* Safety.

\* A registration is in the hands of one transaction, and so is a model that is
\* about to get its version (FOR UPDATE, trained_artifact_store.go:152, 171;
\* UNIQUE (tenant_id, name) for a new model, 168).
OneHolder ==
    /\ \A c, d \in Calls, r \in Regs : HoldsReg(c, r) /\ HoldsReg(d, r) => c = d
    /\ \A c, d \in Calls :
        /\ call[c].stage = "commit"
        /\ call[d].stage = "commit"
        /\ Destination(call[c].reg) = Destination(call[d].reg)
        => c = d

\* Until its transaction ends, what it read stays true: the registration can
\* still be completed, the target is not deleted, the name is not taken
\* (trained_artifact_store.go:152-175).
StillTrue == \A c \in Calls :
    LET r == call[c].reg IN
    /\ call[c].stage \in {"model", "commit"} => reg[r].status \in Open
    /\ call[c].stage = "commit" =>
        mdl[Destination(r)] = (IF reg[r].target = NoModel THEN "absent" ELSE "present")

\* A registration is ready exactly when it has made a version, one, under the
\* model its receipt names; a failed or aborted registration has made none,
\* whatever Complete was told of its commit (trained_artifact_store.go:136-202).
ReceiptBacked ==
    /\ \A r \in Regs : reg[r].status = "ready" =>
        reg[r].model \in Models /\ ver[reg[r].model] = r
    /\ \A m \in Models : ver[m] \in Regs =>
        reg[ver[m]].status = "ready" /\ reg[ver[m]].model = m

\* A row that can be completed has been inserted (Prepare, 29-78), and whoever
\* works on a registration works on one that is there.
Inserted == \A c \in Calls :
    call[c].stage \in Stages \ {"none", "insert"} => reg[call[c].reg].status # "absent"

\* A registration whose object has been verified is in the hands of a call that
\* will decide it, unless a call was lost: no error of the transaction leaves it
\* half done (the deferred Fail, trained_artifact_store.go:145-150).
InHand == \A r \in Regs :
    reg[r].status = "uploaded" /\ lost = 0 =>
        \E c \in Calls :
            /\ call[c].reg = r
            /\ call[c].stage \in {"begin", "model", "commit", "undo", "fail"}

\* The inductive invariant.
IInv == TypeOK /\ OneHolder /\ StillTrue /\ ReceiptBacked /\ Inserted /\ InHand

-----------------------------------------------------------------------------
\* Action properties.

\* The end of a registration is final: a ready one keeps its receipt, a failed or
\* aborted one is never taken up again, by no late MarkUploaded, Complete, Fail
\* or Abort (trained_artifact_store.go:117-119, 158-163, 204-218).
OutcomeFinal == [][\A r \in Regs : reg[r].status \in Terminal => reg'[r] = reg[r]]_vars

\* No registration makes a version under a model that has been deleted, also
\* when the deletion comes while Complete runs (trained_artifact_store.go:171).
NoVersionUnderDeleted ==
    [][\A m \in Models : ver'[m] # ver[m] /\ ver'[m] \in Regs => mdl[m] # "deleted"]_vars

-----------------------------------------------------------------------------
\* Liveness.

\* Every call ends: nobody waits for ever for the row of a registration or of a
\* model, and Fail does not wait for its own transaction
\* (trained_artifact_store.go:145-150, 204-211).
CallsEnd == \A c \in Calls : call[c].stage # "none" ~> call[c].stage = "none"
-----------------------------------------------------------------------------
\* Calls, locks, retries and lost answers leave of a registration what
\* ArtifactOutcome says of it: Complete decides it at its commit and as if nobody
\* else had touched registration or model since it was looked at
\* (trained_artifact_store.go:136-218).
Outcome == INSTANCE ArtifactOutcome WITH
    status <- [r \in Regs |-> reg[r].status],
    target <- [r \in Regs |-> reg[r].target],
    receipt <- [r \in Regs |-> reg[r].model],
    catalog <- mdl,
    version <- ver

ImplementsOutcome == Outcome!Spec
=============================================================================
