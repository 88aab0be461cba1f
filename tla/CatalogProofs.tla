---------------------------- MODULE CatalogProofs ----------------------------
(***************************************************************************)
(* Proofs of the safety properties of Catalog, for any number of versions, *)
(* connections and inference requests.                                     *)
(***************************************************************************)
EXTENDS Catalog, Naturals, TLAPS

\* Two modes conflict in both directions.
LEMMA ConflictsSymmetric ==
    ASSUME NEW m1 \in LockModes, NEW m2 \in LockModes
    PROVE  m1 \in ConflictsWith[m2] <=> m2 \in ConflictsWith[m1]
  BY DEF ConflictsWith, LockModes

\* What the three ways to write a transaction's place do.
LEMMA Placing ==
    ASSUME TypeOK, NEW x \in Txns
    PROVE  /\ \A op \in Ops, stage \in Stages, v \in Versions \cup {NoVersion} :
                 Begin(x, op, stage, v) =>
                    /\ txn' \in [Txns -> Txn]
                    /\ txn'[x].op = op /\ txn'[x].stage = stage /\ txn'[x].version = v
                    /\ \A y \in Txns \ {x} : txn'[y] = txn[y]
           /\ \A stage \in Stages :
                 Advance(x, stage) =>
                    /\ txn' \in [Txns -> Txn]
                    /\ txn'[x].op = txn[x].op /\ txn'[x].stage = stage
                    /\ txn'[x].version = txn[x].version
                    /\ \A y \in Txns \ {x} : txn'[y] = txn[y]
           /\ End(x) =>
                    /\ txn' \in [Txns -> Txn]
                    /\ txn'[x].op = "none" /\ txn'[x].stage = "none"
                    /\ txn'[x].version = NoVersion
                    /\ \A y \in Txns \ {x} : txn'[y] = txn[y]
  BY DEF TypeOK, Begin, Advance, End, NoTxn, Txn, Ops, Stages

LEMMA InitTyped == Init => TypeOK
  BY DEF Init, TypeOK, Model, Txn, Reference, ModelStatus, VersionStatus, Ops, Stages,
         NoTxn, NoRef, Deletions, Finalizations

\* Every step keeps the types.
LEMMA TypePreserved ==
    ASSUME TypeOK, TxnJustified, Referenced, Next
    PROVE  TypeOK'
<1>1. ASSUME NEW c \in Calls, Start(c) PROVE TypeOK'
  <2>1. c \in Txns
    BY DEF Txns
  <2>2. CASE BeginDeleteModel(c)
    BY <2>1, <2>2, Placing DEF BeginDeleteModel, TypeOK, Ops, Stages, Deletions
  <2>3. ASSUME NEW v \in Versions,
               \/ BeginCreateVersion(c, v) \/ BeginMarkReady(c, v)
               \/ BeginMarkError(c, v) \/ BeginDeleteVersion(c, v)
        PROVE  TypeOK'
    BY <2>1, <2>3, Placing DEF BeginCreateVersion, BeginMarkReady, BeginMarkError,
       BeginDeleteVersion, TypeOK, Ops, Stages, Deletions, Finalizations
  <2>4. ASSUME NEW v \in Versions, CompleteRegistration(c, v) \/ ResetVersion(c, v)
        PROVE  TypeOK'
    BY <2>4 DEF CompleteRegistration, ResetVersion, BecomesModel, TypeOK, Model,
       ModelStatus, VersionStatus
  <2> QED
    BY <1>1, <2>2, <2>3, <2>4 DEF Start
<1>2. ASSUME NEW c \in Calls, Proceed(c) \/ CheckReferences(c) \/ Expire(c) PROVE TypeOK'
  <2>1. c \in Txns
    BY DEF Txns
  <2>2. CASE CreateVersion(c) \/ DeleteVersion(c)
    BY <2>1, <2>2, Placing DEF CreateVersion, DeleteVersion, TypeOK, VersionStatus
  <2>3. CASE MarkReady(c)
    <3>1. mdl' \in Model
      BY <2>3 DEF MarkReady, BecomesModel, TypeOK, Model, ModelStatus
    <3>2. ver' \in [Versions -> VersionStatus]
      BY <2>3 DEF MarkReady, TypeOK, VersionStatus
    <3> QED
      BY <2>1, <2>3, <3>1, <3>2, Placing DEF MarkReady, TypeOK
  <2>6. CASE DeleteModel(c)
    BY <2>1, <2>6, Placing DEF DeleteModel, TypeOK, Model, ModelStatus
  <2>5. CASE MarkErrorAndMaybeModel(c)
    <3>1. mdl' \in Model
      BY <2>5 DEF MarkErrorAndMaybeModel, BecomesModel, TypeOK, Model, ModelStatus
    <3>2. ver' \in [Versions -> VersionStatus]
      BY <2>5 DEF MarkErrorAndMaybeModel, TypeOK, VersionStatus
    <3> QED
      BY <2>1, <2>5, <3>1, <3>2, Placing DEF MarkErrorAndMaybeModel, TypeOK
  <2>4. CASE UpdateVersion(c) \/ LockModelForDeletion(c) \/ LockVersionForDeletion(c)
             \/ CheckReferences(c) \/ Expire(c)
    BY <2>1, <2>4, Placing DEF UpdateVersion, LockModelForDeletion, LockVersionForDeletion,
       CheckReferences, Expire, TypeOK, Stages
  <2> QED
    BY <1>2, <2>2, <2>3, <2>4, <2>5, <2>6 DEF Proceed
<1>3. ASSUME NEW r \in Requests, Infer(r) PROVE TypeOK'
  <2>1. r \in Txns
    BY DEF Txns
  <2>2. ASSUME NEW v \in Versions, CommitReference(r, v) PROVE TypeOK'
    BY <2>2 DEF CommitReference, TypeOK, Reference
  <2>3. CASE BeginRead(r)
    <3>1. ref[r].version \in Versions \cup {NoVersion}
      BY DEF TypeOK, Reference
    <3> QED
      BY <2>1, <2>3, <3>1, Placing DEF BeginRead, BecomesRef, TypeOK, Reference, Ops, Stages
  <2>4. CASE LockModelForRead(r)
    BY <2>1, <2>4, Placing DEF LockModelForRead, TypeOK, Stages
  <2>5. CASE ReadReady(r)
    BY <2>1, <2>5, Placing DEF ReadReady, BecomesRef, TypeOK, Reference
  <2>6. CASE ReleaseReference(r)
    BY <2>6 DEF ReleaseReference, TypeOK, Reference, NoRef
  <2> QED
    BY <1>3, <2>2, <2>3, <2>4, <2>5, <2>6 DEF Infer, Read
<1>4. ASSUME NEW x \in Txns, Abandon(x) PROVE TypeOK'
  BY <1>4, Placing DEF Abandon, TypeOK
<1> QED
  BY <1>1, <1>2, <1>3, <1>4 DEF Next

-----------------------------------------------------------------------------
\* What a step may do to the place of transaction x, the only one that moves.
PlaceStep(x) ==
    /\ \A y \in Txns \ {x} : txn'[y] = txn[y]
    /\ \/ txn'[x] = txn[x]
       \/ txn'[x].op = "none" /\ txn'[x].stage = "none"
       \/ /\ txn[x].op = "none" /\ txn'[x].version = NoVersion
          /\ txn'[x].op = "deleteModel" /\ txn'[x].stage = "lockModel"
       \/ /\ txn[x].op = "none" /\ txn'[x].version \in Versions
          /\ \/ txn'[x].op = "createVersion" /\ txn'[x].stage = "lockModel"
             \/ /\ txn'[x].op = "deleteVersion" /\ txn'[x].stage = "lockModel"
                /\ UNCHANGED ver /\ ver[txn'[x].version] # "absent"
             \/ txn'[x].op \in Finalizations /\ txn'[x].stage = "lockVersion"
             \/ /\ x \in Requests /\ txn'[x].op = "read" /\ txn'[x].stage = "lockModel"
                /\ UNCHANGED <<ver, ref>> /\ ver[ref[x].version] = "ready"
                /\ ref[x].state = "committed" /\ txn'[x].version = ref[x].version
       \/ /\ txn'[x].op = txn[x].op /\ txn'[x].version = txn[x].version
          /\ UNCHANGED <<mdl, ver, ref>>
          /\ \/ /\ txn[x].op \in Finalizations /\ txn[x].stage = "lockVersion"
                /\ txn'[x].stage = "lockModel" /\ ver[txn[x].version] = "pending"
                /\ Grantable(x, txn[x].version, "noKeyUpdate")
             \/ /\ txn[x].op \in Deletions /\ txn[x].stage = "lockModel"
                /\ Grantable(x, TheModel, "update")
                /\ \/ txn[x].op = "deleteVersion" /\ txn'[x].stage = "lockVersion"
                   \/ txn[x].op = "deleteModel" /\ txn'[x].stage = "check"
             \/ /\ In(x, "deleteVersion", "lockVersion") /\ txn'[x].stage = "check"
                /\ Grantable(x, txn[x].version, "update")
             \/ /\ txn[x].stage = "check" /\ txn'[x].stage = "delete"
                /\ \A r \in Requests : ref[r].version \notin Selected(x)
             \/ /\ In(x, "read", "lockModel") /\ txn'[x].stage = "lockVersion"
                /\ Grantable(x, TheModel, "share")

LEMMA PlaceSteps ==
    ASSUME TypeOK, TxnJustified, Referenced, Next
    PROVE  \E x \in Txns : PlaceStep(x)
<1>1. ASSUME NEW c \in Calls, Start(c) PROVE PlaceStep(c)
  <2>1. c \in Txns
    BY DEF Txns
  <2>2. CASE BeginDeleteModel(c)
    BY <2>1, <2>2, Placing DEF BeginDeleteModel, Begin, PlaceStep, Ops, Stages, Deletions
  <2>3. ASSUME NEW v \in Versions,
               \/ BeginCreateVersion(c, v) \/ BeginMarkReady(c, v)
               \/ BeginMarkError(c, v) \/ BeginDeleteVersion(c, v)
        PROVE  PlaceStep(c)
    BY <2>1, <2>3, Placing DEF BeginCreateVersion, BeginMarkReady, BeginMarkError,
       BeginDeleteVersion, Begin, PlaceStep, Ops, Stages, Deletions, Finalizations
  <2>4. ASSUME NEW v \in Versions, CompleteRegistration(c, v) \/ ResetVersion(c, v)
        PROVE  PlaceStep(c)
    BY <2>4 DEF CompleteRegistration, ResetVersion, PlaceStep
  <2> QED
    BY <1>1, <2>2, <2>3, <2>4 DEF Start
<1>2. ASSUME NEW c \in Calls, Proceed(c) \/ CheckReferences(c) \/ Expire(c) PROVE PlaceStep(c)
  <2>1. c \in Txns
    BY DEF Txns
  <2>2. CASE CreateVersion(c) \/ DeleteVersion(c) \/ MarkReady(c) \/ MarkErrorAndMaybeModel(c)
             \/ DeleteModel(c) \/ Expire(c)
    BY <2>1, <2>2, Placing DEF CreateVersion, DeleteVersion, MarkReady,
       MarkErrorAndMaybeModel, DeleteModel, Expire, PlaceStep
  <2>3. CASE UpdateVersion(c)
    BY <2>1, <2>3, Placing DEF UpdateVersion, PlaceStep, Stages
  <2>4. CASE LockModelForDeletion(c)
    BY <2>1, <2>4, Placing DEF LockModelForDeletion, PlaceStep, Stages, Deletions
  <2>5. CASE LockVersionForDeletion(c)
    BY <2>1, <2>5, Placing DEF LockVersionForDeletion, In, PlaceStep, Stages
  <2>6. CASE CheckReferences(c)
    BY <2>1, <2>6, Placing DEF CheckReferences, PlaceStep, Stages
  <2> QED
    BY <1>2, <2>2, <2>3, <2>4, <2>5, <2>6 DEF Proceed
<1>3. ASSUME NEW r \in Requests, Infer(r) PROVE PlaceStep(r)
  <2>1. r \in Txns
    BY DEF Txns
  <2>2. ASSUME NEW v \in Versions, CommitReference(r, v) PROVE PlaceStep(r)
    BY <2>2 DEF CommitReference, PlaceStep
  <2>3. CASE BeginRead(r)
    BY <2>1, <2>3, Placing DEF BeginRead, Begin, PlaceStep, Referenced, Ops, Stages
  <2>4. CASE LockModelForRead(r)
    BY <2>1, <2>4, Placing DEF LockModelForRead, In, PlaceStep, Stages
  <2>5. CASE ReadReady(r)
    BY <2>1, <2>5, Placing DEF ReadReady, PlaceStep
  <2>6. CASE ReleaseReference(r)
    BY <2>6 DEF ReleaseReference, PlaceStep
  <2> QED
    BY <1>3, <2>2, <2>3, <2>4, <2>5, <2>6 DEF Infer, Read
<1>4. ASSUME NEW x \in Txns, Abandon(x) PROVE PlaceStep(x)
  BY <1>4, Placing DEF Abandon, PlaceStep
<1> QED
  BY <1>1, <1>2, <1>3, <1>4 DEF Next, Txns

\* A lock that x holds after its step it held before, or it was grantable.
LEMMA NewLocks ==
    ASSUME NEW x \in Txns, PlaceStep(x), NEW object \in Objects, NEW mode \in LockModes,
           Holds(x, object, mode)'
    PROVE  Holds(x, object, mode) \/ Grantable(x, object, mode)
  BY DEF PlaceStep, Holds, In, Deletions, Finalizations

LEMMA LockExclusionPreserved ==
    ASSUME TypeOK, TxnJustified, Referenced, LockExclusion, Next
    PROVE  LockExclusion'
<1> SUFFICES ASSUME NEW x \in Txns, NEW y \in Txns, NEW object \in Objects,
                    NEW m1 \in LockModes, NEW m2 \in LockModes,
                    x # y, Holds(x, object, m1)', Holds(y, object, m2)'
             PROVE  m1 \notin ConflictsWith[m2]
  BY DEF LockExclusion
<1>1. PICK z \in Txns : PlaceStep(z)
  BY PlaceSteps
<1>2. \A w \in Txns \ {z}, m \in LockModes : Holds(w, object, m)' => Holds(w, object, m)
  BY <1>1 DEF PlaceStep, Holds, In
<1>3. CASE x # z /\ y # z
  BY <1>2, <1>3 DEF LockExclusion
<1>4. CASE x = z
  <2>1. Holds(y, object, m2)
    BY <1>2, <1>4
  <2>2. Holds(x, object, m1) \/ Grantable(x, object, m1)
    BY <1>1, <1>4, NewLocks
  <2> QED
    BY <2>1, <2>2, ConflictsSymmetric DEF LockExclusion, Grantable
<1>5. CASE y = z
  <2>1. Holds(x, object, m1)
    BY <1>2, <1>5
  <2>2. Holds(y, object, m2) \/ Grantable(y, object, m2)
    BY <1>1, <1>5, NewLocks
  <2> QED
    BY <2>1, <2>2, ConflictsSymmetric DEF LockExclusion, Grantable
<1> QED
  BY <1>3, <1>4, <1>5

-----------------------------------------------------------------------------
\* What a step may do to version v.
VersionStep(v) ==
    \/ ver'[v] = ver[v]
    \/ /\ ver[v] = "absent" /\ mdl.status # "deleted"
       /\ ver'[v] = "pending" \/ (ver'[v] = "ready" /\ mdl'.status = "ready")
    \/ /\ ver[v] = "error" /\ ver'[v] = "pending"
       /\ \E c \in Calls : /\ txn[c].op = "none" /\ UNCHANGED txn
                           /\ Grantable(c, v, "noKeyUpdate")
    \/ \E c \in Calls :
          /\ txn[c].version = v /\ txn'[c].op = "none"
          /\ \/ /\ txn[c].op \in Finalizations /\ txn[c].stage = "lockModel"
                /\ ver'[v] = "error" \/ (ver'[v] = "ready" /\ mdl'.status = "ready")
             \/ /\ In(c, "deleteVersion", "delete") /\ UNCHANGED ref
                /\ ver'[v] = "deleted"

LEMMA VersionSteps ==
    ASSUME TypeOK, Next, NEW v \in Versions
    PROVE  VersionStep(v)
<1>1. ASSUME NEW c \in Calls, Start(c) PROVE VersionStep(v)
  <2>1. ASSUME NEW u \in Versions, CompleteRegistration(c, u) \/ ResetVersion(c, u)
        PROVE  VersionStep(v)
    BY <2>1 DEF CompleteRegistration, ResetVersion, BecomesModel, VersionStep, TypeOK
  <2> QED
    BY <1>1, <2>1 DEF Start, BeginDeleteModel, BeginCreateVersion, BeginMarkReady,
       BeginMarkError, BeginDeleteVersion, VersionStep
<1>2. ASSUME NEW c \in Calls, Proceed(c) \/ CheckReferences(c) \/ Expire(c)
      PROVE  VersionStep(v)
  <2>1. c \in Txns
    BY DEF Txns
  <2>2. CASE CreateVersion(c)
    BY <2>2 DEF CreateVersion, VersionStep, TypeOK
  <2>3. CASE MarkReady(c)
    BY <2>1, <2>3, Placing DEF MarkReady, In, BecomesModel, Finalizations, VersionStep, TypeOK
  <2>4. CASE MarkErrorAndMaybeModel(c)
    BY <2>1, <2>4, Placing DEF MarkErrorAndMaybeModel, In, Finalizations, VersionStep, TypeOK
  <2>5. CASE DeleteVersion(c)
    BY <2>1, <2>5, Placing DEF DeleteVersion, In, VersionStep, TypeOK
  <2> QED
    BY <1>2, <2>2, <2>3, <2>4, <2>5 DEF Proceed, UpdateVersion, LockModelForDeletion,
       LockVersionForDeletion, DeleteModel, CheckReferences, Expire, VersionStep
<1>3. ASSUME NEW r \in Requests, Infer(r) PROVE VersionStep(v)
  BY <1>3 DEF Infer, Read, CommitReference, BeginRead, LockModelForRead, ReadReady,
     ReleaseReference, VersionStep
<1>4. ASSUME NEW x \in Txns, Abandon(x) PROVE VersionStep(v)
  BY <1>4 DEF Abandon, VersionStep
<1> QED
  BY <1>1, <1>2, <1>3, <1>4 DEF Next

\* What a step may do to the model.
ModelStep ==
    \/ mdl' = mdl
    \/ mdl'.status = "ready"
    \/ mdl'.status = "error" /\ ModelFails /\ \A v \in Versions : ver'[v] # "ready"
    \/ \E c \in Calls : In(c, "deleteModel", "delete") /\ UNCHANGED <<ver, ref>>
                        /\ mdl'.status = "deleted"

LEMMA ModelSteps ==
    ASSUME TypeOK, Next
    PROVE  ModelStep
<1>1. ASSUME NEW c \in Calls, Start(c) PROVE ModelStep
  BY <1>1 DEF Start, BeginDeleteModel, BeginCreateVersion, BeginMarkReady, BeginMarkError,
     BeginDeleteVersion, CompleteRegistration, ResetVersion, BecomesModel, ModelStep
<1>2. ASSUME NEW c \in Calls, Proceed(c) \/ CheckReferences(c) \/ Expire(c) PROVE ModelStep
  <2>1. CASE MarkErrorAndMaybeModel(c)
    BY <2>1 DEF MarkErrorAndMaybeModel, BecomesModel, ModelFails, ModelStep, TypeOK
  <2> QED
    BY <1>2, <2>1 DEF Proceed, CreateVersion, UpdateVersion, MarkReady, LockModelForDeletion,
       LockVersionForDeletion, DeleteModel, DeleteVersion, CheckReferences, Expire,
       BecomesModel, ModelStep
<1>3. ASSUME NEW r \in Requests, Infer(r) PROVE ModelStep
  BY <1>3 DEF Infer, Read, CommitReference, BeginRead, LockModelForRead, ReadReady,
     ReleaseReference, ModelStep
<1>4. ASSUME NEW x \in Txns, Abandon(x) PROVE ModelStep
  BY <1>4 DEF Abandon, ModelStep
<1> QED
  BY <1>1, <1>2, <1>3, <1>4 DEF Next

\* What a step may do to the reference of request r.
RefStep(r) ==
    \/ ref'[r] = ref[r]
    \/ /\ ref[r].state = "none"
       /\ ref'[r].state = "committed" /\ ref'[r].version \in Versions
    \/ /\ ref[r].state = "committed" /\ txn'[r].op = "none"
       /\ ref'[r].state = "refused" /\ ref'[r].version = ref[r].version
    \/ /\ In(r, "read", "lockVersion") /\ txn'[r].op = "none" /\ UNCHANGED <<mdl, ver>>
       /\ ver[txn[r].version] = "ready" /\ mdl.status # "deleted"
       /\ ref'[r].state = "validated" /\ ref'[r].version = ref[r].version
    \/ /\ ref[r].state \in {"validated", "refused"}
       /\ ref'[r].state = "none"

LEMMA RefSteps ==
    ASSUME TypeOK, TxnJustified, Next, NEW r \in Requests
    PROVE  RefStep(r)
<1>1. ASSUME NEW c \in Calls, Start(c) \/ Proceed(c) \/ CheckReferences(c) \/ Expire(c)
      PROVE  RefStep(r)
  BY <1>1 DEF Start, BeginDeleteModel, BeginCreateVersion, BeginMarkReady, BeginMarkError,
     BeginDeleteVersion, CompleteRegistration, ResetVersion, Proceed, CreateVersion,
     UpdateVersion, MarkReady, MarkErrorAndMaybeModel, LockModelForDeletion,
     LockVersionForDeletion, DeleteModel, DeleteVersion, CheckReferences, Expire, RefStep
<1>2. ASSUME NEW q \in Requests, Infer(q) PROVE RefStep(r)
  <2>1. q \in Txns
    BY DEF Txns
  <2>2. ASSUME NEW v \in Versions, CommitReference(q, v) PROVE RefStep(r)
    BY <2>2 DEF CommitReference, RefStep, TypeOK
  <2>3. CASE BeginRead(q)
    BY <2>3 DEF BeginRead, BecomesRef, RefStep, TypeOK
  <2>4. CASE LockModelForRead(q)
    BY <2>4 DEF LockModelForRead, RefStep
  <2>5. CASE ReadReady(q)
    BY <2>1, <2>5, Placing DEF ReadReady, BecomesRef, In, RefStep, TypeOK, TxnJustified
  <2>6. CASE ReleaseReference(q)
    BY <2>6 DEF ReleaseReference, NoRef, RefStep, TypeOK
  <2> QED
    BY <1>2, <2>2, <2>3, <2>4, <2>5, <2>6 DEF Infer, Read
<1>3. ASSUME NEW x \in Txns, Abandon(x) PROVE RefStep(r)
  BY <1>3 DEF Abandon, RefStep
<1> QED
  BY <1>1, <1>2, <1>3 DEF Next

-----------------------------------------------------------------------------
\* A version that exists goes on existing.
LEMMA VersionsRemain ==
    ASSUME TypeOK, Next, NEW v \in Versions, ver[v] # "absent"
    PROVE  ver'[v] # "absent"
  BY VersionSteps DEF VersionStep

LEMMA TxnJustifiedPreserved ==
    ASSUME TypeOK, LockExclusion, TxnJustified, Referenced, Next
    PROVE  TxnJustified'
<1> SUFFICES ASSUME NEW x \in Txns
             PROVE  /\ (txn[x].op \notin {"none", "deleteModel"} => txn[x].version \in Versions)'
                    /\ (txn[x].op = "deleteVersion" => ver[txn[x].version] # "absent")'
                    /\ (txn[x].stage \in {"check", "delete"} => txn[x].op \in Deletions)'
                    /\ (txn[x].op \in Finalizations /\ txn[x].stage = "lockModel"
                           => ver[txn[x].version] = "pending")'
                    /\ (txn[x].op = "read" => /\ x \in Requests
                                              /\ ref[x].state = "committed"
                                              /\ ref[x].version = txn[x].version)'
  BY DEF TxnJustified
<1>1. PICK z \in Txns : PlaceStep(z)
  BY PlaceSteps
<1>2. (txn[x].op \notin {"none", "deleteModel"} => txn[x].version \in Versions)'
  BY <1>1 DEF PlaceStep, TxnJustified
<1>6. ASSUME (txn[x].op = "deleteVersion")' PROVE (ver[txn[x].version] # "absent")'
  <2>1. CASE txn[x].op = "deleteVersion"
    <3>1. txn'[x].version = txn[x].version
      BY <1>1, <1>6, <2>1 DEF PlaceStep, Finalizations
    <3>2. txn[x].version \in Versions /\ ver[txn[x].version] # "absent"
      BY <2>1 DEF TxnJustified
    <3> QED
      BY <3>1, <3>2, VersionsRemain
  <2>2. CASE txn[x].op # "deleteVersion"
    BY <1>1, <1>6, <2>2 DEF PlaceStep, Finalizations
  <2> QED
    BY <2>1, <2>2
<1>3. (txn[x].stage \in {"check", "delete"} => txn[x].op \in Deletions)'
  BY <1>1 DEF PlaceStep, TxnJustified, In, Deletions, Finalizations
<1>4. ASSUME (txn[x].op \in Finalizations /\ txn[x].stage = "lockModel")'
      PROVE  (ver[txn[x].version] = "pending")'
  <2>1. CASE txn'[x] = txn[x]
    <3> DEFINE v == txn[x].version
    <3>1. v \in Versions /\ ver[v] = "pending"
      BY <1>4, <2>1 DEF TxnJustified, Finalizations
    <3>2. v \in Objects /\ Holds(x, v, "noKeyUpdate")
      BY <1>4, <2>1, <3>1 DEF Holds, Objects
    <3>3. ASSUME NEW c \in Calls, txn[c].version = v, txn'[c].op = "none",
                 \/ txn[c].op \in Finalizations /\ txn[c].stage = "lockModel"
                 \/ In(c, "deleteVersion", "delete")
          PROVE  FALSE
      <4>1. c \in Txns /\ c # x
        BY <1>4, <3>3 DEF Txns, Finalizations
      <4>2. Holds(c, v, "noKeyUpdate") \/ Holds(c, v, "update")
        BY <3>3 DEF Holds, In
      <4> QED
        BY <3>2, <4>1, <4>2 DEF LockExclusion, LockModes, ConflictsWith
    <3>4. VersionStep(v)
      BY <3>1, VersionSteps
    <3>5. ver'[v] = "pending"
      BY <3>1, <3>3, <3>4 DEF VersionStep
    <3> QED
      BY <2>1, <3>5
  <2>2. CASE txn'[x] # txn[x]
    BY <1>1, <1>4, <2>2 DEF PlaceStep, In, Finalizations, Deletions
  <2> QED
    BY <2>1, <2>2
<1>5. ASSUME (txn[x].op = "read")'
      PROVE  (x \in Requests /\ ref[x].state = "committed" /\ ref[x].version = txn[x].version)'
  <2>1. CASE txn[x].op = "read"
    <3>1. x \in Requests /\ ref[x].state = "committed" /\ ref[x].version = txn[x].version
      BY <2>1 DEF TxnJustified
    <3>2. txn'[x].version = txn[x].version
      BY <1>1, <1>5, <2>1 DEF PlaceStep, Finalizations
    <3>3. RefStep(x)
      BY <3>1, RefSteps
    <3> QED
      BY <1>5, <3>1, <3>2, <3>3 DEF RefStep
  <2>2. CASE txn[x].op # "read"
    BY <1>1, <1>5, <2>2 DEF PlaceStep, Finalizations
  <2> QED
    BY <2>1, <2>2
<1> QED
  BY <1>2, <1>3, <1>4, <1>5, <1>6

LEMMA ReferencedPreserved ==
    ASSUME TypeOK, TxnJustified, Referenced, Next
    PROVE  Referenced'
<1> SUFFICES ASSUME NEW r \in Requests
             PROVE  /\ (ref[r].state # "none" => ref[r].version \in Versions)'
                    /\ (ref[r].state = "validated" => ver[ref[r].version] # "absent")'
  BY DEF Referenced
<1>1. RefStep(r)
  BY RefSteps
<1>2. r \in Txns
  BY DEF Txns
<1>3. CASE ref'[r] = ref[r]
  BY <1>3, VersionsRemain DEF Referenced
<1>4. CASE ref'[r] # ref[r]
  BY <1>1, <1>2, <1>4 DEF RefStep, Referenced, TxnJustified, In
<1> QED
  BY <1>3, <1>4

\* While a deletion has its answer no read can finish its check: it would hold
\* FOR SHARE what the deletion holds FOR UPDATE.
LEMMA NoReadBesideDeletion ==
    ASSUME LockExclusion, TxnJustified,
           NEW x \in Txns, txn[x].stage = "delete", NEW r \in Requests
    PROVE  ~In(r, "read", "lockVersion")
<1> SUFFICES ASSUME In(r, "read", "lockVersion") PROVE FALSE
  OBVIOUS
<1>1. r \in Txns /\ x # r
  BY DEF Txns, In
<1>2. Holds(x, TheModel, "update")
  BY DEF Holds, TxnJustified
<1>3. Holds(r, TheModel, "share")
  BY DEF Holds
<1> QED
  BY <1>1, <1>2, <1>3 DEF LockExclusion, LockModes, ConflictsWith, Objects

LEMMA UnreferencedPreserved ==
    ASSUME TypeOK, LockExclusion, TxnJustified, Unreferenced, Referenced, Next
    PROVE  Unreferenced'
<1> SUFFICES ASSUME NEW x \in Txns, (txn[x].stage = "delete")',
                    NEW r \in Requests, (ref[r].state = "validated")'
             PROVE  (ref[r].version \notin Selected(x))'
  BY DEF Unreferenced
<1>1. PICK z \in Txns : PlaceStep(z)
  BY PlaceSteps
<1>2. CASE txn'[x] = txn[x]
  <2>1. ref'[r] = ref[r]
    BY <1>2, RefSteps, NoReadBesideDeletion DEF RefStep
  <2>2. ref[r].version \in Versions /\ ver[ref[r].version] # "absent"
    BY <2>1 DEF Referenced
  <2>3. ref[r].version \notin Selected(x)
    BY <1>2, <2>1 DEF Unreferenced
  <2> QED
    BY <1>2, <2>1, <2>2, <2>3 DEF Selected
<1>3. CASE txn'[x] # txn[x]
  <2>1. /\ txn'[x].op = txn[x].op /\ txn'[x].version = txn[x].version
        /\ UNCHANGED <<ver, ref>>
        /\ ref[r].version \notin Selected(x)
    BY <1>1, <1>3 DEF PlaceStep, Finalizations
  <2> QED
    BY <2>1 DEF Selected
<1> QED
  BY <1>2, <1>3

LEMMA InUsePreserved ==
    ASSUME TypeOK, TxnJustified, Unreferenced, Referenced, InUse, Next
    PROVE  InUse'
<1> SUFFICES ASSUME NEW r \in Requests, (ref[r].state = "validated")'
             PROVE  (mdl.status # "deleted" /\ ver[ref[r].version] # "deleted")'
  BY DEF InUse
<1>1. CASE ref'[r] = ref[r]
  <2> DEFINE v == ref[r].version
  <2>1. v \in Versions /\ ver[v] \notin {"absent", "deleted"} /\ mdl.status # "deleted"
    BY <1>1 DEF Referenced, InUse
  <2>2. mdl'.status # "deleted"
    BY <1>1, <2>1, ModelSteps DEF ModelStep, In, Txns, Unreferenced, Selected
  <2>3. ver'[v] # "deleted"
    <3>1. VersionStep(v)
      BY <2>1, VersionSteps
    <3>2. ASSUME NEW c \in Calls, txn[c].version = v PROVE ~In(c, "deleteVersion", "delete")
      BY <1>1, <3>2 DEF In, Txns, Unreferenced, Selected
    <3> QED
      BY <2>1, <3>1, <3>2 DEF VersionStep
  <2> QED
    BY <1>1, <2>2, <2>3
<1>2. CASE ref'[r] # ref[r]
  <2>1. r \in Txns /\ RefStep(r)
    BY RefSteps DEF Txns
  <2> QED
    BY <1>2, <2>1 DEF RefStep, In, TxnJustified
<1> QED
  BY <1>1, <1>2

LEMMA AggregatePreserved ==
    ASSUME TypeOK, Aggregate, Next
    PROVE  Aggregate'
<1> SUFFICES ASSUME NEW v \in Versions, ver'[v] = "ready"
             PROVE  mdl'.status \in {"ready", "deleted"}
  BY DEF Aggregate
<1>1. CASE mdl' = mdl
  BY <1>1, VersionSteps DEF VersionStep, Aggregate
<1>2. CASE mdl' # mdl
  BY <1>2, ModelSteps DEF ModelStep
<1> QED
  BY <1>1, <1>2

-----------------------------------------------------------------------------
LEMMA InitIInv == Init => IInv
<1> SUFFICES ASSUME Init PROVE IInv
  OBVIOUS
<1>1. TypeOK
  BY InitTyped
<1>2. \A x \in Txns : txn[x].op = "none" /\ txn[x].stage = "none"
  BY DEF Init, NoTxn
<1>3. \A r \in Requests : ref[r].state = "none"
  BY DEF Init, NoRef
<1>4. LockExclusion
  BY <1>2 DEF LockExclusion, Holds, In, Deletions, Finalizations
<1>5. TxnJustified /\ Unreferenced
  BY <1>2 DEF TxnJustified, Unreferenced, Deletions, Finalizations
<1>6. Referenced /\ InUse
  BY <1>3 DEF Referenced, InUse
<1>7. Aggregate
  BY DEF Init, Aggregate
<1> QED
  BY <1>1, <1>4, <1>5, <1>6, <1>7 DEF IInv

LEMMA StepIInv == IInv /\ [Next]_vars => IInv'
<1> SUFFICES ASSUME IInv, [Next]_vars PROVE IInv'
  OBVIOUS
<1>1. CASE Next
  BY <1>1, TypePreserved, LockExclusionPreserved, TxnJustifiedPreserved,
     UnreferencedPreserved, ReferencedPreserved, InUsePreserved, AggregatePreserved DEF IInv
<1>2. CASE UNCHANGED vars
  <2>1. UNCHANGED <<mdl, ver, txn, ref>>
    BY <1>2 DEF vars
  <2>2. TypeOK' /\ TxnJustified' /\ Referenced' /\ InUse' /\ Aggregate'
    BY <2>1 DEF IInv, TypeOK, TxnJustified, Referenced, InUse, Aggregate
  <2>3. LockExclusion'
    BY <2>1 DEF IInv, LockExclusion, Holds, In
  <2>4. Unreferenced'
    BY <2>1 DEF IInv, Unreferenced, Selected
  <2> QED
    BY <2>2, <2>3, <2>4 DEF IInv
<1> QED
  BY <1>1, <1>2

\* The inductive invariant: what the row locks exclude, and what follows from
\* the statement a transaction of version_store.go or deletion_store.go has
\* reached.
THEOREM Invariance == Spec => []IInv
  BY InitIInv, StepIInv, PTL DEF Spec

\* What an inference request was allowed to use is never deleted: the locks of
\* deleteProtected (deletion_store.go:70-135) keep every later read out until
\* its references were looked at and the deletion was committed.
THEOREM NothingInUseIsDeleted == Spec => []InUse
<1>1. IInv => InUse
  BY DEF IInv
<1> QED
  BY <1>1, Invariance, PTL

\* A model with a ready version is ready or deleted, in whatever order
\* MarkReady, MarkErrorAndMaybeModel and CompleteRegistration of its versions
\* commit (version_store.go:213-299).
THEOREM ModelAggregates == Spec => []Aggregate
<1>1. IInv => Aggregate
  BY DEF IInv
<1> QED
  BY <1>1, Invariance, PTL

\* No transaction takes a version out of "deleted", or out of "ready" other than
\* to delete it, also when its statement waited for the lock of a deletion.
THEOREM DeletedAndReadyAreFinal == Spec => VersionFinal
<1>1. ASSUME IInv, Next, NEW v \in Versions
      PROVE  /\ ver[v] = "deleted" => ver'[v] = "deleted"
             /\ ver[v] = "ready" => ver'[v] \in {"ready", "deleted"}
  BY <1>1, VersionSteps DEF IInv, VersionStep, TxnJustified, Txns
<1>2. IInv /\ [Next]_vars =>
        [\A v \in Versions :
          /\ ver[v] = "deleted" => ver'[v] = "deleted"
          /\ ver[v] = "ready" => ver'[v] \in {"ready", "deleted"}]_vars
  BY <1>1
<1> QED
  BY <1>2, Invariance, PTL DEF Spec, VersionFinal

\* CreateModelVersion and CompleteRegistration look at the model's status under
\* a lock that excludes its deletion, so no version appears under a deleted
\* model.
THEOREM DeletedModelsGetNoVersion == Spec => NoNewVersionWhenDeleted
<1>1. ASSUME IInv, Next, NEW v \in Versions, ver[v] = "absent", ver'[v] # "absent"
      PROVE  mdl.status # "deleted"
  BY <1>1, VersionSteps DEF IInv, VersionStep, TxnJustified, Txns, In
<1>2. IInv /\ [Next]_vars =>
        [\A v \in Versions : ver[v] = "absent" /\ ver'[v] # "absent"
          => mdl.status # "deleted"]_vars
  BY <1>1
<1> QED
  BY <1>2, Invariance, PTL DEF Spec, NoNewVersionWhenDeleted
-----------------------------------------------------------------------------
\* Who waits for whom.

\* The lock transaction x asks for next.
Wants(x, object, mode) ==
    \/ In(x, "createVersion", "lockModel") /\ object = TheModel /\ mode = "keyShare"
    \/ /\ txn[x].op \in Finalizations /\ txn[x].stage = "lockVersion"
       /\ object = txn[x].version /\ mode = "noKeyUpdate"
    \/ In(x, "markReady", "lockModel") /\ object = TheModel /\ mode = "noKeyUpdate"
    \/ In(x, "markError", "lockModel") /\ object = TheModel /\ mode = "update"
    \/ /\ txn[x].op \in Deletions /\ txn[x].stage = "lockModel"
       /\ object = TheModel /\ mode = "update"
    \/ In(x, "deleteVersion", "lockVersion") /\ object = txn[x].version /\ mode = "update"
    \/ In(x, "read", "lockModel") /\ object = TheModel /\ mode = "share"
    \/ In(x, "read", "lockVersion") /\ object = txn[x].version /\ mode = "share"

WaitsFor(x, y) ==
    \E object \in Objects, mode \in LockModes, held \in LockModes :
        Wants(x, object, mode) /\ Holds(y, object, held) /\ held \in ConflictsWith[mode]

\* A read is of a version that was ready when it began, and such a version is no
\* longer changed but by its deletion.
ReadsReady ==
    \A x \in Txns : txn[x].op = "read" => ver[txn[x].version] \in {"ready", "deleted"}

\* The deletion of a model locks nothing else.
OneLock == \A x \in Txns : ~In(x, "deleteModel", "lockVersion")

LEMMA ReadsReadyKept == IInv /\ ReadsReady /\ [Next]_vars => ReadsReady'
<1> SUFFICES ASSUME IInv, ReadsReady, [Next]_vars, NEW x \in Txns, txn'[x].op = "read"
             PROVE  ver'[txn'[x].version] \in {"ready", "deleted"}
  BY DEF ReadsReady
<1>1. CASE UNCHANGED vars
  BY <1>1 DEF vars, ReadsReady
<1>2. CASE Next
  <2>1. PICK z \in Txns : PlaceStep(z)
    BY <1>2, PlaceSteps DEF IInv
  <2>2. CASE txn'[x] = txn[x]
    <3>1. txn[x].version \in Versions
      BY <2>2 DEF IInv, TxnJustified
    <3>2. VersionStep(txn[x].version)
      BY <1>2, <3>1, VersionSteps DEF IInv
    <3> QED
      BY <2>2, <3>1, <3>2 DEF ReadsReady, VersionStep, IInv, TxnJustified, Txns
  <2>3. CASE x = z /\ txn'[x] # txn[x]
    <3>1. CASE txn[x].op = "none"
      BY <2>1, <2>3, <3>1 DEF PlaceStep, Finalizations
    <3>2. CASE txn[x].op # "none"
      BY <2>1, <2>3, <3>2 DEF PlaceStep, ReadsReady
    <3> QED
      BY <3>1, <3>2
  <2> QED
    BY <2>1, <2>2, <2>3 DEF PlaceStep
<1> QED
  BY <1>1, <1>2

LEMMA OneLockKept == IInv /\ OneLock /\ [Next]_vars => OneLock'
<1> SUFFICES ASSUME IInv, OneLock, [Next]_vars, NEW x \in Txns
             PROVE  ~In(x, "deleteModel", "lockVersion")'
  BY DEF OneLock
<1>1. CASE UNCHANGED vars
  BY <1>1 DEF vars, OneLock, In
<1>2. CASE Next
  <2>1. PICK z \in Txns : PlaceStep(z)
    BY <1>2, PlaceSteps DEF IInv
  <2> QED
    BY <2>1 DEF PlaceStep, OneLock, In, Finalizations
<1> QED
  BY <1>1, <1>2

\* How far a transaction has come: whoever has more has its locks in front of
\* those who have less.
Advanced(x) == CASE txn[x].stage \in {"check", "delete"} -> 3
                 [] In(x, "read", "lockVersion") -> 2
                 [] txn[x].op \in Finalizations /\ txn[x].stage = "lockModel" -> 1
                 [] OTHER -> 0

LEMMA WaitsForAdvanced ==
    ASSUME IInv, ReadsReady, OneLock, NEW x \in Txns, NEW y \in Txns, WaitsFor(x, y),
           ~In(x, "deleteVersion", "lockVersion"), ~In(y, "deleteVersion", "lockVersion")
    PROVE  Advanced(x) < Advanced(y)
<1>1. PICK object \in Objects, mode \in LockModes, held \in LockModes :
        Wants(x, object, mode) /\ Holds(y, object, held) /\ held \in ConflictsWith[mode]
  BY DEF WaitsFor
<1> USE DEF In, Deletions, Finalizations
<1>2. txn[x].stage \in {"lockModel", "lockVersion"}
  BY <1>1 DEF Wants
<1>3. \/ txn[y].stage \in {"check", "delete"}
      \/ /\ txn[y].op \in Finalizations /\ txn[y].stage = "lockModel"
         /\ object = txn[y].version /\ ver[object] = "pending"
      \/ /\ In(y, "read", "lockVersion") /\ object = TheModel
  <2>1. \/ txn[y].stage \in {"check", "delete"}
        \/ txn[y].op \in Finalizations /\ txn[y].stage = "lockModel" /\ object = txn[y].version
        \/ In(y, "read", "lockVersion") /\ object = TheModel
    BY <1>1 DEF Holds, OneLock
  <2>2. txn[y].op \in Finalizations /\ txn[y].stage = "lockModel" => ver[txn[y].version] = "pending"
    BY DEF IInv, TxnJustified
  <2> QED
    BY <2>1, <2>2
<1>4. CASE txn[y].stage \in {"check", "delete"}
  BY <1>2, <1>4 DEF Advanced
<1>5. CASE /\ txn[y].op \in Finalizations /\ txn[y].stage = "lockModel"
           /\ object = txn[y].version /\ ver[object] = "pending"
  <2>1. object # TheModel
    BY <1>5, CatalogAssumption DEF IInv, TxnJustified
  <2>2. ~In(x, "read", "lockVersion")
    BY <1>1, <1>5, <2>1 DEF Wants, ReadsReady
  <2>3. ~(txn[x].op \in Finalizations /\ txn[x].stage = "lockModel")
    BY <1>1, <2>1 DEF Wants
  <2> QED
    BY <1>2, <1>5, <2>2, <2>3 DEF Advanced
<1>6. CASE In(y, "read", "lockVersion") /\ object = TheModel
  <2>1. ~In(x, "read", "lockVersion")
    BY <1>1, <1>6, CatalogAssumption DEF Wants, IInv, TxnJustified
  <2> QED
    BY <1>2, <1>6, <2>1 DEF Advanced
<1> QED
  BY <1>3, <1>4, <1>5, <1>6

\* Transactions that wait for each other in a circle wait for the deletion of a
\* version that has locked the model: its deadline breaks the circle.
CirclesHaveDeletion ==
    \A S \in SUBSET Txns :
        S # {} /\ (\A x \in S : \E y \in S : WaitsFor(x, y))
            => \E x \in S : In(x, "deleteVersion", "lockVersion")

LEMMA CirclesBroken == IInv /\ ReadsReady /\ OneLock => CirclesHaveDeletion
<1> SUFFICES ASSUME IInv, ReadsReady, OneLock, NEW S \in SUBSET Txns, S # {},
                    \A x \in S : ~In(x, "deleteVersion", "lockVersion")
             PROVE  \E x \in S : \A y \in S : ~WaitsFor(x, y)
  BY DEF CirclesHaveDeletion
<1> DEFINE Furthest(x) == \A y \in S : Advanced(y) <= Advanced(x)
<1>1. \A x \in S : Advanced(x) \in 0 .. 3
  BY DEF Advanced
<1>2. \E x \in S : Furthest(x)
  <2>1. CASE \E x \in S : Advanced(x) = 3
    BY <2>1, <1>1
  <2>2. CASE ~(\E x \in S : Advanced(x) = 3) /\ \E x \in S : Advanced(x) = 2
    BY <2>2, <1>1
  <2>3. CASE ~(\E x \in S : Advanced(x) \in {2, 3}) /\ \E x \in S : Advanced(x) = 1
    BY <2>3, <1>1
  <2>4. CASE ~(\E x \in S : Advanced(x) \in {1, 2, 3})
    BY <2>4, <1>1
  <2> QED
    BY <2>1, <2>2, <2>3, <2>4
<1>3. PICK x \in S : Furthest(x)
  BY <1>2
<1>4. \A y \in S : ~WaitsFor(x, y)
  BY <1>1, <1>3, WaitsForAdvanced
<1> QED
  BY <1>4

\* Finalizations lock the version first and deletions the model first
\* (version_store.go:213-280, deletion_store.go:66-135), but no circle of waits is
\* without the deletion of a version: creations, reads and finalizations alone never
\* block each other for ever.
THEOREM NoCircleWithoutDeletion == Spec => []CirclesHaveDeletion
<1>1. Init => ReadsReady /\ OneLock
  BY DEF Init, ReadsReady, OneLock, In, NoTxn
<1> QED
  BY <1>1, ReadsReadyKept, OneLockKept, CirclesBroken, Invariance, PTL DEF Spec
=============================================================================
