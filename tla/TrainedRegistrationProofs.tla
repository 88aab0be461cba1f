--------------------- MODULE TrainedRegistrationProofs ---------------------
(***************************************************************************)
(* Proofs about TrainedRegistration for any number of registrations, of    *)
(* connections, of contents and of lost calls.                             *)
(***************************************************************************)
EXTENDS TrainedRegistration, TLAPS

LEMMA InitIInv == Init => IInv
<1> SUFFICES ASSUME Init PROVE IInv
  OBVIOUS
<1> USE TrainedRegistrationAssumption DEF Init, NoCall
<1>1. TypeOK
  BY DEF TypeOK, Registration, Call, Stages, Models, Makers, Open, Terminal
<1>2. OneHolder
  BY DEF OneHolder, HoldsReg
<1>3. StillTrue
  BY DEF StillTrue
<1>4. ReceiptBacked
  BY DEF ReceiptBacked, Models
<1>5. Inserted /\ InHand
  BY DEF Inserted, InHand, Stages
<1> QED
  BY <1>1, <1>2, <1>3, <1>4, <1>5 DEF IInv

-----------------------------------------------------------------------------
\* What a step of a call may do to the calls.

LEMMA Going ==
    ASSUME TypeOK, NEW c \in Calls, NEW stage \in Stages \ {"none"},
           call[c].stage # "none", Goto(c, stage)
    PROVE  /\ call' \in [Calls -> Call]
           /\ call[c].reg \in Regs
           /\ call'[c].stage = stage
           /\ call'[c].reg = call[c].reg
           /\ \A d \in Calls \ {c} : call'[d] = call[d]
           /\ \A d \in Calls : call'[d].stage # "none" => call'[d].reg \in Regs
  BY DEF TypeOK, Goto, Call

LEMMA Ending ==
    ASSUME TypeOK, NEW c \in Calls, End(c)
    PROVE  /\ call' \in [Calls -> Call]
           /\ call'[c].stage = "none"
           /\ \A d \in Calls \ {c} : call'[d] = call[d]
           /\ \A d \in Calls : call'[d].stage # "none" => call'[d].reg \in Regs
  BY DEF TypeOK, End, NoCall, Call, Stages

\* A call that changes no row keeps what other calls rely on, if what it takes is
\* free and what it relies on is true.
Passes(c) ==
    /\ UNCHANGED <<reg, mdl, ver>>
    /\ object' \in [Regs -> {"none"} \cup Contents]
    /\ url' \in [Regs -> BOOLEAN]
    /\ lost' \in 0..MaxLost
    /\ call' \in [Calls -> Call]
    /\ \A d \in Calls \ {c} : call'[d] = call[d]
    /\ call'[c].stage # "none" => call'[c].reg \in Regs

LEMMA Passing ==
    ASSUME IInv, NEW c \in Calls, Passes(c),
           \A r \in Regs : HoldsReg(c, r)' => HoldsReg(c, r) \/ RegFree(r),
           call'[c].stage \in {"model", "commit"} => reg[call'[c].reg].status \in Open,
           call'[c].stage = "commit" =>
               LET r == call'[c].reg IN
               /\ ModelFree(Destination(r))
               /\ mdl[Destination(r)] = (IF reg[r].target = NoModel THEN "absent" ELSE "present"),
           call'[c].stage \in Stages \ {"none", "insert"} => reg[call'[c].reg].status # "absent",
           lost' = 0 => lost = 0,
           call[c].stage \in {"begin", "model", "commit", "undo", "fail"} =>
               \/ /\ call'[c].stage \in {"begin", "model", "commit", "undo", "fail"}
                  /\ call'[c].reg = call[c].reg
               \/ reg[call[c].reg].status # "uploaded"
               \/ lost' # 0
    PROVE  IInv'
<1> USE DEF IInv, Passes
<1>1. TypeOK'
  BY DEF TypeOK
<1>2. OneHolder'
  BY DEF OneHolder, HoldsReg, HoldsModel, RegFree, ModelFree, Destination
<1>3. StillTrue'
  BY DEF StillTrue, Destination
<1>4. ReceiptBacked'
  BY DEF ReceiptBacked
<1>5. Inserted'
  BY DEF Inserted
<1>6. InHand'
  BY DEF InHand
<1> QED
  BY <1>1, <1>2, <1>3, <1>4, <1>5, <1>6

-----------------------------------------------------------------------------
\* The steps of Prepare keep the invariant (trained_artifact.go:24-101,
\* trained_artifact_read.go:45-71).
LEMMA Preparing ==
    ASSUME IInv, NEW c \in Calls,
           \/ \E r \in Regs, m \in Models \cup {NoModel} : BeginPrepare(c, r, m)
           \/ \E r \in Regs : BeginUploadURL(c, r)
           \/ Insert(c)
           \/ CreateUploadURL(c)
    PROVE  IInv'
<1> USE DEF IInv, catalog, storage
<1>0. call[c] \in Call /\ call \in [Calls -> Call] /\ TypeOK
  BY DEF TypeOK
<1>1. CASE \E r \in Regs, m \in Models \cup {NoModel} : BeginPrepare(c, r, m)
  <2>1. Passes(c) /\ call'[c].stage = "insert" /\ call[c].stage = "none" /\ lost' = lost
    BY <1>0, <1>1 DEF BeginPrepare, Passes, TypeOK, Call, Stages
  <2> QED
    BY <2>1, Passing DEF HoldsReg
<1>2. CASE \E r \in Regs : BeginUploadURL(c, r)
  <2>1. /\ Passes(c) /\ call'[c].stage = "sign" /\ call[c].stage = "none" /\ lost' = lost
        /\ reg[call'[c].reg].status # "absent"
    BY <1>0, <1>2 DEF BeginUploadURL, Passes, TypeOK, Call, Stages, Models
  <2> QED
    BY <2>1, Passing DEF HoldsReg
<1>3. CASE CreateUploadURL(c)
  <2>1. Passes(c) /\ call'[c].stage = "none" /\ call[c].stage = "sign" /\ lost' = lost
    BY <1>0, <1>3, Ending DEF CreateUploadURL, Passes, TypeOK
  <2> QED
    BY <2>1, Passing DEF HoldsReg
<1>4. CASE Insert(c)
  <2> DEFINE r == call[c].reg
  <2>1. call[c].stage = "insert" /\ r \in Regs
    BY <1>0, <1>4 DEF Insert, TypeOK
  <2>2. CASE reg[r].status # "absent"
    <3>1. /\ Passes(c) /\ lost' = lost
          /\ call'[c].stage \in {"none", "sign"}
          /\ call'[c].stage = "sign" => call'[c].reg = r
      BY <1>0, <1>4, <2>1, <2>2, Going, Ending DEF Insert, Passes, TypeOK, Stages
    <3> QED
      BY <2>1, <2>2, <3>1, Passing DEF HoldsReg
  <2>3. CASE reg[r].status = "absent"
    <3>1. Goto(c, "sign") /\ UNCHANGED <<mdl, ver, object, url, lost>>
      BY <1>4, <2>3 DEF Insert
    <3>2. /\ call' \in [Calls -> Call] /\ call'[c].stage = "sign" /\ call'[c].reg = r
          /\ \A d \in Calls \ {c} : call'[d] = call[d]
          /\ \A d \in Calls : call'[d].stage # "none" => call'[d].reg \in Regs
      BY <1>0, <2>1, <3>1, Going DEF Stages
    <3>3. /\ reg' \in [Regs -> Registration]
          /\ reg'[r].status = "pending"
          /\ \A q \in Regs \ {r} : reg'[q] = reg[q]
      BY <1>0, <1>4, <2>1, <2>3 DEF Insert, TypeOK, Registration, Open, Call
    <3>4. \A d \in Calls : call'[d].stage \in Stages \ {"none", "insert", "sign"} =>
            /\ d # c
            /\ call'[d] = call[d]
            /\ call[d].reg \in Regs \ {r}
      BY <1>0, <2>3, <3>2 DEF Inserted, TypeOK
    <3>5. TypeOK'
      BY <1>0, <3>1, <3>2, <3>3 DEF TypeOK
    <3>6. OneHolder'
      BY <3>2, <3>3, <3>4 DEF OneHolder, HoldsReg, Destination, Stages
    <3>7. StillTrue'
      BY <3>1, <3>3, <3>4 DEF StillTrue, Destination, Stages
    <3>8. ReceiptBacked'
      BY <1>0, <2>3, <3>1, <3>3 DEF ReceiptBacked, TypeOK, Makers
    <3>9. Inserted'
      BY <3>2, <3>3, <1>0 DEF Inserted, TypeOK, Stages
    <3>10. InHand'
      BY <2>1, <3>1, <3>2, <3>3 DEF InHand
    <3> QED
      BY <3>5, <3>6, <3>7, <3>8, <3>9, <3>10
  <2> QED
    BY <2>2, <2>3
<1> QED
  BY <1>1, <1>2, <1>3, <1>4

-----------------------------------------------------------------------------
\* The steps of Complete that only take locks, read or give up keep the invariant
\* (trained_artifact.go:103-149, trained_artifact_store.go:126-179).
LEMMA Working ==
    ASSUME IInv, NEW c \in Calls,
           \/ \E r \in Regs : BeginComplete(c, r)
           \/ ObjectExists(c) \/ VerifyObject(c) \/ Recheck(c)
           \/ LockRegistration(c) \/ LockModel(c) \/ Conflict(c)
           \/ StatementFails(c) \/ Rollback(c) \/ Lose(c)
    PROVE  IInv'
<1> USE DEF IInv, catalog, storage
<1>0. call[c] \in Call /\ call \in [Calls -> Call] /\ TypeOK
  BY DEF TypeOK
<1>1. CASE \E r \in Regs : BeginComplete(c, r)
  <2>1. /\ Passes(c) /\ call'[c].stage = "exists" /\ call[c].stage = "none" /\ lost' = lost
        /\ reg[call'[c].reg].status # "absent"
    BY <1>0, <1>1 DEF BeginComplete, Passes, TypeOK, Call, Stages, Models
  <2> QED
    BY <2>1, Passing DEF HoldsReg
<1>2. CASE ObjectExists(c) \/ VerifyObject(c)
  <2>1. /\ Passes(c) /\ lost' = lost /\ call[c].stage \in {"exists", "verify"}
        /\ call'[c].stage \in {"verify", "mark", "fail"} /\ call'[c].reg = call[c].reg
    BY <1>0, <1>2, Going DEF ObjectExists, VerifyObject, Passes, TypeOK, Stages
  <2> QED
    BY <2>1, Passing DEF HoldsReg, Inserted, Stages
<1>3. CASE Recheck(c)
  <2>1. /\ Passes(c) /\ lost' = lost /\ call[c].stage = "recheck"
        /\ \/ call'[c].stage = "begin" /\ call'[c].reg = call[c].reg
           \/ call'[c].stage = "none"
    BY <1>0, <1>3, Going, Ending DEF Recheck, Passes, TypeOK, Stages
  <2> QED
    BY <2>1, Passing DEF HoldsReg, Inserted, Stages
<1>4. CASE LockRegistration(c)
  <2>1. /\ Passes(c) /\ lost' = lost /\ call[c].stage = "begin" /\ RegFree(call[c].reg)
        /\ \/ call'[c].stage = "none" /\ reg[call[c].reg].status = "ready"
           \/ call'[c].stage = "undo" /\ call'[c].reg = call[c].reg
           \/ /\ call'[c].stage = "model" /\ call'[c].reg = call[c].reg
              /\ reg[call[c].reg].status \in Open
    BY <1>0, <1>4, Going, Ending DEF LockRegistration, Passes, TypeOK, Stages
  <2> QED
    BY <2>1, Passing DEF HoldsReg, Inserted, Stages
<1>5. CASE LockModel(c)
  <2> DEFINE r == call[c].reg
             needed == IF reg[r].target = NoModel THEN "absent" ELSE "present"
  <2>1. /\ Passes(c) /\ lost' = lost /\ call[c].stage = "model"
        /\ ModelFree(Destination(r)) /\ call'[c].reg = r
        /\ \/ call'[c].stage = "undo"
           \/ call'[c].stage = "commit" /\ mdl[Destination(r)] = needed
    BY <1>0, <1>5, Going DEF LockModel, Passes, TypeOK, Stages
  <2>2. reg[r].status \in Open /\ reg[r].status # "absent"
    BY <2>1 DEF StillTrue, Open
  <2> QED
    BY <2>1, <2>2, Passing DEF HoldsReg
<1>6. CASE Conflict(c) \/ StatementFails(c) \/ Rollback(c)
  <2>1. /\ Passes(c) /\ lost' = lost /\ call[c].stage \in {"begin", "model", "commit", "undo"}
        /\ call'[c].stage \in {"undo", "fail"} /\ call'[c].reg = call[c].reg
        /\ call'[c].stage = "undo" => call[c].stage \in {"model", "commit"}
    BY <1>0, <1>6, Going DEF Conflict, StatementFails, Rollback, Passes, TypeOK, Stages
  <2> QED
    BY <2>1, Passing DEF HoldsReg, Inserted, Stages
<1>7. CASE Lose(c)
  <2>1. Passes(c) /\ call'[c].stage = "none" /\ lost' # 0
    BY <1>0, <1>7, Ending, TrainedRegistrationAssumption DEF Lose, Passes, TypeOK
  <2> QED
    BY <2>1, Passing DEF HoldsReg
<1> QED
  BY <1>1, <1>2, <1>3, <1>4, <1>5, <1>6, <1>7

-----------------------------------------------------------------------------
\* The statements that change a registration.

\* A row nobody has locked gets another status and nobody takes a lock.
Rewrites(r, status) ==
    /\ reg[r].status \in Open
    /\ RegFree(r)
    /\ Becomes(r, status)
    /\ UNCHANGED <<mdl, ver, object, url, lost>>
    /\ call' \in [Calls -> Call]
    /\ \A d \in Calls :
        \/ call'[d] = call[d]
        \/ call'[d].stage = "none"
        \/ call'[d].stage = "begin" /\ call'[d].reg = r /\ call[d].reg = r

\* Rewriting an open row to one that is not ready keeps the invariant
\* (trained_artifact_store.go:117-119, 209, 218).
LEMMA Rewriting ==
    ASSUME IInv, NEW r \in Regs, NEW status \in {"uploaded", "failed", "aborted"},
           Rewrites(r, status),
           status = "uploaded" => \E c \in Calls : call'[c].stage = "begin" /\ call'[c].reg = r,
           \A d \in Calls : call'[d].stage = "none" /\ call[d].reg # r => call[d].stage = "none"
    PROVE  IInv'
<1> USE DEF IInv
<1>1. /\ reg' \in [Regs -> Registration]
      /\ reg'[r].status = status /\ reg'[r].target = reg[r].target
      /\ \A q \in Regs \ {r} : reg'[q] = reg[q]
  BY DEF Rewrites, Becomes, TypeOK, Registration, Open, Terminal
<1>2. \A d \in Calls : call'[d].stage # "none" => call'[d].reg \in Regs
  BY DEF Rewrites, TypeOK
<1>3. \A d \in Calls : call'[d].stage \in {"model", "commit", "undo"} =>
        call'[d] = call[d] /\ call[d].reg \in Regs \ {r}
  BY <1>2 DEF Rewrites, RegFree, HoldsReg
<1>4. TypeOK'
  BY <1>1, <1>2 DEF TypeOK, Rewrites
<1>5. OneHolder'
  BY <1>1, <1>3 DEF OneHolder, HoldsReg, Destination
<1>6. StillTrue'
  BY <1>1, <1>3 DEF StillTrue, Destination, Rewrites
<1>7. ReceiptBacked'
  BY <1>1 DEF ReceiptBacked, Rewrites, Open, TypeOK, Makers
<1>8. Inserted'
  BY <1>1, <1>2 DEF Inserted, Rewrites, Stages, TypeOK
<1>9. InHand'
  <2> SUFFICES ASSUME NEW q \in Regs, reg'[q].status = "uploaded", lost' = 0
               PROVE  \E c \in Calls :
                        /\ call'[c].reg = q
                        /\ call'[c].stage \in {"begin", "model", "commit", "undo", "fail"}
    BY DEF InHand
  <2>1. CASE q = r
    BY <1>1, <2>1
  <2>2. CASE q # r
    <3>1. PICK c \in Calls :
            /\ call[c].reg = q
            /\ call[c].stage \in {"begin", "model", "commit", "undo", "fail"}
      BY <1>1, <2>2 DEF InHand, Rewrites
    <3>2. CASE call'[c] = call[c]
      BY <3>1, <3>2
    <3>3. CASE call'[c].stage = "none"
      BY <2>2, <3>1, <3>3
    <3> QED
      BY <2>2, <3>1, <3>2, <3>3 DEF Rewrites
  <2> QED
    BY <2>1, <2>2
<1> QED
  BY <1>4, <1>5, <1>6, <1>7, <1>8, <1>9

\* MarkUploaded, Fail and Abort (trained_artifact_store.go:112-134, 204-230).
LEMMA Deciding ==
    ASSUME IInv,
           \/ \E c \in Calls : MarkUploaded(c) \/ Fail(c)
           \/ \E r \in Regs : Abort(r)
    PROVE  IInv'
<1> USE DEF IInv, catalog, storage
<1>0. call \in [Calls -> Call] /\ TypeOK
  BY DEF TypeOK
<1>1. ASSUME NEW c \in Calls, MarkUploaded(c) PROVE IInv'
  <2> DEFINE r == call[c].reg
  <2>1. call[c].stage = "mark" /\ r \in Regs
    BY <1>1, <1>0 DEF MarkUploaded, TypeOK
  <2>2. CASE reg[r].status = "pending"
    <3>1. Goto(c, "begin")
      BY <1>1, <2>2 DEF MarkUploaded
    <3>2. /\ call' \in [Calls -> Call] /\ call'[c].stage = "begin" /\ call'[c].reg = r
          /\ \A d \in Calls \ {c} : call'[d] = call[d]
      BY <1>0, <2>1, <3>1, Going DEF Stages
    <3>3. Rewrites(r, "uploaded")
      BY <1>1, <2>2, <3>2 DEF MarkUploaded, Rewrites, Open
    <3> QED
      BY <2>1, <3>2, <3>3, Rewriting
  <2>3. CASE reg[r].status # "pending"
    <3>1. Goto(c, "recheck") /\ UNCHANGED <<reg, mdl, ver, object, url, lost>>
      BY <1>1, <2>3 DEF MarkUploaded
    <3>2. Passes(c) /\ call'[c].stage = "recheck" /\ call'[c].reg = r
      BY <1>0, <2>1, <3>1, Going DEF Passes, TypeOK, Stages
    <3> QED
      BY <2>1, <3>1, <3>2, Passing DEF HoldsReg, Inserted, Stages
  <2> QED
    BY <2>2, <2>3
<1>2. ASSUME NEW c \in Calls, Fail(c) PROVE IInv'
  <2> DEFINE r == call[c].reg
  <2>1. call[c].stage = "fail" /\ r \in Regs
    BY <1>2, <1>0 DEF Fail, TypeOK
  <2>2. /\ call' \in [Calls -> Call] /\ call'[c].stage = "none"
        /\ \A d \in Calls \ {c} : call'[d] = call[d]
        /\ UNCHANGED <<mdl, ver, object, url, lost>>
    BY <1>0, <1>2, Ending DEF Fail
  <2>3. CASE reg[r].status \in Open
    <3>1. Rewrites(r, "failed")
      BY <1>2, <2>2, <2>3 DEF Fail, Rewrites
    <3> QED
      BY <2>1, <2>2, <3>1, Rewriting
  <2>4. CASE reg[r].status \notin Open
    <3>1. Passes(c)
      BY <1>2, <2>2, <2>4, <1>0 DEF Fail, Passes, TypeOK
    <3> QED
      BY <2>1, <2>2, <2>4, <3>1, Passing DEF HoldsReg, Open
  <2> QED
    BY <2>3, <2>4
<1>3. ASSUME NEW r \in Regs, Abort(r) PROVE IInv'
  <2>1. Rewrites(r, "aborted") /\ call' = call
    BY <1>0, <1>3 DEF Abort, Rewrites
  <2> QED
    BY <2>1, Rewriting
<1> QED
  BY <1>1, <1>2, <1>3

-----------------------------------------------------------------------------
\* The commit, answered or not, keeps the invariant
\* (trained_artifact_store.go:165-201).
LEMMA Publishing ==
    ASSUME IInv, NEW c \in Calls, Commit(c) \/ CommitUnanswered(c)
    PROVE  IInv'
<1> DEFINE r == call[c].reg
           m == Destination(r)
<1> USE DEF IInv, catalog, storage
<1>0. call \in [Calls -> Call] /\ TypeOK
  BY DEF TypeOK
<1>1. /\ call[c].stage = "commit" /\ r \in Regs
      /\ reg[r] \in Registration /\ reg[r].status \in Open
      /\ m \in Models /\ ver[m] = NoReg
  BY <1>0 DEF Commit, CommitUnanswered, Publish, StillTrue, TypeOK, Registration, Destination, Models
<1>2. /\ call' \in [Calls -> Call]
      /\ call'[c].stage \in {"none", "fail"}
      /\ call'[c].stage = "fail" => call'[c].reg = r
      /\ \A d \in Calls \ {c} : call'[d] = call[d]
      /\ \A d \in Calls : call'[d].stage # "none" => call'[d].reg \in Regs
      /\ UNCHANGED <<object, url, lost>>
  BY <1>0, <1>1, Going, Ending DEF Commit, CommitUnanswered, Stages
<1>3. /\ reg' = [reg EXCEPT ![r] = [status |-> "ready", target |-> reg[r].target, model |-> m]]
      /\ mdl' = [mdl EXCEPT ![m] = "present"]
      /\ ver' = [ver EXCEPT ![m] = r]
  BY DEF Commit, CommitUnanswered, Publish
<1>4. \A q \in Regs : reg'[q].target = reg[q].target
  BY <1>0, <1>1, <1>3 DEF TypeOK
<1>5. \A d \in Calls : call'[d].stage \in {"model", "commit", "undo"} =>
        /\ d # c /\ call'[d] = call[d] /\ call[d].reg \in Regs \ {r}
        /\ call[d].stage = "commit" => Destination(call[d].reg) # m
  BY <1>1, <1>2 DEF OneHolder, HoldsReg
<1>6. TypeOK'
  BY <1>0, <1>1, <1>2, <1>3 DEF TypeOK, Registration, Terminal, Makers
<1>7. OneHolder'
  BY <1>4, <1>5 DEF OneHolder, HoldsReg, Destination
<1>8. StillTrue'
  <2>1. \A d \in Calls : call'[d].stage \in {"model", "commit"} =>
          call'[d] = call[d] /\ reg'[call[d].reg] = reg[call[d].reg]
    BY <1>0, <1>3, <1>5 DEF TypeOK
  <2>2. \A d \in Calls : call'[d].stage = "commit" =>
          mdl'[Destination(call[d].reg)] = mdl[Destination(call[d].reg)]
    BY <1>0, <1>3, <1>5 DEF TypeOK
  <2> QED
    BY <2>1, <2>2 DEF StillTrue, Destination
<1>9. ReceiptBacked'
  BY <1>0, <1>1, <1>3, TrainedRegistrationAssumption DEF ReceiptBacked, TypeOK, Open, Makers
<1>10. Inserted'
  BY <1>0, <1>1, <1>2, <1>3 DEF Inserted, TypeOK, Stages
<1>11. InHand'
  <2> SUFFICES ASSUME NEW q \in Regs, reg'[q].status = "uploaded", lost' = 0
               PROVE  \E d \in Calls :
                        /\ call'[d].reg = q
                        /\ call'[d].stage \in {"begin", "model", "commit", "undo", "fail"}
    BY DEF InHand
  <2>1. q # r /\ reg'[q] = reg[q] /\ lost = 0
    BY <1>0, <1>1, <1>2, <1>3 DEF TypeOK
  <2>2. PICK d \in Calls :
          /\ call[d].reg = q
          /\ call[d].stage \in {"begin", "model", "commit", "undo", "fail"}
    BY <2>1 DEF InHand
  <2> QED
    BY <1>2, <2>1, <2>2
<1> QED
  BY <1>6, <1>7, <1>8, <1>9, <1>10, <1>11

-----------------------------------------------------------------------------
\* A deleted model or another upload disturbs nothing: a transaction that relies
\* on the model has locked it (trained_artifact_store.go:171).
LEMMA Disturbing ==
    ASSUME IInv,
           \/ \E m \in Models : DeleteModel(m)
           \/ \E r \in Regs, content \in Contents : Upload(r, content)
    PROVE  IInv'
<1> USE DEF IInv, catalog, storage
<1>1. ASSUME NEW m \in Models, DeleteModel(m) PROVE IInv'
  <2>1. /\ UNCHANGED <<reg, ver, object, url, call, lost>> /\ TypeOK /\ ModelFree(m)
        /\ mdl' = [mdl EXCEPT ![m] = "deleted"]
    BY <1>1 DEF DeleteModel
  <2>2. TypeOK'
    BY <2>1 DEF TypeOK
  <2>3. OneHolder' /\ ReceiptBacked' /\ Inserted' /\ InHand'
    BY <2>1 DEF OneHolder, HoldsReg, Destination, ReceiptBacked, Inserted, InHand
  <2>4. StillTrue'
    BY <2>1 DEF StillTrue, Destination, ModelFree, HoldsModel, TypeOK
  <2> QED
    BY <2>2, <2>3, <2>4
<1>2. ASSUME NEW r \in Regs, NEW content \in Contents, Upload(r, content) PROVE IInv'
  <2>1. UNCHANGED <<reg, mdl, ver, url, call, lost>> /\ object' = [object EXCEPT ![r] = content]
    BY <1>2 DEF Upload
  <2>2. TypeOK'
    BY <2>1 DEF TypeOK
  <2> QED
    BY <2>1, <2>2 DEF OneHolder, HoldsReg, Destination, StillTrue, ReceiptBacked, Inserted, InHand
<1> QED
  BY <1>1, <1>2

-----------------------------------------------------------------------------
\* Every step keeps the invariant.
LEMMA NextIInv == IInv /\ [Next]_vars => IInv'
<1> SUFFICES ASSUME IInv, [Next]_vars PROVE IInv'
  OBVIOUS
<1>1. ASSUME NEW c \in Calls, Step(c) PROVE IInv'
  BY <1>1, Preparing, Working, Deciding, Publishing DEF Step
<1>2. ASSUME NEW c \in Calls, Error(c) PROVE IInv'
  BY <1>2, Working, Publishing DEF Error
<1>3. ASSUME NEW c \in Calls, Begin(c) PROVE IInv'
  BY <1>3, Preparing, Working DEF Begin
<1>4. CASE Outside
  BY <1>4, Deciding, Disturbing DEF Outside
<1>5. CASE UNCHANGED vars
  BY <1>5 DEF vars, IInv, TypeOK, OneHolder, HoldsReg, Destination, StillTrue, ReceiptBacked,
              Inserted, InHand
<1> QED
  BY <1>1, <1>2, <1>3, <1>4, <1>5 DEF Next

\* The inductive invariant holds of every reachable state, for any number of
\* registrations and of concurrent calls.
THEOREM Invariance == Spec => []IInv
  BY InitIInv, NextIInv, PTL DEF Spec

\* A registration is ready exactly when the one version it has made is there
\* (trained_artifact_store.go:136-202).
THEOREM ReceiptsAreBacked == Spec => []ReceiptBacked
<1>1. IInv => ReceiptBacked
  BY DEF IInv
<1> QED
  BY <1>1, Invariance, PTL

\* Unless a call was lost, somebody is about to decide a registration whose object
\* has been verified (trained_artifact_store.go:145-150).
THEOREM VerifiedIsInHand == Spec => []InHand
<1>1. IInv => InHand
  BY DEF IInv
<1> QED
  BY <1>1, Invariance, PTL

\* What a step changes of the registrations and of the versions: an open row that
\* nobody has locked, or a row and its version by the commit.
LEMMA Changing ==
    ASSUME IInv, Next
    PROVE  /\ \A r \in Regs : reg[r].status \in Terminal => reg'[r] = reg[r]
           /\ \A m \in Models : ver'[m] # ver[m] => mdl[m] # "deleted"
<1> USE DEF IInv, catalog, storage
<1>0. TypeOK
  OBVIOUS
<1> DEFINE Result == /\ \A r \in Regs : reg[r].status \in Terminal => reg'[r] = reg[r]
                     /\ \A m \in Models : ver'[m] # ver[m] => mdl[m] # "deleted"
<1>1. ASSUME NEW c \in Calls, Commit(c) \/ CommitUnanswered(c) PROVE Result
  <2> DEFINE r == call[c].reg
             m == Destination(r)
  <2>1. /\ r \in Regs /\ reg[r].status \in Open /\ mdl[m] # "deleted"
        /\ \A q \in Regs \ {r} : reg'[q] = reg[q]
        /\ \A n \in Models \ {m} : ver'[n] = ver[n]
    BY <1>0, <1>1 DEF Commit, CommitUnanswered, Publish, StillTrue, TypeOK
  <2> QED
    BY <2>1 DEF Open, Terminal
<1>2. ASSUME NEW c \in Calls, Insert(c) \/ MarkUploaded(c) \/ Fail(c) PROVE Result
  BY <1>0, <1>2 DEF Insert, MarkUploaded, Fail, Becomes, TypeOK, Open, Terminal
<1>3. ASSUME NEW r \in Regs, Abort(r) PROVE Result
  BY <1>0, <1>3 DEF Abort, Becomes, TypeOK, Open, Terminal
<1>4. ASSUME NEW c \in Calls,
             \/ CreateUploadURL(c) \/ ObjectExists(c) \/ VerifyObject(c) \/ Recheck(c)
             \/ LockRegistration(c) \/ LockModel(c) \/ Conflict(c) \/ Rollback(c)
             \/ StatementFails(c) \/ Lose(c) \/ Begin(c)
      PROVE  reg' = reg /\ ver' = ver
  BY <1>4 DEF CreateUploadURL, ObjectExists, VerifyObject, Recheck, LockRegistration, LockModel,
              Conflict, Rollback, StatementFails, Lose, Begin, BeginPrepare, BeginUploadURL,
              BeginComplete
<1>5. CASE \/ \E m \in Models : DeleteModel(m)
           \/ \E r \in Regs, content \in Contents : Upload(r, content)
  BY <1>5 DEF DeleteModel, Upload
<1> QED
  BY <1>1, <1>2, <1>3, <1>4, <1>5 DEF Next, Step, Error, Outside

\* A decided registration is never taken up again
\* (trained_artifact_store.go:117-119, 158-163, 204-218).
THEOREM OutcomesAreFinal == Spec => OutcomeFinal
<1>1. IInv /\ [Next]_vars => [\A r \in Regs : reg[r].status \in Terminal => reg'[r] = reg[r]]_vars
  BY Changing
<1> QED
  BY <1>1, Invariance, PTL DEF Spec, OutcomeFinal

\* No registration makes a version under a deleted model
\* (trained_artifact_store.go:171).
THEOREM DeletedModelsGetNoVersion == Spec => NoVersionUnderDeleted
<1>1. IInv /\ [Next]_vars =>
        [\A m \in Models : ver'[m] # ver[m] /\ ver'[m] \in Regs => mdl[m] # "deleted"]_vars
  BY Changing
<1> QED
  BY <1>1, Invariance, PTL DEF Spec, NoVersionUnderDeleted

-----------------------------------------------------------------------------
\* TrainedRegistration implements ArtifactOutcome.

\* The transaction of Complete is begun only for a registration that was marked
\* uploaded: MarkUploaded did it, or its re-check has found it
\* (trained_artifact_store.go:112-134).
Marked == \A c \in Calls :
    call[c].stage \in {"begin", "model", "commit"} =>
        reg[call[c].reg].status \notin {"absent", "pending"}

\* A receipt names a model only when the version is there.
NoEarlyReceipt == \A r \in Regs : reg[r].status # "ready" => reg[r].model = NoModel

\* What a step makes of the status of a registration and of the stage of a call.
LEMMA Moving ==
    ASSUME IInv, Next
    PROVE  /\ \A r \in Regs : reg'[r].status \in {"absent", "pending"} =>
                  reg[r].status \in {"absent", "pending"}
           /\ \A r \in Regs : reg'[r].status # "ready" =>
                  reg'[r].model = NoModel \/ (reg'[r].model = reg[r].model /\ reg[r].status # "ready")
           /\ \A c \in Calls : call'[c].stage \in {"begin", "model", "commit"} =>
                  \/ call'[c] = call[c]
                  \/ MarkUploaded(c) \/ Recheck(c) \/ LockRegistration(c) \/ LockModel(c)
<1> USE DEF IInv, catalog, storage
<1>0. TypeOK
  OBVIOUS
<1> DEFINE Rows == \A r \in Regs :
               /\ reg'[r].status \in {"absent", "pending"} => reg[r].status \in {"absent", "pending"}
               /\ reg'[r].status # "ready" =>
                      reg'[r].model = NoModel \/ (reg'[r].model = reg[r].model /\ reg[r].status # "ready")
           Result == /\ Rows
                     /\ \A c \in Calls : call'[c].stage \in {"begin", "model", "commit"} =>
                            \/ call'[c] = call[c]
                            \/ MarkUploaded(c) \/ Recheck(c) \/ LockRegistration(c) \/ LockModel(c)
<1>1. ASSUME NEW c \in Calls, Commit(c) \/ CommitUnanswered(c) \/ Insert(c) \/ Fail(c)
      PROVE  Result
  <2>1. /\ call'[c].stage \in {"none", "fail", "sign"}
        /\ \A d \in Calls \ {c} : call'[d] = call[d]
    BY <1>0, <1>1, Going, Ending DEF Commit, CommitUnanswered, Insert, Fail, Stages
  <2>2. Rows
    BY <1>0, <1>1 DEF Commit, CommitUnanswered, Publish, Insert, Fail, Becomes, TypeOK, Open
  <2> QED
    BY <2>1, <2>2
<1>2. ASSUME NEW r \in Regs, Abort(r) PROVE Result
  BY <1>0, <1>2 DEF Abort, Becomes, TypeOK, Open
<1>3. ASSUME NEW c \in Calls, MarkUploaded(c) PROVE Result
  <2>1. \A d \in Calls \ {c} : call'[d] = call[d]
    BY <1>0, <1>3, Going DEF MarkUploaded, Stages
  <2>2. Rows
    BY <1>0, <1>3 DEF MarkUploaded, Becomes, TypeOK
  <2> QED
    BY <1>3, <2>1, <2>2
<1>4. ASSUME NEW c \in Calls, Recheck(c) \/ LockRegistration(c) \/ LockModel(c) PROVE Result
  <2>1. reg' = reg /\ \A d \in Calls \ {c} : call'[d] = call[d]
    BY <1>0, <1>4, Going, Ending DEF Recheck, LockRegistration, LockModel, Stages
  <2> QED
    BY <1>4, <2>1
<1>5. ASSUME NEW c \in Calls,
             \/ CreateUploadURL(c) \/ ObjectExists(c) \/ VerifyObject(c) \/ Conflict(c)
             \/ Rollback(c) \/ StatementFails(c) \/ Lose(c) \/ Begin(c)
      PROVE  Result
  <2>1. reg' = reg
    BY <1>5 DEF CreateUploadURL, ObjectExists, VerifyObject, Conflict, Rollback, StatementFails,
                Lose, Begin, BeginPrepare, BeginUploadURL, BeginComplete
  <2>2. /\ call'[c].stage \notin {"begin", "model", "commit"}
        /\ \A d \in Calls \ {c} : call'[d] = call[d]
    BY <1>0, <1>5, Going, Ending
       DEF CreateUploadURL, ObjectExists, VerifyObject, Conflict, Rollback, StatementFails, Lose,
           Begin, BeginPrepare, BeginUploadURL, BeginComplete, Stages, TypeOK, Call
  <2> QED
    BY <2>1, <2>2
<1>6. CASE \/ \E m \in Models : DeleteModel(m)
           \/ \E r \in Regs, content \in Contents : Upload(r, content)
  BY <1>6 DEF DeleteModel, Upload
<1> QED
  BY <1>1, <1>2, <1>3, <1>4, <1>5, <1>6 DEF Next, Step, Error, Outside

LEMMA MarkedKept == IInv /\ Marked /\ [Next]_vars => Marked'
<1> SUFFICES ASSUME IInv, Marked, [Next]_vars, NEW c \in Calls,
                    call'[c].stage \in {"begin", "model", "commit"}
             PROVE  reg'[call'[c].reg].status \notin {"absent", "pending"}
  BY DEF Marked
<1>0. TypeOK
  BY DEF IInv
<1>1. CASE UNCHANGED vars
  BY <1>1 DEF vars, Marked
<1>2. CASE Next /\ call'[c] = call[c]
  <2>1. call[c].reg \in Regs
    BY <1>0, <1>2 DEF TypeOK
  <2> QED
    BY <1>2, <2>1, Moving DEF Marked
<1>3. CASE MarkUploaded(c)
  BY <1>0, <1>3, Going DEF MarkUploaded, Becomes, TypeOK, Stages
<1>4. CASE Recheck(c)
  BY <1>0, <1>4, Going, Ending DEF Recheck, Stages
<1>5. CASE LockRegistration(c) \/ LockModel(c)
  <2>1. reg' = reg /\ call'[c].reg = call[c].reg /\ call[c].stage \in {"begin", "model"}
    BY <1>0, <1>5, Going, Ending DEF LockRegistration, LockModel, Stages
  <2> QED
    BY <2>1 DEF Marked
<1> QED
  BY <1>1, <1>2, <1>3, <1>4, <1>5, Moving

LEMMA ReceiptsLate == IInv /\ NoEarlyReceipt /\ [Next]_vars => NoEarlyReceipt'
  BY Moving DEF vars, NoEarlyReceipt

LEMMA MarkedFirst == Spec => [](Marked /\ NoEarlyReceipt)
<1>1. Init => Marked /\ NoEarlyReceipt
  BY DEF Init, Marked, NoCall, NoEarlyReceipt
<1> QED
  BY <1>1, MarkedKept, ReceiptsLate, Invariance, PTL DEF Spec

\* A step that replaces the row of one registration, as the mapping sees it.
LEMMA RowMapped ==
    ASSUME TypeOK, NEW r \in Regs, NEW row \in Registration, reg' = [reg EXCEPT ![r] = row]
    PROVE  /\ [q \in Regs |-> reg[q].status]' = [[q \in Regs |-> reg[q].status] EXCEPT ![r] = row.status]
           /\ [q \in Regs |-> reg[q].target]' = [[q \in Regs |-> reg[q].target] EXCEPT ![r] = row.target]
           /\ [q \in Regs |-> reg[q].model]' = [[q \in Regs |-> reg[q].model] EXCEPT ![r] = row.model]
           /\ row.target = reg[r].target => [q \in Regs |-> reg[q].target]' = [q \in Regs |-> reg[q].target]
           /\ row.model = reg[r].model => [q \in Regs |-> reg[q].model]' = [q \in Regs |-> reg[q].model]
<1>1. \A q \in Regs : reg'[q] = IF q = r THEN row ELSE reg[q]
  BY DEF TypeOK
<1>2. [q \in Regs |-> reg'[q].status] = [[q \in Regs |-> reg[q].status] EXCEPT ![r] = row.status]
  <2> DEFINE f == [q \in Regs |-> reg[q].status]
             g == [q \in Regs |-> reg'[q].status]
  <2>1. \A q \in Regs : g[q] = IF q = r THEN row.status ELSE f[q]
    BY <1>1
  <2>2. DOMAIN f = Regs /\ g = [q \in Regs |-> g[q]]
    OBVIOUS
  <2> HIDE DEF f, g
  <2>3. [f EXCEPT ![r] = row.status] = [q \in Regs |-> IF q = r THEN row.status ELSE f[q]]
    BY <2>2
  <2> QED
    BY <2>1, <2>2, <2>3 DEF f, g
<1>3. [q \in Regs |-> reg'[q].target] = [[q \in Regs |-> reg[q].target] EXCEPT ![r] = row.target]
  <2> DEFINE f == [q \in Regs |-> reg[q].target]
             g == [q \in Regs |-> reg'[q].target]
  <2>1. \A q \in Regs : g[q] = IF q = r THEN row.target ELSE f[q]
    BY <1>1
  <2>2. DOMAIN f = Regs /\ g = [q \in Regs |-> g[q]]
    OBVIOUS
  <2> HIDE DEF f, g
  <2>3. [f EXCEPT ![r] = row.target] = [q \in Regs |-> IF q = r THEN row.target ELSE f[q]]
    BY <2>2
  <2> QED
    BY <2>1, <2>2, <2>3 DEF f, g
<1>4. [q \in Regs |-> reg'[q].model] = [[q \in Regs |-> reg[q].model] EXCEPT ![r] = row.model]
  <2> DEFINE f == [q \in Regs |-> reg[q].model]
             g == [q \in Regs |-> reg'[q].model]
  <2>1. \A q \in Regs : g[q] = IF q = r THEN row.model ELSE f[q]
    BY <1>1
  <2>2. DOMAIN f = Regs /\ g = [q \in Regs |-> g[q]]
    OBVIOUS
  <2> HIDE DEF f, g
  <2>3. [f EXCEPT ![r] = row.model] = [q \in Regs |-> IF q = r THEN row.model ELSE f[q]]
    BY <2>2
  <2> QED
    BY <2>1, <2>2, <2>3 DEF f, g
<1>5. row.target = reg[r].target => [q \in Regs |-> reg'[q].target] = [q \in Regs |-> reg[q].target]
  BY <1>1
<1>6. row.model = reg[r].model => [q \in Regs |-> reg'[q].model] = [q \in Regs |-> reg[q].model]
  BY <1>1
<1> QED
  BY <1>2, <1>3, <1>4, <1>5, <1>6

\* A step that leaves the rows and the catalog alone is none of ArtifactOutcome.
LEMMA Unseen ==
    ASSUME UNCHANGED <<reg, mdl, ver>>
    PROVE  UNCHANGED Outcome!vars
  BY DEF Outcome!vars

\* A step that only decides, or marks, the status of one registration.
LEMMA StatusMapped ==
    ASSUME TypeOK, NEW r \in Regs, NEW status \in {"uploaded", "failed", "aborted"},
           Becomes(r, status), UNCHANGED <<mdl, ver>>,
           IF status = "uploaded" THEN reg[r].status = "pending" ELSE reg[r].status \in Open
    PROVE  Outcome!Next
<1>1. [status |-> status, target |-> reg[r].target, model |-> reg[r].model] \in Registration
  BY DEF TypeOK, Registration, Open, Terminal
<1>2. /\ [q \in Regs |-> reg[q].status]' = [[q \in Regs |-> reg[q].status] EXCEPT ![r] = status]
      /\ [q \in Regs |-> reg[q].target]' = [q \in Regs |-> reg[q].target]
      /\ [q \in Regs |-> reg[q].model]' = [q \in Regs |-> reg[q].model]
  <2>1. PICK row \in Registration :
          row = [status |-> status, target |-> reg[r].target, model |-> reg[r].model]
    BY <1>1
  <2>2. reg' = [reg EXCEPT ![r] = row]
    BY <2>1 DEF Becomes
  <2> QED
    BY <2>1, <2>2, RowMapped
<1>3. CASE status = "uploaded"
  <2>1. Outcome!FindRight(r)
    BY <1>2, <1>3 DEF Outcome!FindRight
  <2> QED
    BY <2>1 DEF Outcome!Next
<1>4. CASE status \in {"failed", "aborted"}
  <2>1. Outcome!GiveUp(r, status)
    BY <1>2, <1>4 DEF Outcome!GiveUp, Open
  <2> QED
    BY <1>4, <2>1 DEF Outcome!Next
<1> QED
  BY <1>3, <1>4

\* The commit is MakeVersion: what the transaction has looked at is still true.
LEMMA CommitMapped ==
    ASSUME IInv, Marked, NEW c \in Calls, Commit(c) \/ CommitUnanswered(c)
    PROVE  Outcome!Next
<1>0. TypeOK /\ call[c].stage = "commit"
  BY DEF IInv, Commit, CommitUnanswered
<1>1. PICK r \in Regs : r = call[c].reg
  BY <1>0 DEF TypeOK
<1>2. reg[r] \in Registration /\ Destination(r) \in Models
  BY <1>0 DEF TypeOK, Destination, Registration, Models
<1>3. PICK m \in Models : m = Destination(r)
  BY <1>2
<1>4. PICK row \in Registration : row = [status |-> "ready", target |-> reg[r].target, model |-> m]
  BY <1>2 DEF Registration, Terminal
<1>5. reg[r].status = "uploaded"
  BY <1>0, <1>1 DEF IInv, StillTrue, Marked, Open
<1>6. mdl[m] = IF reg[r].target = NoModel THEN "absent" ELSE "present"
  BY <1>0, <1>1, <1>3 DEF IInv, StillTrue
<1>7. /\ reg' = [reg EXCEPT ![r] = row]
      /\ mdl' = [mdl EXCEPT ![m] = "present"]
      /\ ver' = [ver EXCEPT ![m] = r]
      /\ ver[m] = NoReg
  BY <1>1, <1>3, <1>4 DEF Commit, CommitUnanswered, Publish
<1>8. /\ [q \in Regs |-> reg[q].status]' = [[q \in Regs |-> reg[q].status] EXCEPT ![r] = "ready"]
      /\ [q \in Regs |-> reg[q].target]' = [q \in Regs |-> reg[q].target]
      /\ [q \in Regs |-> reg[q].model]' = [[q \in Regs |-> reg[q].model] EXCEPT ![r] = m]
  BY <1>0, <1>4, <1>7, RowMapped
<1>9. Outcome!MakeVersion(r, m)
  BY <1>3, <1>5, <1>6, <1>7, <1>8 DEF Outcome!MakeVersion, Destination
<1> QED
  BY <1>9 DEF Outcome!Next

LEMMA StepMapped == IInv /\ Marked /\ NoEarlyReceipt /\ [Next]_vars => [Outcome!Next]_(Outcome!vars)
<1> SUFFICES ASSUME IInv, Marked, NoEarlyReceipt, [Next]_vars
             PROVE  Outcome!Next \/ UNCHANGED Outcome!vars
  OBVIOUS
<1> USE DEF catalog, storage
<1>0. TypeOK
  BY DEF IInv
<1>1. ASSUME NEW c \in Calls, Insert(c), reg' # reg PROVE Outcome!Next
  <2>0. call[c].reg \in Regs /\ call[c].target \in Models \cup {NoModel}
    BY <1>0, <1>1 DEF Insert, TypeOK, Call
  <2>1. PICK r \in Regs, m \in Models \cup {NoModel} : r = call[c].reg /\ m = call[c].target
    BY <2>0
  <2>2. /\ reg[r].status = "absent"
        /\ reg' = [reg EXCEPT ![r] = [status |-> "pending", target |-> m, model |-> NoModel]]
        /\ UNCHANGED <<mdl, ver>>
    BY <1>1, <2>1 DEF Insert
  <2>3. reg[r].model = NoModel
    BY <2>1, <2>2 DEF NoEarlyReceipt
  <2>4. PICK row \in Registration : row = [status |-> "pending", target |-> m, model |-> NoModel]
    BY <2>1 DEF Registration, Open
  <2>5. /\ [q \in Regs |-> reg[q].status]' = [[q \in Regs |-> reg[q].status] EXCEPT ![r] = "pending"]
        /\ [q \in Regs |-> reg[q].target]' = [[q \in Regs |-> reg[q].target] EXCEPT ![r] = m]
        /\ [q \in Regs |-> reg[q].model]' = [q \in Regs |-> reg[q].model]
    BY <1>0, <2>1, <2>2, <2>3, <2>4, RowMapped
  <2>6. Outcome!Register(r, m)
    BY <2>1, <2>2, <2>5 DEF Outcome!Register
  <2> QED
    BY <2>1, <2>6 DEF Outcome!Next
<1>2. ASSUME NEW c \in Calls, MarkUploaded(c) \/ Fail(c), reg' # reg PROVE Outcome!Next
  <2>1. PICK r \in Regs : r = call[c].reg
    BY <1>0, <1>2 DEF MarkUploaded, Fail, TypeOK
  <2>2. CASE MarkUploaded(c)
    BY <1>0, <1>2, <2>1, <2>2, StatusMapped DEF MarkUploaded
  <2>3. CASE Fail(c)
    BY <1>0, <1>2, <2>1, <2>3, StatusMapped DEF Fail
  <2> QED
    BY <1>2, <2>2, <2>3
<1>3. ASSUME NEW r \in Regs, Abort(r) PROVE Outcome!Next
  BY <1>0, <1>3, StatusMapped DEF Abort
<1>4. ASSUME NEW m \in Models, DeleteModel(m) PROVE Outcome!Next
  <2>1. Outcome!Delete(m)
    BY <1>4 DEF DeleteModel, Outcome!Delete, Outcome!rows
  <2> QED
    BY <2>1 DEF Outcome!Next
<1>5. ASSUME NEW c \in Calls,
             \/ CreateUploadURL(c) \/ ObjectExists(c) \/ VerifyObject(c) \/ Recheck(c)
             \/ LockRegistration(c) \/ LockModel(c) \/ Conflict(c) \/ Rollback(c)
             \/ StatementFails(c) \/ Lose(c) \/ Begin(c)
             \/ (Insert(c) \/ MarkUploaded(c) \/ Fail(c)) /\ reg' = reg
      PROVE  UNCHANGED <<reg, mdl, ver>>
  BY <1>5 DEF CreateUploadURL, ObjectExists, VerifyObject, Recheck, LockRegistration, LockModel,
              Conflict, Rollback, StatementFails, Lose, Begin, BeginPrepare, BeginUploadURL,
              BeginComplete, Insert, MarkUploaded, Fail
<1>6. ASSUME NEW r \in Regs, NEW content \in Contents, Upload(r, content)
      PROVE  UNCHANGED <<reg, mdl, ver>>
  BY <1>6 DEF Upload
<1>7. CASE UNCHANGED vars
  BY <1>7, Unseen DEF vars
<1> QED
  BY <1>1, <1>2, <1>3, <1>4, <1>5, <1>6, <1>7, CommitMapped, Unseen DEF Next, Step, Error, Outside

\* Complete, Abort, Fail and the deletion of a model, with all their calls, locks and
\* lost answers, do to registrations and versions what ArtifactOutcome does in single
\* steps (trained_artifact_store.go:136-218).
THEOREM OutcomeIsImplemented == Spec => ImplementsOutcome
<1>1. Init => Outcome!Init
  BY DEF Init, Outcome!Init
<1>2. IInv /\ Marked /\ NoEarlyReceipt /\ [Next]_vars => [Outcome!Next]_(Outcome!vars)
  BY StepMapped
<1> QED
  BY <1>1, <1>2, Invariance, MarkedFirst, PTL DEF Spec, ImplementsOutcome, Outcome!Spec
=============================================================================
