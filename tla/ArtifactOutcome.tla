-------------------------- MODULE ArtifactOutcome --------------------------
(***************************************************************************)
(* What the service promises of trained artifacts, without calls, locks or *)
(* transactions: a registration is decided once; it becomes ready only     *)
(* after its object was found to be right, and in the same moment there is *)
(* one version of one model that its receipt names, under a model that was *)
(* there or that the registration has made.  A registration that is given  *)
(* up leaves nothing behind.  TrainedRegistration implements this module.  *)
(***************************************************************************)
CONSTANTS Regs, Models, NoReg, NoModel

VARIABLES
    status,   \* status[r]: what has become of registration r
    target,   \* target[r]: the model it is meant for, NoModel for a new one
    receipt,  \* receipt[r]: the model under which it has made its version
    catalog,  \* catalog[m]: whether the model is there
    version   \* version[m]: the registration that made the version of m

rows == <<status, target, receipt>>
vars == <<status, target, receipt, catalog, version>>

Init ==
    /\ status = [r \in Regs |-> "absent"]
    /\ target = [r \in Regs |-> NoModel]
    /\ receipt = [r \in Regs |-> NoModel]
    /\ catalog \in [Models -> {"absent", "present"}]
    /\ version = [m \in Models |-> NoReg]

Register(r, m) ==
    /\ status[r] = "absent"
    /\ status' = [status EXCEPT ![r] = "pending"]
    /\ target' = [target EXCEPT ![r] = m]
    /\ UNCHANGED <<receipt, catalog, version>>

\* The object was found to have the declared size and checksum.
FindRight(r) ==
    /\ status[r] = "pending"
    /\ status' = [status EXCEPT ![r] = "uploaded"]
    /\ UNCHANGED <<target, receipt, catalog, version>>

MakeVersion(r, m) ==
    /\ status[r] = "uploaded"
    /\ IF target[r] = NoModel THEN catalog[m] = "absent"
                              ELSE m = target[r] /\ catalog[m] = "present"
    /\ version[m] = NoReg
    /\ status' = [status EXCEPT ![r] = "ready"]
    /\ receipt' = [receipt EXCEPT ![r] = m]
    /\ catalog' = [catalog EXCEPT ![m] = "present"]
    /\ version' = [version EXCEPT ![m] = r]
    /\ UNCHANGED target

GiveUp(r, reason) ==
    /\ status[r] \in {"pending", "uploaded"}
    /\ status' = [status EXCEPT ![r] = reason]
    /\ UNCHANGED <<target, receipt, catalog, version>>

Delete(m) ==
    /\ catalog[m] = "present"
    /\ catalog' = [catalog EXCEPT ![m] = "deleted"]
    /\ UNCHANGED <<rows, version>>

Next ==
    \/ \E r \in Regs :
          \/ \E m \in Models \cup {NoModel} : Register(r, m)
          \/ FindRight(r)
          \/ \E m \in Models : MakeVersion(r, m)
          \/ \E reason \in {"failed", "aborted"} : GiveUp(r, reason)
    \/ \E m \in Models : Delete(m)

Spec == Init /\ [][Next]_vars
=============================================================================
