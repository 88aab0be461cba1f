---------------------------- MODULE TaskLifecycle ----------------------------
(***************************************************************************)
(* What the task store promises to its callers, without rows, epochs or    *)
(* clocks: an open task is worked on by at most one worker at a time, only *)
(* that worker decides the outcome, and an outcome is final except that a  *)
(* failed task may be opened again.  Module ImportTasks is shown to        *)
(* implement this specification.                                           *)
(***************************************************************************)
CONSTANTS Tasks, Workers

VARIABLES
    outcome,   \* outcome[t]: "absent", "open", "completed" or "failed"
    holders    \* holders[t]: the workers entitled to decide it

lifecycleVars == <<outcome, holders>>

LifecycleTypeOK ==
    /\ outcome \in [Tasks -> {"absent", "open", "completed", "failed"}]
    /\ holders \in [Tasks -> SUBSET Workers]

LifecycleInit ==
    /\ outcome = [t \in Tasks |-> "absent"]
    /\ holders = [t \in Tasks |-> {}]

Submit(t) ==
    /\ outcome[t] = "absent"
    /\ outcome' = [outcome EXCEPT ![t] = "open"]
    /\ UNCHANGED holders

Acquire(t, w) ==
    /\ outcome[t] = "open"
    /\ holders[t] = {}
    /\ holders' = [holders EXCEPT ![t] = {w}]
    /\ UNCHANGED outcome

\* Leases run out, workers crash or give their tasks back.
Release(S) ==
    /\ holders' = [t \in Tasks |-> IF t \in S THEN {} ELSE holders[t]]
    /\ UNCHANGED outcome

Decide(t, w, result) ==
    /\ outcome[t] = "open"
    /\ holders[t] = {w}
    /\ outcome' = [outcome EXCEPT ![t] = result]
    /\ holders' = [holders EXCEPT ![t] = {}]

Reopen(t) ==
    /\ outcome[t] = "failed"
    /\ outcome' = [outcome EXCEPT ![t] = "open"]
    /\ UNCHANGED holders

LifecycleNext ==
    \/ \E t \in Tasks : Submit(t) \/ Reopen(t)
    \/ \E t \in Tasks, w \in Workers :
          \/ Acquire(t, w)
          \/ \E result \in {"completed", "failed"} : Decide(t, w, result)
    \/ \E S \in SUBSET Tasks : Release(S)

LifecycleSpec == LifecycleInit /\ [][LifecycleNext]_lifecycleVars
=============================================================================
