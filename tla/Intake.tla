------------------------------- MODULE Intake -------------------------------
(***************************************************************************)
(* What the API promises its callers when it takes something in: a request *)
(* is carried out as a whole or not at all, at one moment between its      *)
(* arrival and its answer, and the tables never hold two rows for one      *)
(* unique entry.  A call that is accepted is told a row that is there and  *)
(* that was asked for in the same words; a call that is refused does       *)
(* nothing from then on, though it may have been carried out before.       *)
(*                                                                         *)
(* How a key is looked up, where a handler is and what a transaction has   *)
(* not committed are Admission's, which implements this module.            *)
(***************************************************************************)
EXTENDS Naturals

CONSTANTS Calls, Requests, Retry, NoRequest, NoRow, NoKey

VARIABLES
    asked,   \* asked[c]: the request of call c
    stored,  \* stored[t]: the calls whose row is in table t
    answer,  \* answer[c]: how call c was answered
    told     \* told[c]: the row an accepted call was told

vars == <<asked, stored, answer, told>>

Tables == {"model", "version", "task"}

\* The tables a request is about.
TablesOf(r) == CASE r.op = "bundle" -> Tables
                 [] r.op = "retry"  -> {"task"}
                 [] OTHER           -> {r.op}

\* The requests have one idempotency key.
OneKey(r, s) == r.key = s.key /\ r.key # NoKey

\* The rows of both requests would be one entry of an index of table t.
Collide(t, r, s) ==
    \/ OneKey(r, s)
    \/ t = "model" /\ r.name = s.name
    \/ t = "version" /\ r.op = "version" /\ s.op = "version"

\* A request says the same as another; the path of an upload may differ.
Repeats(r, s) == OneKey(r, s) /\ r.op = s.op /\ r.name = s.name /\ r.sum = s.sum

Init ==
    /\ asked = [c \in Calls |-> NoRequest]
    /\ stored = [t \in Tables |-> {}]
    /\ answer = [c \in Calls |-> "none"]
    /\ told = [c \in Calls |-> NoRow]

Ask(c, r) ==
    /\ asked[c] = NoRequest
    /\ asked' = [asked EXCEPT ![c] = r]
    /\ UNCHANGED <<stored, answer, told>>

Waiting(c) == asked[c] # NoRequest /\ answer[c] = "none"

\* A request to retry a task brings no row.
CarryOut(c) ==
    /\ Waiting(c) /\ asked[c] # Retry
    /\ \A t \in TablesOf(asked[c]) :
          c \notin stored[t] /\ ~\E d \in stored[t] : Collide(t, asked[c], asked[d])
    /\ stored' = [t \in Tables |-> IF t \in TablesOf(asked[c]) THEN stored[t] \cup {c}
                                                              ELSE stored[t]]
    /\ UNCHANGED <<asked, answer, told>>

Accept(c, d) ==
    /\ Waiting(c)
    /\ d = c \/ asked[c] = Retry \/ Repeats(asked[c], asked[d])
    /\ \A t \in TablesOf(asked[c]) : d \in stored[t]
    /\ answer' = [answer EXCEPT ![c] = "accepted"]
    /\ told' = [told EXCEPT ![c] = d]
    /\ UNCHANGED <<asked, stored>>

Refuse(c) ==
    /\ Waiting(c)
    /\ answer' = [answer EXCEPT ![c] = "refused"]
    /\ UNCHANGED <<asked, stored, told>>

Next == \E c \in Calls :
    \/ \E r \in Requests \cup {Retry} : Ask(c, r)
    \/ CarryOut(c)
    \/ \E d \in Calls : Accept(c, d)
    \/ Refuse(c)

Spec == Init /\ [][Next]_vars
=============================================================================
