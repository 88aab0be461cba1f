--------------------------- MODULE AdmissionProofs ---------------------------
(***************************************************************************)
(* Proofs about Admission for any sets of calls, requests and stored       *)
(* objects and any number of calls that run at a time, break off or fail.  *)
(***************************************************************************)
EXTENDS Admission, TLAPS

\* Places at which a handler knows its row, and places inside a transaction or
\* in front of it.
Knowing == {"verify", "record", "markReady", "audit"}
Bundling == {"replay", "begin", "inModel", "inVersion", "inTask", "commit", "replayAgain"}

\* Where a call is tells what it asked for and what it has found out.
PlaceFits(c) ==
    /\ IF at[c] = "idle" THEN req[c] = NoRequest ELSE req[c] \in Requests \cup {Retry}
    /\ at[c] \in {"lookup", "insert"} => req[c].op \in Tables
    /\ at[c] = "reread" => req[c].op = "task"
    /\ at[c] \in Bundling => req[c].op = "bundle"
    /\ at[c] = "retry" => req[c].op = "retry"
    /\ at[c] \in {"verify", "record", "markReady"} => req[c].op = "version" /\ req[c].path \in Paths
    /\ at[c] \in {"record", "markReady"} => Stored[req[c].path] = req[c].sum
    /\ at[c] = "markReady" => artifact[got[c]] # NoArtifact
    /\ Ok(c) => at[c] = "done"

\* Only the transaction of a bundle has inserts that are not committed.
OpenFits(c) ==
    /\ at[c] = "inVersion" => open[c] = {"model"}
    /\ at[c] = "inTask" => open[c] = {"model", "version"}
    /\ at[c] = "commit" => open[c] = Tables
    /\ at[c] \notin {"inVersion", "inTask", "commit"} => open[c] = {}

\* A call has no rows before it knows its row, and a bundle has all or none.
RowsFit(c) ==
    /\ \A t \in Tables : c \in rows[t] => at[c] \in Knowing \cup {"done"}
    /\ req[c].op = "bundle" =>
          \/ \A t \in Tables : c \in rows[t]
          \/ \A t \in Tables : c \notin rows[t]

\* The tables in which the row a request speaks of is.
TablesOf(op) == CASE op = "bundle" -> Tables
                  [] op = "retry"  -> {"task"}
                  [] OTHER         -> {op}

RowKnown(c) ==
    at[c] \in Knowing \/ Ok(c) =>
        /\ got[c] \in Calls
        /\ \A t \in TablesOf(req[c].op) : got[c] \in rows[t]
        /\ req[c].op # "retry" => ReplayMatches(got[c], c) /\ (got[c] # c => req[c].key # NoKey)
        /\ Ok(c) /\ req[c].path = NoPath => <<req[c].op, got[c]>> \in events

\* The unique indexes hold among committed and uncommitted rows.
Present(t, c) == c \in rows[t] \/ t \in open[c]
Unique == \A t \in Tables : \A c, d \in Calls : Present(t, c) /\ Present(t, d) => ~Clash(t, c, d)

\* An artifact is recorded for the object that was verified.
ArtifactsFit ==
    \A v \in Calls : artifact[v] # NoArtifact =>
        artifact[v].path \in Paths /\ Stored[artifact[v].path] = artifact[v].sum

CallFits(c) == PlaceFits(c) /\ OpenFits(c) /\ RowsFit(c) /\ RowKnown(c)

AdmissionInv ==
    /\ TypeOK
    /\ \A c \in Calls : CallFits(c)
    /\ Unique
    /\ ArtifactsFit
    /\ UploadsVerified

-----------------------------------------------------------------------------
LEMMA RequestFacts ==
    ASSUME NEW r \in Requests \cup {Retry}
    PROVE  /\ r.op \in Tables \cup {"bundle", "retry"}
           /\ r.op # "version" => r.path = NoPath
           /\ r.path \in Paths \cup {NoPath}
           /\ r.sum \in Sums \cup {NoRow}
           /\ r.op = "retry" => r.key = NoKey
           /\ r \in Requests /\ r.op = "version" => r.sum \in Sums
  BY AdmissionAssumption DEF Request, Retry, Tables

LEMMA TablesOfOps ==
    ASSUME NEW op \in Tables \cup {"bundle", "retry"}
    PROVE  /\ TablesOf(op) \subseteq Tables
           /\ \E t \in Tables : t \in TablesOf(op)
           /\ op \in Tables => TablesOf(op) = {op}
           /\ op = "bundle" => TablesOf(op) = Tables
           /\ op = "retry" => TablesOf(op) = {"task"}
  BY DEF TablesOf, Tables

LEMMA FingerprintKey ==
    ASSUME NEW r \in Requests \cup {Retry, NoRequest}, NEW s \in Requests \cup {Retry, NoRequest},
           Fingerprint(r) = Fingerprint(s)
    PROVE  r.key = s.key /\ r.op = s.op /\ r.name = s.name /\ r.sum = s.sum
<1> DEFINE Has(f, x) == f.key = x.key /\ f.op = x.op /\ f.name = x.name /\ f.sum = x.sum
<1>1. Has(Fingerprint(r), r) /\ Has(Fingerprint(s), s)
  BY AdmissionAssumption DEF Fingerprint, Request, Retry, NoRequest
<1> QED
  BY <1>1

\* The invariant implies what the runs check.
LEMMA AdmissionPromises ==
    ASSUME AdmissionInv
    PROVE  OneOutcome /\ BundlesWhole /\ AnswersAudited /\ UploadsVerified
<1> USE DEF AdmissionInv
<1>1. ASSUME NEW c \in Calls, Ok(c)
      PROVE  /\ at[c] = "done" /\ req[c] \in Requests \cup {Retry}
             /\ req[c].op \in Tables \cup {"bundle", "retry"}
             /\ got[c] \in Calls
             /\ \A t \in TablesOf(req[c].op) : got[c] \in rows[t]
             /\ req[c].op # "retry" => ReplayMatches(got[c], c)
             /\ req[c].path = NoPath => <<req[c].op, got[c]>> \in events
  BY <1>1, RequestFacts DEF CallFits, PlaceFits, RowKnown
<1>2. OneOutcome
  <2> SUFFICES ASSUME NEW c \in Calls, NEW d \in Calls, Ok(c), Ok(d),
                      req[c].op = req[d].op, req[c].key = req[d].key, req[c].key # NoKey
               PROVE  got[c] = got[d] /\ Fingerprint(req[c]) = Fingerprint(req[d])
    BY DEF OneOutcome
  <2>1. req[c].op # "retry"
    BY <1>1, RequestFacts
  <2>2. PICK t \in Tables : t \in TablesOf(req[c].op)
    BY <1>1, TablesOfOps
  <2>3. /\ Fingerprint(req[got[c]]) = Fingerprint(req[c])
        /\ Fingerprint(req[got[d]]) = Fingerprint(req[d])
    BY <1>1, <2>1 DEF ReplayMatches
  <2>4. ASSUME NEW x \in {c, d} PROVE req[got[x]].key = req[x].key
    <3>1. /\ req[x] \in Requests \cup {Retry, NoRequest}
          /\ req[got[x]] \in Requests \cup {Retry, NoRequest}
      BY <1>1 DEF TypeOK
    <3> QED
      BY <2>3, <3>1, FingerprintKey
  <2>6. Present(t, got[c]) /\ Present(t, got[d])
    BY <1>1, <2>2 DEF Present
  <2>7. ~Clash(t, got[c], got[d])
    BY <1>1, <2>6 DEF Unique
  <2>5. got[c] = got[d]
    BY <2>4, <2>7 DEF Clash
  <2> QED
    BY <2>3, <2>5
<1>3. BundlesWhole
  <2>1. ASSUME NEW c \in Calls, req[c].op = "bundle", Ok(c)
        PROVE  \A t \in Tables : got[c] \in rows[t]
    BY <1>1, <2>1, TablesOfOps
  <2> QED
    BY <2>1 DEF BundlesWhole, CallFits, RowsFit
<1>4. AnswersAudited
  BY <1>1, TablesOfOps DEF AnswersAudited
<1> QED
  BY <1>2, <1>3, <1>4
-----------------------------------------------------------------------------
\* What a step of call c leaves alone: it may add a row of its own, an audit event
\* and an artifact where there is none.
StepOf(c) ==
    /\ req' = req
    /\ \A d \in Calls \ {c} : /\ at'[d] = at[d] /\ got'[d] = got[d]
                              /\ reply'[d] = reply[d] /\ open'[d] = open[d]
    /\ \A t \in Tables : rows[t] \subseteq rows'[t] /\ rows'[t] \subseteq rows[t] \cup {c}
    /\ events \subseteq events'
    /\ \A v \in Calls : artifact[v] # NoArtifact => artifact'[v] = artifact[v]

LEMMA OthersKeep ==
    ASSUME AdmissionInv, NEW c \in Calls, StepOf(c), NEW d \in Calls, d # c
    PROVE  CallFits(d)'
<1>1. CallFits(d)
  BY DEF AdmissionInv
<1>2. /\ req'[d] = req[d] /\ at'[d] = at[d] /\ got'[d] = got[d]
      /\ reply'[d] = reply[d] /\ open'[d] = open[d]
  BY DEF StepOf
<1>3. at[d] \in Knowing \/ Ok(d) => at[d] # "idle"
  BY <1>1 DEF CallFits, PlaceFits, Knowing
<1>4. at[d] # "idle" => TablesOf(req[d].op) \subseteq Tables
  BY <1>1, RequestFacts, TablesOfOps DEF CallFits, PlaceFits
<1>5. PlaceFits(d)'
  <2>1. at[d] = "markReady" => artifact'[got[d]] # NoArtifact
    BY <1>1 DEF CallFits, PlaceFits, RowKnown, Knowing, StepOf
  <2> QED
    BY <1>1, <1>2, <2>1 DEF CallFits, PlaceFits, Ok
<1>6. OpenFits(d)'
  BY <1>1, <1>2 DEF CallFits, OpenFits
<1>7. RowsFit(d)'
  BY <1>1, <1>2 DEF CallFits, RowsFit, StepOf
<1>8. RowKnown(d)'
  BY <1>1, <1>2, <1>3, <1>4 DEF CallFits, RowKnown, StepOf, ReplayMatches, Ok
<1> QED
  BY <1>5, <1>6, <1>7, <1>8 DEF CallFits

\* The unique indexes keep what an insert checked.
LEMMA IndexesKeep ==
    ASSUME AdmissionInv, NEW c \in Calls, StepOf(c),
           \A t \in Tables : Present(t, c)' => Present(t, c) \/ (~Taken(t, c) /\ ~Waits(t, c))
    PROVE  Unique'
<1> SUFFICES ASSUME NEW t \in Tables, NEW d \in Calls, NEW e \in Calls,
                    Present(t, d)', Present(t, e)', d # e
             PROVE  ~Clash(t, d, e)
  BY DEF Unique, Clash, StepOf
<1>1. \A x \in Calls \ {c} : Present(t, x)' => Present(t, x)
  BY DEF Present, StepOf
<1>2. Clash(t, d, e) <=> Clash(t, e, d)
  BY DEF Clash
<1>3. CASE Present(t, d) /\ Present(t, e)
  BY <1>3 DEF AdmissionInv, Unique
<1>4. ASSUME NEW x \in Calls \ {c}, Present(t, x), ~Taken(t, c), ~Waits(t, c)
      PROVE  ~Clash(t, c, x)
  BY <1>4 DEF Present, Taken, Waits
<1> QED
  BY <1>1, <1>2, <1>3, <1>4

LEMMA Composes ==
    ASSUME AdmissionInv, NEW c \in Calls, StepOf(c), TypeOK', CallFits(c)', Unique',
           ArtifactsFit', UploadsVerified'
    PROVE  AdmissionInv'
  BY OthersKeep DEF AdmissionInv

\* A step that changes no row, no insert and no artifact.
LEMMA Passing ==
    ASSUME AdmissionInv, NEW c \in Calls, StepOf(c), TypeOK', CallFits(c)',
           rows' = rows, open' = open, ready' = ready, artifact' = artifact
    PROVE  AdmissionInv'
<1>1. Unique'
  BY DEF StepOf, AdmissionInv, Unique, Present, Clash
<1>2. ArtifactsFit' /\ UploadsVerified'
  BY DEF StepOf, AdmissionInv, ArtifactsFit, UploadsVerified, TypeOK
<1> QED
  BY <1>1, <1>2, Composes
-----------------------------------------------------------------------------
\* Where a call may go.

LEMMA Going ==
    ASSUME TypeOK, NEW c \in Calls, NEW p, Goto(c, p)
    PROVE  /\ at'[c] = p /\ reply' = reply
           /\ \A d \in Calls \ {c} : at'[d] = at[d]
           /\ p \in Places => at' \in [Calls -> Places]
  BY DEF TypeOK, Goto

LEMMA Answering ==
    ASSUME TypeOK, NEW c \in Calls, NEW a \in Answers, Answer(c, a)
    PROVE  /\ at'[c] = "done" /\ reply'[c] = a
           /\ \A d \in Calls \ {c} : at'[d] = at[d] /\ reply'[d] = reply[d]
           /\ at' \in [Calls -> Places] /\ reply' \in [Calls -> Answers]
  BY DEF TypeOK, Answer, Places

\* A call that is refused has nothing left to say.
LEMMA Refused ==
    ASSUME AdmissionInv, NEW c \in Calls, NEW a \in Answers \ {"ok"}, Answer(c, a),
           at[c] # "idle", req' = req, rows' = rows, open'[c] = {}
    PROVE  CallFits(c)'
<1>1. at'[c] = "done" /\ reply'[c] = a
  BY Answering DEF AdmissionInv
<1>2. PlaceFits(c)'
  BY <1>1 DEF PlaceFits, Ok, Bundling, AdmissionInv, CallFits
<1>3. OpenFits(c)' /\ RowKnown(c)'
  BY <1>1 DEF OpenFits, RowKnown, Ok, Knowing
<1>4. RowsFit(c)'
  BY <1>1 DEF RowsFit, AdmissionInv, CallFits
<1> QED
  BY <1>2, <1>3, <1>4 DEF CallFits

\* A call that knows a row goes on to finalize it, to audit it, or is answered.
LEMMA Proceeding ==
    ASSUME AdmissionInv, NEW c \in Calls, NEW row \in Calls, NEW isReady \in BOOLEAN,
           Proceed(c, row, isReady), at[c] \notin {"idle", "done"},
           req[c].op # "retry",
           \A t \in TablesOf(req[c].op) : row \in rows'[t],
           ReplayMatches(row, c), row # c => req[c].key # NoKey,
           req' = req, open'[c] = {}, RowsFit(c)'
    PROVE  /\ CallFits(c)'
           /\ at' \in [Calls -> Places] /\ reply' \in [Calls -> Answers]
           /\ got' \in [Calls -> Calls \cup {NoRow}]
           /\ \A d \in Calls \ {c} : at'[d] = at[d] /\ reply'[d] = reply[d] /\ got'[d] = got[d]
<1> USE DEF AdmissionInv
<1>1. /\ got'[c] = row /\ got' \in [Calls -> Calls \cup {NoRow}]
      /\ \A d \in Calls \ {c} : got'[d] = got[d]
  BY DEF Proceed, TypeOK
<1>2. req[c] \in Requests \cup {Retry} /\ ~Ok(c)
  BY DEF CallFits, PlaceFits
<1>3. CASE Goto(c, "verify") /\ req[c].op = "version" /\ req[c].path # NoPath
  <2>1. /\ at'[c] = "verify" /\ reply' = reply /\ at' \in [Calls -> Places]
        /\ \A d \in Calls \ {c} : at'[d] = at[d]
    BY <1>3, Going DEF Places
  <2>2. PlaceFits(c)'
    BY <1>2, <1>3, <2>1, RequestFacts DEF PlaceFits, Ok, Bundling
  <2>3. OpenFits(c)' /\ RowKnown(c)'
    BY <1>1, <1>2, <2>1 DEF OpenFits, RowKnown, ReplayMatches, Ok
  <2> QED
    BY <1>1, <2>1, <2>2, <2>3 DEF CallFits, TypeOK
<1>4. CASE Goto(c, "audit")
  <2>1. /\ at'[c] = "audit" /\ reply' = reply /\ at' \in [Calls -> Places]
        /\ \A d \in Calls \ {c} : at'[d] = at[d]
    BY <1>4, Going DEF Places
  <2>2. PlaceFits(c)'
    BY <1>2, <2>1 DEF PlaceFits, Ok, Bundling
  <2>3. OpenFits(c)' /\ RowKnown(c)'
    BY <1>1, <1>2, <2>1 DEF OpenFits, RowKnown, ReplayMatches, Ok
  <2> QED
    BY <1>1, <2>1, <2>2, <2>3 DEF CallFits, TypeOK
<1>5. CASE Answer(c, "ok") /\ req[c].op = "version" /\ req[c].path # NoPath
  <2>1. /\ at'[c] = "done" /\ reply'[c] = "ok"
        /\ at' \in [Calls -> Places] /\ reply' \in [Calls -> Answers]
        /\ \A d \in Calls \ {c} : at'[d] = at[d] /\ reply'[d] = reply[d]
    BY <1>5, Answering DEF Answers
  <2>2. PlaceFits(c)'
    BY <1>2, <2>1 DEF PlaceFits, Ok, Bundling
  <2>3. OpenFits(c)' /\ RowKnown(c)'
    BY <1>1, <1>5, <2>1 DEF OpenFits, RowKnown, ReplayMatches, Ok
  <2> QED
    BY <1>1, <2>1, <2>2, <2>3 DEF CallFits, TypeOK
<1> QED
  BY <1>3, <1>4, <1>5 DEF Proceed
-----------------------------------------------------------------------------
\* The parts that several steps share.

LEMMA NoRowsYet ==
    ASSUME AdmissionInv, NEW c \in Calls, at[c] \notin Knowing \cup {"done"}
    PROVE  \A t \in Tables : c \notin rows[t]
  BY DEF AdmissionInv, CallFits, RowsFit

LEMMA ProceedsTo ==
    ASSUME TypeOK, NEW c \in Calls, NEW row, NEW isReady, Proceed(c, row, isReady)
    PROVE  at'[c] \in Knowing \cup {"done"}
  BY Going, Answering DEF Proceed, Knowing, Answers

\* A repetition goes on with the row that is there.
LEMMA Replaying ==
    ASSUME AdmissionInv, NEW c \in Calls, NEW row \in Calls, NEW isReady \in BOOLEAN,
           Proceed(c, row, isReady), at[c] \notin Knowing \cup {"idle", "done"},
           req[c].op # "retry", open[c] = {},
           \A t \in TablesOf(req[c].op) : row \in rows[t],
           ReplayMatches(row, c), row # c => req[c].key # NoKey,
           UNCHANGED <<req, rowVars, uploadVars, failed, events, lost, failures>>
    PROVE  AdmissionInv'
<1> USE DEF rowVars, uploadVars
<1>1. RowsFit(c)'
  BY NoRowsYet DEF RowsFit
<1>2. /\ CallFits(c)'
      /\ at' \in [Calls -> Places] /\ reply' \in [Calls -> Answers]
      /\ got' \in [Calls -> Calls \cup {NoRow}]
      /\ \A d \in Calls \ {c} : at'[d] = at[d] /\ reply'[d] = reply[d] /\ got'[d] = got[d]
  BY <1>1, Proceeding
<1>3. TypeOK'
  BY <1>2 DEF AdmissionInv, TypeOK
<1>4. StepOf(c)
  BY <1>2 DEF StepOf
<1> QED
  BY <1>2, <1>3, <1>4, Passing

\* A call is refused.
LEMMA Refusing ==
    ASSUME AdmissionInv, NEW c \in Calls, NEW a \in Answers \ {"ok"}, Answer(c, a),
           at[c] # "idle", open[c] = {},
           UNCHANGED <<req, got, rowVars, uploadVars, failed, events, lost, failures>>
    PROVE  AdmissionInv'
<1> USE DEF rowVars, uploadVars
<1>1. /\ CallFits(c)'
      /\ at' \in [Calls -> Places] /\ reply' \in [Calls -> Answers]
      /\ \A d \in Calls \ {c} : at'[d] = at[d] /\ reply'[d] = reply[d]
  BY Refused, Answering DEF AdmissionInv
<1>2. TypeOK'
  BY <1>1 DEF AdmissionInv, TypeOK
<1>3. StepOf(c)
  BY <1>1 DEF StepOf
<1> QED
  BY <1>1, <1>2, <1>3, Passing

\* A call goes on to a place where it knows no row yet.
LEMMA Continuing ==
    ASSUME AdmissionInv, NEW c \in Calls,
           NEW p \in {"insert", "reread", "begin", "inModel"}, Goto(c, p),
           at[c] \notin Knowing \cup {"idle", "done"}, open[c] = {},
           p = "insert" => req[c].op \in Tables,
           p = "reread" => req[c].op = "task",
           p \in {"begin", "inModel"} => req[c].op = "bundle",
           UNCHANGED <<req, got, rowVars, uploadVars, failed, events, lost, failures>>
    PROVE  AdmissionInv'
<1> USE DEF rowVars, uploadVars
<1>1. /\ at'[c] = p /\ reply' = reply /\ at' \in [Calls -> Places]
      /\ \A d \in Calls \ {c} : at'[d] = at[d]
  BY Going DEF AdmissionInv, Places
<1>2. ~Ok(c) /\ req[c] \in Requests \cup {Retry}
  BY DEF AdmissionInv, CallFits, PlaceFits
<1>3. PlaceFits(c)'
  BY <1>1, <1>2 DEF PlaceFits, Ok, Bundling
<1>4. OpenFits(c)' /\ RowKnown(c)'
  BY <1>1, <1>2 DEF OpenFits, RowKnown, Ok, Knowing
<1>5. RowsFit(c)'
  BY <1>1, NoRowsYet DEF RowsFit
<1>6. TypeOK'
  BY <1>1 DEF AdmissionInv, TypeOK
<1>7. StepOf(c)
  BY <1>1 DEF StepOf
<1> QED
  BY <1>3, <1>4, <1>5, <1>6, <1>7, Passing DEF CallFits
-----------------------------------------------------------------------------
\* One lemma for each step.

LEMMA LookUpKeeps == ASSUME AdmissionInv, NEW c \in Calls, LookUp(c) PROVE AdmissionInv'
<1>1. /\ at[c] = "lookup" /\ req[c].op \in Tables /\ open[c] = {}
      /\ TablesOf(req[c].op) = {req[c].op}
  BY TablesOfOps DEF LookUp, AdmissionInv, CallFits, PlaceFits, OpenFits
<1>2. req[c].op # "retry"
  BY <1>1 DEF Tables
<1>3. CASE Goto(c, "insert") /\ got' = got
  BY <1>1, <1>3, Continuing DEF LookUp, Knowing
<1>4. ASSUME NEW d \in ByKey(Table(c), c), ReplayMatches(d, c), Proceed(c, d, d \in ready)
      PROVE  AdmissionInv'
  <2>1. d \in Calls /\ d \in rows[req[c].op] /\ req[c].key # NoKey
    BY <1>1, <1>4 DEF ByKey, Table, AdmissionInv, TypeOK
  <2>3. Proceed(c, d, TRUE) \/ Proceed(c, d, FALSE)
    BY <1>4 DEF Proceed
  <2>4. UNCHANGED <<req, rowVars, uploadVars, failed, events, lost, failures>>
    BY DEF LookUp
  <2>5. /\ at[c] \notin Knowing \cup {"idle", "done"}
        /\ \A t \in TablesOf(req[c].op) : d \in rows[t]
    BY <1>1, <2>1 DEF Knowing
  <2> QED
    BY <1>1, <1>2, <1>4, <2>1, <2>3, <2>4, <2>5, Replaying
<1>5. CASE Answer(c, "conflict") /\ got' = got
  BY <1>1, <1>5, Refusing DEF LookUp, Answers
<1> QED
  BY <1>3, <1>4, <1>5 DEF LookUp

LEMMA RereadKeeps == ASSUME AdmissionInv, NEW c \in Calls, Reread(c) PROVE AdmissionInv'
<1>1. /\ at[c] = "reread" /\ req[c].op = "task" /\ open[c] = {}
      /\ TablesOf(req[c].op) = {"task"}
  BY TablesOfOps DEF Reread, AdmissionInv, CallFits, PlaceFits, OpenFits, Tables
<1>2. ASSUME NEW d \in ByKey("task", c), ReplayMatches(d, c), Proceed(c, d, FALSE)
      PROVE  AdmissionInv'
  <2>1. d \in Calls /\ d \in rows["task"] /\ req[c].key # NoKey
    BY <1>1, <1>2 DEF ByKey, AdmissionInv, TypeOK, Tables
  <2> QED
    BY <1>1, <1>2, <2>1, Replaying DEF Reread, Knowing
<1>3. CASE Answer(c, "conflict") /\ got' = got
  BY <1>1, <1>3, Refusing DEF Reread, Answers
<1> QED
  BY <1>2, <1>3 DEF Reread

\* An aggregate that matches is whole.
LEMMA AggregateIsWhole ==
    ASSUME AdmissionInv, NEW c \in Calls, NEW d \in Calls, Aggregate(c, d)
    PROVE  (\A t \in Tables : d \in rows[t]) /\ ReplayMatches(d, c) /\ req[c].key # NoKey
  BY DEF Aggregate, ByKey, Tables

LEMMA ReplayBundleKeeps ==
    ASSUME AdmissionInv, NEW c \in Calls,
           \/ ReplayBundle(c, "replay", "begin") \/ ReplayBundle(c, "begin", "inModel")
           \/ ReplayAgain(c)
    PROVE  AdmissionInv'
<1>1. /\ at[c] \in {"replay", "begin", "replayAgain"} /\ req[c].op = "bundle" /\ open[c] = {}
      /\ TablesOf(req[c].op) = Tables
  BY TablesOfOps
     DEF ReplayBundle, ReplayAgain, AdmissionInv, CallFits, PlaceFits, OpenFits, Bundling
<1>2. UNCHANGED <<req, rowVars, uploadVars, failed, events, lost, failures>>
  BY DEF ReplayBundle, ReplayAgain
<1>3. ASSUME NEW d \in Calls, Aggregate(c, d), Proceed(c, d, FALSE)
      PROVE  AdmissionInv'
  BY <1>1, <1>2, <1>3, AggregateIsWhole, Replaying DEF Knowing
<1>4. CASE Answer(c, "conflict") /\ got' = got
  BY <1>1, <1>2, <1>4, Refusing DEF Answers
<1>5. ASSUME NEW p \in {"begin", "inModel"}, Goto(c, p), got' = got PROVE AdmissionInv'
  BY <1>1, <1>2, <1>5, Continuing DEF Knowing
<1> QED
  BY <1>3, <1>4, <1>5 DEF ReplayBundle, ReplayAgain

LEMMA UploadsKeep ==
    ASSUME AdmissionInv, NEW c \in Calls, StepOf(c), ready' = ready, artifact' = artifact
    PROVE  ArtifactsFit' /\ UploadsVerified'
  BY DEF StepOf, AdmissionInv, ArtifactsFit, UploadsVerified, Tables

LEMMA InsertRowKeeps == ASSUME AdmissionInv, NEW c \in Calls, InsertRow(c) PROVE AdmissionInv'
<1> DEFINE t == Table(c)
<1>1. /\ at[c] = "insert" /\ t \in Tables /\ t = req[c].op /\ open[c] = {}
      /\ TablesOf(req[c].op) = {t}
  BY TablesOfOps DEF InsertRow, Table, AdmissionInv, CallFits, PlaceFits, OpenFits
<1>2. req[c].op \notin {"bundle", "retry"}
  BY <1>1 DEF Tables
<1>3. CASE Taken(t, c)
  <2>1. UNCHANGED <<req, got, rowVars, uploadVars, failed, events, lost, failures>>
    BY <1>3 DEF InsertRow, rowVars
  <2>2. (t = "task" /\ Goto(c, "reread")) \/ Answer(c, "conflict")
    BY <1>3 DEF InsertRow
  <2> QED
    BY <1>1, <2>1, <2>2, Continuing, Refusing DEF Knowing, Answers
<1>4. CASE ~Taken(t, c)
  <2>1. /\ rows' = [rows EXCEPT ![t] = @ \cup {c}] /\ Proceed(c, c, FALSE) /\ ~Waits(t, c)
        /\ UNCHANGED <<req, open, uploadVars, failed, events, lost, failures>>
    BY <1>4 DEF InsertRow
  <2>2. /\ rows' \in [Tables -> SUBSET Calls]
        /\ rows'[t] = rows[t] \cup {c}
        /\ \A u \in Tables \ {t} : rows'[u] = rows[u]
    BY <1>1, <2>1 DEF AdmissionInv, TypeOK
  <2>3. RowsFit(c)'
    <3>1. at'[c] \in Knowing \cup {"done"}
      BY <2>1, ProceedsTo DEF AdmissionInv
    <3> QED
      BY <1>2, <2>1, <3>1 DEF RowsFit
  <2>4. ReplayMatches(c, c)
    BY DEF ReplayMatches
  <2>5. /\ CallFits(c)'
        /\ at' \in [Calls -> Places] /\ reply' \in [Calls -> Answers]
        /\ got' \in [Calls -> Calls \cup {NoRow}]
        /\ \A d \in Calls \ {c} : at'[d] = at[d] /\ reply'[d] = reply[d] /\ got'[d] = got[d]
    BY <1>1, <1>2, <2>1, <2>2, <2>3, <2>4, Proceeding
  <2>6. TypeOK'
    BY <2>1, <2>2, <2>5 DEF AdmissionInv, TypeOK, uploadVars
  <2>7. StepOf(c)
    BY <2>1, <2>2, <2>5 DEF StepOf, uploadVars
  <2>8. Unique'
    BY <1>4, <2>1, <2>2, <2>7, IndexesKeep DEF Present
  <2> QED
    BY <2>1, <2>5, <2>6, <2>7, <2>8, UploadsKeep, Composes DEF uploadVars
<1> QED
  BY <1>3, <1>4

LEMMA InsertBundleKeeps ==
    ASSUME AdmissionInv, NEW c \in Calls, NEW t \in Tables,
           NEW from \in {"inModel", "inVersion", "inTask"},
           NEW to \in {"inVersion", "inTask", "commit"},
           InsertBundle(c, t, from, to),
           \/ t = "model" /\ from = "inModel" /\ to = "inVersion"
           \/ t = "version" /\ from = "inVersion" /\ to = "inTask"
           \/ t = "task" /\ from = "inTask" /\ to = "commit"
    PROVE  AdmissionInv'
<1> USE DEF uploadVars
<1>1. /\ at[c] = from /\ req[c].op = "bundle" /\ ~Ok(c) /\ req[c] \in Requests \cup {Retry}
      /\ rows' = rows /\ req' = req
      /\ UNCHANGED <<req, got, rows, uploadVars, failed, events, lost, failures>>
  BY DEF InsertBundle, AdmissionInv, CallFits, PlaceFits, Bundling
<1>2. RowsFit(c)'
  <2>1. \A u \in Tables : c \notin rows[u]
    BY <1>1, NoRowsYet DEF Knowing
  <2> QED
    BY <1>1, <2>1 DEF RowsFit
<1>3. PICK p \in {"replayAgain", to} :
          /\ Goto(c, p)
          /\ open' = [open EXCEPT ![c] = IF p = to THEN @ \cup {t} ELSE {}]
          /\ p = to => ~Taken(t, c) /\ ~Waits(t, c)
  BY DEF InsertBundle
<1>4. /\ at'[c] = p /\ reply' = reply /\ at' \in [Calls -> Places]
      /\ \A d \in Calls \ {c} : at'[d] = at[d]
  BY <1>3, Going DEF AdmissionInv, Places
<1>5. /\ open' \in [Calls -> SUBSET Tables]
      /\ open'[c] = IF p = to THEN open[c] \cup {t} ELSE {}
      /\ \A d \in Calls \ {c} : open'[d] = open[d]
  BY <1>3 DEF AdmissionInv, TypeOK
<1>6. PlaceFits(c)' /\ RowKnown(c)'
  BY <1>1, <1>4 DEF PlaceFits, RowKnown, Ok, Bundling, Knowing
<1>7. OpenFits(c)'
  BY <1>1, <1>4, <1>5 DEF AdmissionInv, CallFits, OpenFits, Tables
<1>8. TypeOK'
  BY <1>1, <1>4, <1>5 DEF AdmissionInv, TypeOK
<1>9. StepOf(c)
  BY <1>1, <1>4, <1>5 DEF StepOf
<1>10. Unique'
  BY <1>1, <1>3, <1>5, <1>9, IndexesKeep DEF Present
<1> QED
  BY <1>1, <1>2, <1>6, <1>7, <1>8, <1>9, <1>10, UploadsKeep, Composes DEF CallFits

LEMMA CommitBundleKeeps ==
    ASSUME AdmissionInv, NEW c \in Calls, CommitBundle(c)
    PROVE  AdmissionInv'
<1> USE DEF uploadVars
<1>1. /\ at[c] = "commit" /\ req[c].op = "bundle" /\ open[c] = Tables
      /\ TablesOf(req[c].op) = Tables
  BY TablesOfOps DEF CommitBundle, AdmissionInv, CallFits, PlaceFits, OpenFits, Bundling
<1>2. /\ Proceed(c, c, FALSE)
      /\ UNCHANGED <<req, uploadVars, failed, events, lost, failures>>
  BY DEF CommitBundle
<1>3. /\ rows' \in [Tables -> SUBSET Calls]
      /\ \A t \in Tables : rows'[t] = rows[t] \cup {c}
  BY <1>1 DEF CommitBundle, AdmissionInv, TypeOK
<1>4. /\ open' \in [Calls -> SUBSET Tables] /\ open'[c] = {}
      /\ \A d \in Calls \ {c} : open'[d] = open[d]
  BY DEF CommitBundle, AdmissionInv, TypeOK
<1>5. RowsFit(c)' /\ ReplayMatches(c, c)
  BY <1>2, <1>3, ProceedsTo DEF AdmissionInv, RowsFit, ReplayMatches
<1>6. /\ CallFits(c)'
      /\ at' \in [Calls -> Places] /\ reply' \in [Calls -> Answers]
      /\ got' \in [Calls -> Calls \cup {NoRow}]
      /\ \A d \in Calls \ {c} : at'[d] = at[d] /\ reply'[d] = reply[d] /\ got'[d] = got[d]
  BY <1>1, <1>2, <1>3, <1>4, <1>5, Proceeding
<1>7. TypeOK'
  BY <1>2, <1>3, <1>4, <1>6 DEF AdmissionInv, TypeOK
<1>8. StepOf(c)
  BY <1>2, <1>3, <1>4, <1>6 DEF StepOf
<1>9. Unique'
  BY <1>1, <1>8, IndexesKeep DEF Present
<1> QED
  BY <1>2, <1>6, <1>7, <1>8, <1>9, UploadsKeep, Composes
-----------------------------------------------------------------------------
LEMMA VerifyKeeps == ASSUME AdmissionInv, NEW c \in Calls, Verify(c) PROVE AdmissionInv'
<1> USE DEF rowVars, uploadVars
<1>1. /\ at[c] = "verify" /\ ~Ok(c) /\ open[c] = {}
      /\ UNCHANGED <<req, got, rowVars, uploadVars, failed, events, lost, failures>>
  BY DEF Verify, AdmissionInv, CallFits, PlaceFits, OpenFits
<1>2. CASE Answer(c, "rejected")
  BY <1>1, <1>2, Refusing DEF Answers
<1>3. CASE Goto(c, "record") /\ Stored[req[c].path] = req[c].sum
  <2>1. /\ at'[c] = "record" /\ reply' = reply /\ at' \in [Calls -> Places]
        /\ \A d \in Calls \ {c} : at'[d] = at[d]
    BY <1>3, Going DEF AdmissionInv, Places
  <2>2. CallFits(c)'
    BY <1>1, <1>3, <2>1 DEF AdmissionInv, CallFits, PlaceFits, OpenFits, RowsFit, RowKnown, Ok,
                            Knowing, Bundling, ReplayMatches
  <2>3. TypeOK' /\ StepOf(c)
    BY <1>1, <2>1 DEF AdmissionInv, TypeOK, StepOf
  <2> QED
    BY <1>1, <2>2, <2>3, Passing
<1> QED
  BY <1>2, <1>3 DEF Verify

LEMMA CreateArtifactKeeps ==
    ASSUME AdmissionInv, NEW c \in Calls, CreateArtifact(c)
    PROVE  AdmissionInv'
<1> USE DEF rowVars
<1>1. /\ at[c] = "record" /\ ~Ok(c) /\ open[c] = {} /\ got[c] \in Calls
      /\ req[c] \in Requests \cup {Retry} /\ req[c].op = "version" /\ req[c].path \in Paths
      /\ Stored[req[c].path] = req[c].sum
      /\ UNCHANGED <<req, got, rowVars, ready, failed, events, lost, failures>>
  BY DEF CreateArtifact, AdmissionInv, CallFits, PlaceFits, OpenFits, RowKnown, Knowing
<1>2. CASE Answer(c, "conflict") /\ artifact' = artifact
  BY <1>1, <1>2, Refusing DEF Answers, uploadVars
<1>3. CASE /\ artifact[got[c]] = NoArtifact
           /\ artifact' = [artifact EXCEPT ![got[c]] = [path |-> req[c].path, sum |-> req[c].sum]]
           /\ Goto(c, "markReady")
  <2>1. /\ at'[c] = "markReady" /\ reply' = reply /\ at' \in [Calls -> Places]
        /\ \A d \in Calls \ {c} : at'[d] = at[d]
    BY <1>3, Going DEF AdmissionInv, Places
  <2>2. /\ artifact'[got[c]] = [path |-> req[c].path, sum |-> req[c].sum]
        /\ \A v \in Calls \ {got[c]} : artifact'[v] = artifact[v]
        /\ artifact' \in [Calls -> [path : Paths \cup {NoPath}, sum : Sums \cup {NoRow}]]
    BY <1>1, <1>3, RequestFacts DEF AdmissionInv, TypeOK
  <2>3. artifact'[got[c]] # NoArtifact
    BY <1>1, <2>2, AdmissionAssumption DEF NoArtifact
  <2>4. CallFits(c)'
    BY <1>1, <2>1, <2>3 DEF AdmissionInv, CallFits, PlaceFits, OpenFits, RowsFit, RowKnown, Ok,
                            Knowing, Bundling, ReplayMatches
  <2>5. TypeOK'
    BY <1>1, <2>1, <2>2 DEF AdmissionInv, TypeOK
  <2>6. StepOf(c)
    BY <1>1, <1>3, <2>1, <2>2 DEF StepOf
  <2>7. Unique'
    BY <1>1, <2>6, IndexesKeep DEF Present
  <2>8. ArtifactsFit'
    BY <1>1, <2>2 DEF AdmissionInv, ArtifactsFit
  <2>9. UploadsVerified'
    BY <1>1, <1>3, <2>2 DEF AdmissionInv, UploadsVerified, TypeOK
  <2> QED
    BY <2>4, <2>5, <2>6, <2>7, <2>8, <2>9, Composes
<1> QED
  BY <1>2, <1>3 DEF CreateArtifact

LEMMA MarkReadyKeeps == ASSUME AdmissionInv, NEW c \in Calls, MarkReady(c) PROVE AdmissionInv'
<1> USE DEF rowVars
<1>1. /\ at[c] = "markReady" /\ ~Ok(c) /\ open[c] = {} /\ got[c] \in Calls
      /\ req[c] \in Requests \cup {Retry} /\ req[c].op = "version"
      /\ artifact[got[c]] # NoArtifact
      /\ UNCHANGED <<req, got, rowVars, artifact, failed, events, lost, failures>>
  BY DEF MarkReady, AdmissionInv, CallFits, PlaceFits, OpenFits, RowKnown, Knowing
<1>2. CASE Answer(c, "rejected") /\ ready' = ready
  BY <1>1, <1>2, Refusing DEF Answers, uploadVars
<1>3. CASE /\ artifact[got[c]].sum = req[got[c]].sum
           /\ ready' = ready \cup {got[c]} /\ Goto(c, "audit")
  <2>1. /\ at'[c] = "audit" /\ reply' = reply /\ at' \in [Calls -> Places]
        /\ \A d \in Calls \ {c} : at'[d] = at[d]
    BY <1>3, Going DEF AdmissionInv, Places
  <2>2. CallFits(c)'
    BY <1>1, <2>1 DEF AdmissionInv, CallFits, PlaceFits, OpenFits, RowsFit, RowKnown, Ok,
                      Knowing, Bundling, ReplayMatches
  <2>3. TypeOK'
    BY <1>1, <1>3, <2>1 DEF AdmissionInv, TypeOK
  <2>4. StepOf(c)
    BY <1>1, <2>1 DEF StepOf
  <2>5. Unique'
    BY <1>1, <2>4, IndexesKeep DEF Present
  <2>6. got[c] \in rows["version"]
    <3>1. TablesOf(req[c].op) = {"version"}
      BY <1>1, TablesOfOps DEF Tables
    <3> QED
      BY <1>1, <3>1 DEF AdmissionInv, CallFits, RowKnown, Knowing
  <2>7. ArtifactsFit' /\ UploadsVerified'
    BY <1>1, <1>3, <2>6 DEF AdmissionInv, ArtifactsFit, UploadsVerified
  <2> QED
    BY <2>2, <2>3, <2>4, <2>5, <2>7, Composes
<1> QED
  BY <1>2, <1>3 DEF MarkReady

LEMMA RecordAuditKeeps ==
    ASSUME AdmissionInv, NEW c \in Calls, RecordAudit(c)
    PROVE  AdmissionInv'
<1> USE DEF rowVars, uploadVars
<1>1. /\ at[c] = "audit" /\ open[c] = {} /\ got[c] \in Calls
      /\ req[c] \in Requests \cup {Retry}
      /\ events' = events \cup {<<req[c].op, got[c]>>}
      /\ UNCHANGED <<req, got, rowVars, uploadVars, failed, lost, failures>>
  BY DEF RecordAudit, AdmissionInv, CallFits, PlaceFits, OpenFits, RowKnown, Knowing
<1>2. /\ at'[c] = "done" /\ reply'[c] = "ok"
      /\ at' \in [Calls -> Places] /\ reply' \in [Calls -> Answers]
      /\ \A d \in Calls \ {c} : at'[d] = at[d] /\ reply'[d] = reply[d]
  BY Answering DEF RecordAudit, AdmissionInv, Answers
<1>3. CallFits(c)'
  BY <1>1, <1>2 DEF AdmissionInv, CallFits, PlaceFits, OpenFits, RowsFit, RowKnown, Ok,
                    Knowing, Bundling, ReplayMatches
<1>4. <<req[c].op, got[c]>> \in {"model", "version", "task", "bundle", "retry"} \X Calls
  BY <1>1, RequestFacts DEF Tables
<1>5. TypeOK'
  BY <1>1, <1>2, <1>4 DEF AdmissionInv, TypeOK
<1>6. StepOf(c)
  BY <1>1, <1>2 DEF StepOf
<1> QED
  BY <1>1, <1>3, <1>5, <1>6, Passing

LEMMA RetryFailedKeeps ==
    ASSUME AdmissionInv, NEW c \in Calls, NEW d \in Calls, RetryFailed(c, d)
    PROVE  AdmissionInv'
<1> USE DEF rowVars, uploadVars
<1>1. /\ at[c] = "retry" /\ ~Ok(c) /\ open[c] = {} /\ req[c].op = "retry" /\ d \in rows["task"]
      /\ TablesOf(req[c].op) = {"task"}
      /\ UNCHANGED <<req, rowVars, uploadVars, events, lost, failures>>
  BY TablesOfOps DEF RetryFailed, AdmissionInv, CallFits, PlaceFits, OpenFits
<1>2. CASE Answer(c, "rejected") /\ got' = got /\ failed' = failed
  BY <1>1, <1>2, Refusing DEF Answers
<1>3. CASE failed' = failed \ {d} /\ got' = [got EXCEPT ![c] = d] /\ Goto(c, "audit")
  <2>1. /\ at'[c] = "audit" /\ reply' = reply /\ at' \in [Calls -> Places]
        /\ \A e \in Calls \ {c} : at'[e] = at[e]
    BY <1>3, Going DEF AdmissionInv, Places
  <2>2. /\ got'[c] = d /\ got' \in [Calls -> Calls \cup {NoRow}]
        /\ \A e \in Calls \ {c} : got'[e] = got[e]
    BY <1>3 DEF AdmissionInv, TypeOK
  <2>3. CallFits(c)'
    BY <1>1, <2>1, <2>2 DEF AdmissionInv, CallFits, PlaceFits, OpenFits, RowsFit, RowKnown, Ok,
                            Knowing, Bundling
  <2>4. TypeOK' /\ StepOf(c)
    BY <1>1, <1>3, <2>1, <2>2 DEF AdmissionInv, TypeOK, StepOf
  <2> QED
    BY <1>1, <2>3, <2>4, Passing
<1> QED
  BY <1>2, <1>3 DEF RetryFailed

LEMMA TaskFailsKeeps == ASSUME AdmissionInv, NEW d \in Calls, TaskFails(d) PROVE AdmissionInv'
<1> USE DEF callVars, rowVars, uploadVars
<1>1. failed' \subseteq Calls /\ failures' \in 0 .. MaxFailures
  BY AdmissionAssumption DEF TaskFails, AdmissionInv, TypeOK, Tables
<1>2. TypeOK'
  BY <1>1 DEF TaskFails, AdmissionInv, TypeOK
<1>3. CallFits(d)'
  BY DEF TaskFails, AdmissionInv, CallFits, PlaceFits, OpenFits, RowsFit, RowKnown, Ok,
         ReplayMatches
<1>4. StepOf(d)
  BY DEF TaskFails, StepOf
<1> QED
  BY <1>2, <1>3, <1>4, Passing DEF TaskFails

LEMMA BreakOffKeeps == ASSUME AdmissionInv, NEW c \in Calls, BreakOff(c) PROVE AdmissionInv'
<1> USE DEF rowVars, uploadVars
<1>1. /\ at[c] # "idle" /\ Answer(c, "broken")
      /\ UNCHANGED <<req, got, rows, uploadVars, failed, events, failures>>
      /\ open' \in [Calls -> SUBSET Tables] /\ open'[c] = {}
      /\ \A d \in Calls \ {c} : open'[d] = open[d]
  BY DEF BreakOff, AdmissionInv, TypeOK
<1>2. /\ at' \in [Calls -> Places] /\ reply' \in [Calls -> Answers]
      /\ \A d \in Calls \ {c} : at'[d] = at[d] /\ reply'[d] = reply[d]
  BY <1>1, Answering DEF AdmissionInv, Answers
<1>3. CallFits(c)'
  BY <1>1, Refused DEF Answers
<1>4. lost' \in 0 .. MaxLost
  BY AdmissionAssumption DEF BreakOff, AdmissionInv, TypeOK
<1>5. TypeOK'
  BY <1>1, <1>2, <1>4 DEF AdmissionInv, TypeOK
<1>6. StepOf(c)
  BY <1>1, <1>2 DEF StepOf
<1>7. Unique'
  BY <1>1, <1>6, IndexesKeep DEF Present
<1> QED
  BY <1>1, <1>3, <1>5, <1>6, <1>7, UploadsKeep, Composes

\* A request arrives at a call that has no row, so that nobody speaks of it.
LEMMA ReceiveKeeps ==
    ASSUME AdmissionInv, NEW c \in Calls, NEW r \in Requests \cup {Retry}, Receive(c, r)
    PROVE  AdmissionInv'
<1> USE DEF rowVars, uploadVars
<1>1. /\ at[c] = "idle" /\ Goto(c, First(r))
      /\ req' = [req EXCEPT ![c] = r]
      /\ UNCHANGED <<got, rowVars, uploadVars, failed, events, lost, failures>>
  BY DEF Receive
<1>2. /\ \A t \in Tables : c \notin rows[t]
      /\ open[c] = {} /\ ~Ok(c)
  BY <1>1, NoRowsYet DEF Knowing, AdmissionInv, CallFits, OpenFits, PlaceFits
<1>3. /\ req' \in [Calls -> Requests \cup {Retry, NoRequest}]
      /\ req'[c] = r /\ \A d \in Calls \ {c} : req'[d] = req[d]
  BY <1>1 DEF AdmissionInv, TypeOK
<1>4. /\ First(r) \in {"replay", "retry", "insert", "lookup"}
      /\ First(r) = "replay" => r.op = "bundle"
      /\ First(r) = "retry" => r.op = "retry"
      /\ First(r) \in {"insert", "lookup"} => r.op \in Tables
  <2>1. r.op \in Tables \cup {"bundle", "retry"}
    BY RequestFacts
  <2>2. r.op = "bundle" => First(r) = "replay"
    BY DEF First
  <2>3. r.op = "retry" => First(r) = "retry"
    BY DEF First
  <2>4. r.op \notin {"bundle", "retry"} => First(r) \in {"insert", "lookup"}
    BY DEF First
  <2> QED
    BY <2>1, <2>2, <2>3, <2>4
<1>5. /\ at'[c] = First(r) /\ reply' = reply /\ at' \in [Calls -> Places]
      /\ \A d \in Calls \ {c} : at'[d] = at[d]
  BY <1>1, <1>4, Going DEF AdmissionInv, Places
<1>6. CallFits(c)'
  <2>1. PlaceFits(c)'
    BY <1>2, <1>3, <1>4, <1>5 DEF PlaceFits, Ok, Bundling
  <2>2. OpenFits(c)' /\ RowsFit(c)' /\ RowKnown(c)'
    BY <1>1, <1>2, <1>4, <1>5 DEF OpenFits, RowsFit, RowKnown, Ok, Knowing
  <2> QED
    BY <2>1, <2>2 DEF CallFits
<1>7. ASSUME NEW d \in Calls \ {c} PROVE CallFits(d)'
  <2>1. CallFits(d)
    BY DEF AdmissionInv
  <2>2. PlaceFits(d)' /\ OpenFits(d)' /\ RowsFit(d)'
    BY <1>1, <1>3, <1>5, <2>1 DEF CallFits, PlaceFits, OpenFits, RowsFit, Ok
  <2>3. ASSUME at[d] \in Knowing \/ Ok(d) PROVE got[d] \in Calls \ {c}
    <3>1. PICK t \in Tables : t \in TablesOf(req[d].op)
      BY <2>1, <2>3, RequestFacts, TablesOfOps DEF CallFits, PlaceFits, Knowing
    <3> QED
      BY <1>2, <2>1, <2>3, <3>1 DEF CallFits, RowKnown
  <2>4. RowKnown(d)'
    BY <1>1, <1>3, <1>5, <2>1, <2>3 DEF CallFits, RowKnown, Ok, ReplayMatches
  <2> QED
    BY <2>2, <2>4 DEF CallFits
<1>8. TypeOK'
  BY <1>1, <1>3, <1>5 DEF AdmissionInv, TypeOK
<1>9. Unique'
  <2> SUFFICES ASSUME NEW t \in Tables, NEW d \in Calls, NEW e \in Calls,
                      Present(t, d)', Present(t, e)'
               PROVE  ~Clash(t, d, e)'
    BY DEF Unique
  <2>1. Present(t, d) /\ Present(t, e) /\ d # c /\ e # c
    BY <1>1, <1>2 DEF Present
  <2>2. ~Clash(t, d, e)
    BY <2>1 DEF AdmissionInv, Unique
  <2> QED
    BY <1>3, <2>1, <2>2 DEF Clash
<1>10. ArtifactsFit' /\ UploadsVerified'
  BY <1>1, <1>2, <1>3 DEF AdmissionInv, ArtifactsFit, UploadsVerified, TypeOK, Tables
<1> QED
  BY <1>6, <1>7, <1>8, <1>9, <1>10 DEF AdmissionInv
-----------------------------------------------------------------------------
LEMMA AdmissionStarts == Init => AdmissionInv
<1> SUFFICES ASSUME Init PROVE AdmissionInv
  OBVIOUS
<1>1. TypeOK
  <2>1. 0 \in 0 .. MaxLost /\ 0 \in 0 .. MaxFailures
    BY AdmissionAssumption
  <2> QED
    BY <2>1 DEF Init, TypeOK, Places, Answers, NoArtifact
<1>2. \A c \in Calls : CallFits(c)
  BY DEF Init, CallFits, PlaceFits, OpenFits, RowsFit, RowKnown, Ok, Bundling, Knowing
<1>3. Unique
  BY DEF Init, Unique, Present
<1>4. ArtifactsFit /\ UploadsVerified
  BY DEF Init, ArtifactsFit, UploadsVerified
<1> QED
  BY <1>1, <1>2, <1>3, <1>4 DEF AdmissionInv

LEMMA HandleKeeps ==
    ASSUME AdmissionInv, NEW c \in Calls, Handle(c)
    PROVE  AdmissionInv'
<1>1. CASE Bundle(c)
  BY <1>1, ReplayBundleKeeps, InsertBundleKeeps, CommitBundleKeeps DEF Bundle, Tables
<1>2. CASE LookUp(c) \/ InsertRow(c) \/ Reread(c)
  BY <1>2, LookUpKeeps, InsertRowKeeps, RereadKeeps
<1>3. CASE Verify(c) \/ CreateArtifact(c) \/ MarkReady(c) \/ RecordAudit(c)
  BY <1>3, VerifyKeeps, CreateArtifactKeeps, MarkReadyKeeps, RecordAuditKeeps
<1>4. CASE \E d \in Calls : RetryFailed(c, d)
  BY <1>4, RetryFailedKeeps
<1> QED
  BY <1>1, <1>2, <1>3, <1>4 DEF Handle

LEMMA StutterKeeps == AdmissionInv /\ UNCHANGED avars => AdmissionInv'
<1> SUFFICES ASSUME AdmissionInv, UNCHANGED avars PROVE AdmissionInv'
  OBVIOUS
<1> USE DEF AdmissionInv, avars, callVars, rowVars, uploadVars
<1>1. TypeOK'
  BY DEF TypeOK
<1>2. ASSUME NEW c \in Calls PROVE CallFits(c)'
  BY DEF CallFits, PlaceFits, OpenFits, RowsFit, RowKnown, Ok, ReplayMatches
<1>3. Unique'
  BY DEF Unique, Present, Clash
<1>4. ArtifactsFit' /\ UploadsVerified'
  BY DEF ArtifactsFit, UploadsVerified
<1> QED
  BY <1>1, <1>2, <1>3, <1>4

THEOREM AdmissionInvariance == Spec => []AdmissionInv
<1>1. AdmissionInv /\ Next => AdmissionInv'
  BY ReceiveKeeps, HandleKeeps, BreakOffKeeps, TaskFailsKeeps DEF Next, Arrive
<1>2. AdmissionInv /\ [Next]_avars => AdmissionInv'
  BY <1>1, StutterKeeps
<1> QED
  BY <1>2, AdmissionStarts, PTL DEF Spec

\* Repetitions of a request under its key have one outcome, and no other request
\* has it (model_store.go:47-56, work_store.go:49-66, import_bundle_store.go:47-73).
THEOREM OutcomeIsOne == Spec => []OneOutcome
<1>1. AdmissionInv => OneOutcome
  BY AdmissionPromises
<1> QED
  BY <1>1, AdmissionInvariance, PTL

\* A bundle is whole, whichever unique index another call has taken
\* (import_bundle_store.go:55-73).
THEOREM BundlesAreWhole == Spec => []BundlesWhole
<1>1. AdmissionInv => BundlesWhole
  BY AdmissionPromises
<1> QED
  BY <1>1, AdmissionInvariance, PTL

\* What a call is told is accepted is stored and audited (model.go:711-730).
THEOREM AnswersAreAudited == Spec => []AnswersAudited
<1>1. AdmissionInv => AnswersAudited
  BY AdmissionPromises
<1> QED
  BY <1>1, AdmissionInvariance, PTL

\* A version that was uploaded is ready only with an object that was found to have
\* its checksum (model.go:344-373).
THEOREM UploadsAreVerified == Spec => []UploadsVerified
<1>1. AdmissionInv => UploadsVerified
  BY AdmissionPromises
<1> QED
  BY <1>1, AdmissionInvariance, PTL
-----------------------------------------------------------------------------
\* The detailed intake implements the promised one.

LEMMA SameTables ==
    ASSUME NEW r PROVE Promise!TablesOf(r) = TablesOf(r.op)
  BY DEF Promise!TablesOf, TablesOf, Promise!Tables, Tables

\* A call that knows a row may be told it.
LEMMA KnownRow ==
    ASSUME AdmissionInv, NEW c \in Calls, NEW d \in Calls,
           \A t \in TablesOf(req[c].op) : d \in rows[t],
           req[c] = Retry \/ ReplayMatches(d, c), d # c => req[c] = Retry \/ req[c].key # NoKey
    PROVE  /\ d = c \/ req[c] = Retry \/ Promise!Repeats(req[c], req[d])
           /\ \A t \in Promise!TablesOf(req[c]) : d \in rows[t]
<1>1. /\ req[c] \in Requests \cup {Retry, NoRequest}
      /\ req[d] \in Requests \cup {Retry, NoRequest}
  BY DEF AdmissionInv, TypeOK
<1>2. ASSUME d # c, req[c] # Retry PROVE Promise!Repeats(req[c], req[d])
  BY <1>1, <1>2, FingerprintKey DEF ReplayMatches, Promise!Repeats, Promise!OneKey
<1> QED
  BY <1>2, SameTables

LEMMA RetryIsOne ==
    ASSUME NEW r \in Requests \cup {Retry}
    PROVE  (r.op = "retry" <=> r = Retry) /\ r # NoRequest
  BY AdmissionAssumption DEF Request, Retry, NoRequest

\* A step after which a caller has seen nothing new.
LEMMA SeesNothing ==
    ASSUME NEW c \in Calls, at[c] # "done", at'[c] # "done", ~Ok(c), reply' = reply,
           \A d \in Calls \ {c} : at'[d] = at[d] /\ got'[d] = got[d]
    PROVE  UNCHANGED <<[d \in Calls |-> IF Ok(d) THEN "accepted"
                                       ELSE IF at[d] = "done" THEN "refused" ELSE "none"],
                       [d \in Calls |-> IF Ok(d) THEN got[d] ELSE NoRow]>>
  BY DEF Ok

LEMMA Refuses ==
    ASSUME AdmissionInv, NEW c \in Calls, NEW a \in Answers \ {"ok"}, Answer(c, a),
           at[c] \notin {"idle", "done"}, UNCHANGED <<req, got, rows>>
    PROVE  Promise!Refuse(c)
<1>1. /\ at'[c] = "done" /\ reply'[c] = a
      /\ \A d \in Calls \ {c} : at'[d] = at[d] /\ reply'[d] = reply[d]
  BY Answering DEF AdmissionInv
<1>2. ~Ok(c) /\ req[c] # NoRequest
  BY RetryIsOne DEF AdmissionInv, CallFits, PlaceFits
<1>3. ~Ok(c)' /\ \A d \in Calls \ {c} : (Ok(d)' <=> Ok(d)) /\ got'[d] = got[d]
  BY <1>1 DEF Ok
<1>4. [d \in Calls |-> IF Ok(d)' THEN got'[d] ELSE NoRow]
        = [d \in Calls |-> IF Ok(d) THEN got[d] ELSE NoRow]
  BY <1>2, <1>3
<1>5. [d \in Calls |-> IF Ok(d)' THEN "accepted"
                     ELSE IF at'[d] = "done" THEN "refused" ELSE "none"]
        = [[d \in Calls |-> IF Ok(d) THEN "accepted"
                           ELSE IF at[d] = "done" THEN "refused" ELSE "none"]
             EXCEPT ![c] = "refused"]
  BY <1>1, <1>3
<1>6. Promise!Waiting(c)
  BY <1>2 DEF Promise!Waiting
<1> QED
  BY <1>4, <1>5, <1>6 DEF Promise!Refuse

LEMMA Accepts ==
    ASSUME AdmissionInv, NEW c \in Calls, NEW d \in Calls, Answer(c, "ok"),
           at[c] \notin {"idle", "done"}, UNCHANGED <<req, rows>>,
           got'[c] = d, \A e \in Calls \ {c} : got'[e] = got[e],
           \A t \in TablesOf(req[c].op) : d \in rows[t],
           req[c] = Retry \/ ReplayMatches(d, c), d # c => req[c] = Retry \/ req[c].key # NoKey
    PROVE  Promise!Accept(c, d)
<1>1. /\ at'[c] = "done" /\ reply'[c] = "ok"
      /\ \A e \in Calls \ {c} : at'[e] = at[e] /\ reply'[e] = reply[e]
  BY Answering DEF AdmissionInv, Answers
<1>2. ~Ok(c) /\ req[c] # NoRequest
  BY RetryIsOne DEF AdmissionInv, CallFits, PlaceFits
<1>3. /\ d = c \/ req[c] = Retry \/ Promise!Repeats(req[c], req[d])
      /\ \A t \in Promise!TablesOf(req[c]) : d \in rows[t]
  BY KnownRow
<1> QED
  BY <1>1, <1>2, <1>3 DEF Promise!Accept, Promise!Waiting, Ok

\* The rows of a request are there at once, and none collides with one that was.
LEMMA CarriesOut ==
    ASSUME AdmissionInv, NEW c \in Calls, at[c] \notin Knowing \cup {"idle", "done"},
           req[c].op # "retry", Proceed(c, c, FALSE), req' = req,
           rows' = [t \in Tables |-> IF t \in TablesOf(req[c].op) THEN rows[t] \cup {c}
                                                                ELSE rows[t]],
           TablesOf(req[c].op) \subseteq Tables,
           \A t \in TablesOf(req[c].op) : ~Taken(t, c)
    PROVE  Promise!CarryOut(c)
<1>1. Goto(c, "verify") \/ Goto(c, "audit")
  BY DEF Proceed
<1>2. /\ at'[c] \in {"verify", "audit"} /\ reply' = reply
      /\ \A d \in Calls \ {c} : at'[d] = at[d] /\ got'[d] = got[d]
  BY <1>1, Going DEF AdmissionInv, Proceed, TypeOK
<1>3. ~Ok(c) /\ req[c] # NoRequest /\ req[c] # Retry
  BY RetryIsOne DEF AdmissionInv, CallFits, PlaceFits, Retry
<1>4. Promise!Waiting(c)
  BY <1>3 DEF Promise!Waiting
<1>5. UNCHANGED <<[d \in Calls |-> IF Ok(d) THEN "accepted"
                                 ELSE IF at[d] = "done" THEN "refused" ELSE "none"],
                  [d \in Calls |-> IF Ok(d) THEN got[d] ELSE NoRow]>>
  BY <1>2, <1>3, SeesNothing
<1>6. ASSUME NEW t \in TablesOf(req[c].op)
      PROVE  c \notin rows[t] /\ ~\E d \in rows[t] : Promise!Collide(t, req[c], req[d])
  BY NoRowsYet DEF Taken, Clash, Promise!Collide, Promise!OneKey
<1>7. rows' = [t \in Promise!Tables |-> IF t \in Promise!TablesOf(req[c]) THEN rows[t] \cup {c}
                                                                         ELSE rows[t]]
  BY SameTables DEF Promise!Tables, Tables
<1> QED
  BY <1>3, <1>4, <1>5, <1>6, <1>7, SameTables DEF Promise!CarryOut

\* A step of the promise or none.
Meets == Promise!Next \/ UNCHANGED Promise!vars

LEMMA StepMeets ==
    ASSUME NEW c \in Calls
    PROVE  /\ Promise!Refuse(c) => Meets
           /\ Promise!CarryOut(c) => Meets
           /\ \A d \in Calls : Promise!Accept(c, d) => Meets
  BY DEF Meets, Promise!Next

LEMMA QuietMeets ==
    ASSUME AdmissionInv, NEW c \in Calls, NEW p \in Places \ {"done"}, Goto(c, p),
           at[c] \notin {"idle", "done"}, UNCHANGED <<req, rows>>,
           \A d \in Calls \ {c} : got'[d] = got[d]
    PROVE  Meets
<1>1. /\ at'[c] = p /\ reply' = reply
      /\ \A d \in Calls \ {c} : at'[d] = at[d]
  BY Going DEF AdmissionInv
<1>2. ~Ok(c)
  BY DEF AdmissionInv, CallFits, PlaceFits
<1> QED
  BY <1>1, <1>2, SeesNothing DEF Meets, Promise!vars

LEMMA ProceedMeets ==
    ASSUME AdmissionInv, NEW c \in Calls, NEW d \in Calls, NEW isReady \in BOOLEAN,
           Proceed(c, d, isReady), at[c] \notin {"idle", "done"}, UNCHANGED <<req, rows>>,
           \A t \in TablesOf(req[c].op) : d \in rows[t],
           ReplayMatches(d, c), d # c => req[c].key # NoKey
    PROVE  Meets
<1>1. got'[c] = d /\ \A e \in Calls \ {c} : got'[e] = got[e]
  BY DEF Proceed, AdmissionInv, TypeOK
<1>2. CASE Answer(c, "ok")
  BY <1>1, <1>2, Accepts, StepMeets
<1>3. CASE Goto(c, "verify") \/ Goto(c, "audit")
  BY <1>1, <1>3, QuietMeets DEF Places
<1> QED
  BY <1>2, <1>3 DEF Proceed
\* One lemma for each step that a caller may see.
LEMMA LookUpMeets == ASSUME AdmissionInv, NEW c \in Calls, LookUp(c) \/ Reread(c) PROVE Meets
<1>1. /\ at[c] \in {"lookup", "reread"} /\ Table(c) \in Tables
      /\ TablesOf(req[c].op) = {Table(c)} /\ UNCHANGED <<req, rows>>
      /\ at[c] = "reread" => Table(c) = "task"
  BY TablesOfOps DEF LookUp, Reread, AdmissionInv, CallFits, PlaceFits, Table, rowVars, Tables
<1>2. CASE Goto(c, "insert") /\ got' = got
  BY <1>1, <1>2, QuietMeets DEF Places
<1>3. CASE Answer(c, "conflict") /\ got' = got
  BY <1>1, <1>3, Refuses, StepMeets DEF Answers
<1>4. ASSUME NEW d \in ByKey(Table(c), c), ReplayMatches(d, c),
             NEW isReady \in BOOLEAN, Proceed(c, d, isReady)
      PROVE  Meets
  <2>1. d \in Calls /\ d \in rows[Table(c)] /\ req[c].key # NoKey
    BY <1>1, <1>4 DEF ByKey, AdmissionInv, TypeOK
  <2> QED
    BY <1>1, <1>4, <2>1, ProceedMeets
<1>5. ASSUME NEW d \in ByKey(Table(c), c), ReplayMatches(d, c), Proceed(c, d, d \in ready)
      PROVE  Meets
  <2>1. Proceed(c, d, TRUE) \/ Proceed(c, d, FALSE)
    BY <1>5 DEF Proceed
  <2> QED
    BY <1>4, <1>5, <2>1
<1>6. CASE LookUp(c)
  BY <1>2, <1>3, <1>5, <1>6 DEF LookUp
<1>7. CASE Reread(c)
  BY <1>1, <1>3, <1>4, <1>7 DEF Reread
<1> QED
  BY <1>6, <1>7

LEMMA InsertRowMeets == ASSUME AdmissionInv, NEW c \in Calls, InsertRow(c) PROVE Meets
<1>1. /\ at[c] = "insert" /\ Table(c) \in Tables /\ Table(c) = req[c].op /\ req' = req
      /\ TablesOf(req[c].op) = {Table(c)}
  BY TablesOfOps DEF InsertRow, Table, AdmissionInv, CallFits, PlaceFits
<1>2. req[c].op # "retry"
  BY <1>1 DEF Tables
<1>3. CASE Taken(Table(c), c)
  <2>1. UNCHANGED <<req, got, rows>> /\ (Goto(c, "reread") \/ Answer(c, "conflict"))
    BY <1>1, <1>3 DEF InsertRow
  <2> QED
    BY <1>1, <2>1, QuietMeets, Refuses, StepMeets DEF Places, Answers
<1>4. CASE ~Taken(Table(c), c)
  <2>1. Proceed(c, c, FALSE) /\ rows' = [rows EXCEPT ![Table(c)] = @ \cup {c}]
    BY <1>4 DEF InsertRow
  <2>2. rows' = [t \in Tables |-> IF t \in TablesOf(req[c].op) THEN rows[t] \cup {c} ELSE rows[t]]
    BY <1>1, <2>1 DEF AdmissionInv, TypeOK
  <2>3. Promise!CarryOut(c)
    BY <1>1, <1>2, <1>4, <2>1, <2>2, CarriesOut DEF Knowing
  <2> QED
    BY <2>3, StepMeets
<1> QED
  BY <1>3, <1>4

LEMMA BundleMeets == ASSUME AdmissionInv, NEW c \in Calls, Bundle(c) PROVE Meets
<1>1. /\ at[c] \in Bundling /\ req[c].op = "bundle" /\ TablesOf(req[c].op) = Tables /\ req' = req
      /\ at[c] \notin Knowing \cup {"idle", "done"}
  <2>1. at[c] \in Bundling /\ req' = req
    BY DEF Bundle, ReplayBundle, InsertBundle, CommitBundle, ReplayAgain, Bundling
  <2> QED
    BY <2>1, TablesOfOps DEF AdmissionInv, CallFits, PlaceFits, Bundling, Knowing
<1>2. CASE \/ ReplayBundle(c, "replay", "begin") \/ ReplayBundle(c, "begin", "inModel")
           \/ ReplayAgain(c)
  <2>1. UNCHANGED <<req, rows>>
    BY <1>2 DEF ReplayBundle, ReplayAgain, rowVars
  <2>2. ASSUME NEW d \in Calls, Aggregate(c, d), Proceed(c, d, FALSE) PROVE Meets
    BY <1>1, <2>1, <2>2, AggregateIsWhole, ProceedMeets
  <2>3. CASE got' = got /\ (Goto(c, "begin") \/ Goto(c, "inModel"))
    BY <1>1, <2>1, <2>3, QuietMeets DEF Places
  <2>4. CASE got' = got /\ Answer(c, "conflict")
    BY <1>1, <2>1, <2>4, Refuses, StepMeets DEF Answers
  <2> QED
    BY <1>2, <2>2, <2>3, <2>4 DEF ReplayBundle, ReplayAgain
<1>3. ASSUME NEW t \in Tables, NEW from \in Places, NEW to \in Places \ {"done"},
             InsertBundle(c, t, from, to)
      PROVE  Meets
  <2>1. UNCHANGED <<req, got, rows>> /\ (Goto(c, to) \/ Goto(c, "replayAgain"))
    BY <1>3 DEF InsertBundle
  <2> QED
    BY <1>1, <2>1, QuietMeets DEF Places
<1>4. CASE CommitBundle(c)
  <2>1. open[c] = Tables /\ Proceed(c, c, FALSE)
    BY <1>4 DEF CommitBundle, AdmissionInv, CallFits, OpenFits
  <2>2. rows' = [t \in Tables |-> IF t \in TablesOf(req[c].op) THEN rows[t] \cup {c} ELSE rows[t]]
    BY <1>1, <1>4, <2>1 DEF CommitBundle
  <2>3. ASSUME NEW t \in Tables, NEW d \in rows[t] PROVE ~Clash(t, c, d)
    <3>1. d \in Calls /\ Present(t, c) /\ Present(t, d)
      BY <2>1, <2>3 DEF Present, AdmissionInv, TypeOK
    <3> QED
      BY <3>1 DEF AdmissionInv, Unique
  <2>4. Promise!CarryOut(c)
    BY <1>1, <2>1, <2>2, <2>3, CarriesOut DEF Taken
  <2> QED
    BY <2>4, StepMeets
<1> QED
  BY <1>2, <1>3, <1>4 DEF Bundle, Tables, Places
LEMMA UploadMeets ==
    ASSUME AdmissionInv, NEW c \in Calls, Verify(c) \/ CreateArtifact(c) \/ MarkReady(c)
    PROVE  Meets
<1>1. /\ at[c] \notin {"idle", "done"} /\ UNCHANGED <<req, got, rows>>
      /\ \/ Goto(c, "record") \/ Goto(c, "markReady") \/ Goto(c, "audit")
         \/ Answer(c, "rejected") \/ Answer(c, "conflict")
  BY DEF Verify, CreateArtifact, MarkReady, rowVars
<1> QED
  BY <1>1, QuietMeets, Refuses, StepMeets DEF Places, Answers

LEMMA AnswerMeets ==
    ASSUME AdmissionInv, NEW c \in Calls,
           RecordAudit(c) \/ BreakOff(c) \/ \E d \in Calls : RetryFailed(c, d)
    PROVE  Meets
<1>1. CASE RecordAudit(c)
  <2>1. /\ at[c] = "audit" /\ Answer(c, "ok") /\ UNCHANGED <<req, got, rows>>
    BY <1>1 DEF RecordAudit, rowVars
  <2>2. /\ got[c] \in Calls /\ \A t \in TablesOf(req[c].op) : got[c] \in rows[t]
        /\ req[c].op # "retry" => ReplayMatches(got[c], c) /\ (got[c] # c => req[c].key # NoKey)
        /\ req[c] \in Requests \cup {Retry}
    BY <2>1 DEF AdmissionInv, CallFits, RowKnown, PlaceFits, Knowing
  <2>3. req[c].op = "retry" => req[c] = Retry
    BY <2>2, RetryIsOne
  <2>4. PICK d \in Calls : d = got[c]
    BY <2>2
  <2>5. /\ got'[c] = d /\ \A e \in Calls \ {c} : got'[e] = got[e]
        /\ \A t \in TablesOf(req[c].op) : d \in rows[t]
        /\ req[c] = Retry \/ ReplayMatches(d, c)
        /\ d # c => req[c] = Retry \/ req[c].key # NoKey
    BY <2>1, <2>2, <2>3, <2>4
  <2>6. Promise!Accept(c, d)
    BY <2>1, <2>5, Accepts
  <2> QED
    BY <2>6, StepMeets
<1>2. CASE BreakOff(c)
  BY <1>2, Refuses, StepMeets DEF BreakOff, Answers
<1>3. ASSUME NEW d \in Calls, RetryFailed(c, d) PROVE Meets
  <2>1. at[c] = "retry" /\ UNCHANGED <<req, rows>>
    BY <1>3 DEF RetryFailed, rowVars
  <2>2. CASE Answer(c, "rejected") /\ got' = got
    BY <2>1, <2>2, Refuses, StepMeets DEF Answers
  <2>3. CASE Goto(c, "audit") /\ got' = [got EXCEPT ![c] = d]
    <3>1. \A e \in Calls \ {c} : got'[e] = got[e]
      BY <2>3 DEF AdmissionInv, TypeOK
    <3> QED
      BY <2>1, <2>3, <3>1, QuietMeets DEF Places
  <2> QED
    BY <1>3, <2>2, <2>3 DEF RetryFailed
<1> QED
  BY <1>1, <1>2, <1>3

LEMMA ReceiveMeets ==
    ASSUME AdmissionInv, NEW c \in Calls, NEW r \in Requests \cup {Retry}, Receive(c, r)
    PROVE  Meets
<1>1. /\ at[c] = "idle" /\ Goto(c, First(r)) /\ req' = [req EXCEPT ![c] = r]
      /\ got' = got /\ rows' = rows
  BY DEF Receive, rowVars
<1>2. req[c] = NoRequest /\ ~Ok(c)
  BY <1>1 DEF AdmissionInv, CallFits, PlaceFits
<1>3. First(r) # "done"
  BY DEF First
<1>4. /\ at'[c] # "done" /\ reply' = reply
      /\ \A d \in Calls \ {c} : at'[d] = at[d] /\ got'[d] = got[d]
  BY <1>1, <1>3, Going DEF AdmissionInv
<1>5. Promise!Ask(c, r)
  BY <1>1, <1>2, <1>4, SeesNothing DEF Promise!Ask
<1> QED
  BY <1>5 DEF Meets, Promise!Next

LEMMA OthersMeet ==
    ASSUME UNCHANGED callVars, UNCHANGED rows
    PROVE  Meets
  BY DEF Meets, Promise!vars, callVars, Ok

LEMMA PromiseStarts == Init => Promise!Init
<1> SUFFICES ASSUME Init PROVE Promise!Init
  OBVIOUS
<1>1. \A c \in Calls : ~Ok(c) /\ at[c] = "idle"
  BY DEF Init, Ok
<1>2. /\ [c \in Calls |-> IF Ok(c) THEN "accepted" ELSE IF at[c] = "done" THEN "refused" ELSE "none"]
            = [c \in Calls |-> "none"]
      /\ [c \in Calls |-> IF Ok(c) THEN got[c] ELSE NoRow] = [c \in Calls |-> NoRow]
  BY <1>1
<1> QED
  BY <1>2 DEF Init, Promise!Init, Promise!Tables, Tables

LEMMA NextMeets == AdmissionInv /\ [Next]_avars => Meets
<1> SUFFICES ASSUME AdmissionInv, [Next]_avars PROVE Meets
  OBVIOUS
<1>1. CASE UNCHANGED avars
  BY <1>1, OthersMeet DEF avars, rowVars
<1>2. ASSUME NEW c \in Calls, Arrive(c) PROVE Meets
  BY <1>2, ReceiveMeets DEF Arrive
<1>3. ASSUME NEW c \in Calls, Handle(c) PROVE Meets
  BY <1>3, LookUpMeets, InsertRowMeets, BundleMeets, UploadMeets, AnswerMeets DEF Handle
<1>4. ASSUME NEW c \in Calls, BreakOff(c) PROVE Meets
  BY <1>4, AnswerMeets
<1>5. ASSUME NEW d \in Calls, TaskFails(d) PROVE Meets
  BY <1>5, OthersMeet DEF TaskFails, rowVars
<1> QED
  BY <1>1, <1>2, <1>3, <1>4, <1>5 DEF Next

\* However calls interleave, repeat and break off, each request is carried out as
\* a whole at one moment or never, and its caller is told what was asked for
\* (model_store.go:43-73, work_store.go:44-78, import_bundle_store.go:29-65).
THEOREM IntakeIsImplemented == Spec => ImplementsIntake
<1>1. AdmissionInv /\ [Next]_avars => [Promise!Next]_(Promise!vars)
  BY NextMeets DEF Meets
<1> QED
  BY <1>1, PromiseStarts, AdmissionInvariance, PTL DEF Spec, ImplementsIntake, Promise!Spec
-----------------------------------------------------------------------------
\* Waiting for inserts.  A bundle takes its tables in one order, so whoever waits
\* for its transaction is at an earlier table.

\* Call c stands in front of an insert that waits for the transaction of d.
InsertsNext(c, t) ==
    \/ at[c] = "insert" /\ t = Table(c)
    \/ at[c] = "inModel" /\ t = "model"
    \/ at[c] = "inVersion" /\ t = "version"
    \/ at[c] = "inTask" /\ t = "task"

WaitsFor(c, d) == \E t \in Tables : InsertsNext(c, t) /\ t \in open[d] /\ Clash(t, c, d)

Progress(c) == CASE at[c] = "inVersion" -> 1
                 [] at[c] = "inTask"    -> 2
                 [] at[c] = "commit"    -> 3
                 [] OTHER               -> 0

LEMMA WaitsForward ==
    ASSUME AdmissionInv, NEW c \in Calls, NEW d \in Calls, WaitsFor(c, d)
    PROVE  Progress(c) < Progress(d)
<1>1. PICK t \in Tables : InsertsNext(c, t) /\ t \in open[d]
  BY DEF WaitsFor
<1>2. OpenFits(d)
  BY DEF AdmissionInv, CallFits
<1>3. at[d] \in {"inVersion", "inTask", "commit"}
  BY <1>1, <1>2 DEF OpenFits
<1>4. at[c] = "inVersion" => at[d] \in {"inTask", "commit"}
  BY <1>1, <1>2, <1>3 DEF OpenFits, InsertsNext
<1>5. at[c] = "inTask" => at[d] = "commit"
  BY <1>1, <1>2, <1>3 DEF OpenFits, InsertsNext
<1>6. at[c] # "commit"
  BY <1>1 DEF InsertsNext
<1> QED
  BY <1>3, <1>4, <1>5, <1>6 DEF Progress

\* Of any calls one waits for none of the others.
NoCircularWait ==
    \A S \in SUBSET Calls : S # {} => \E c \in S : \A d \in S : ~WaitsFor(c, d)

LEMMA NoCircle == AdmissionInv => NoCircularWait
<1> SUFFICES ASSUME AdmissionInv, NEW S \in SUBSET Calls, S # {}
             PROVE  \E c \in S : \A d \in S : ~WaitsFor(c, d)
  BY DEF NoCircularWait
<1> DEFINE Furthest(c) == \A d \in S : Progress(d) <= Progress(c)
<1>1. \A c \in S : Progress(c) \in 0 .. 3
  BY DEF Progress
<1>2. \E c \in S : Furthest(c)
  <2>1. CASE \E c \in S : Progress(c) = 3
    BY <2>1, <1>1
  <2>2. CASE ~(\E c \in S : Progress(c) = 3) /\ \E c \in S : Progress(c) = 2
    BY <2>2, <1>1
  <2>3. CASE ~(\E c \in S : Progress(c) \in {2, 3}) /\ \E c \in S : Progress(c) = 1
    BY <2>3, <1>1
  <2>4. CASE ~(\E c \in S : Progress(c) \in {1, 2, 3})
    BY <2>4, <1>1
  <2> QED
    BY <2>1, <2>2, <2>3, <2>4
<1>3. PICK c \in S : Furthest(c)
  BY <1>2
<1>4. \A d \in S : ~WaitsFor(c, d)
  BY <1>1, <1>3, WaitsForward
<1> QED
  BY <1>4

\* No calls ever wait for each other in a circle, however many bundles and single
\* creations compete for the unique indexes (import_bundle_store.go:92-140): what
\* CallsEnd needs of them, for any number of calls.
THEOREM NobodyWaitsInACircle == Spec => []NoCircularWait
<1> QED
  BY NoCircle, AdmissionInvariance, PTL
=============================================================================
