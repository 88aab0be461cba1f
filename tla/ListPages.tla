------------------------------ MODULE ListPages ------------------------------
(***************************************************************************)
(* A caller reads ListModels, ListModelVersions or ListModelOperations     *)
(* page by page (internal/service over the stores of                       *)
(* internal/data/postgres), while rows come and go.  A page is counted and *)
(* read in one REPEATABLE READ transaction, whose snapshot is taken by its *)
(* first query.  A row is the number of its place in the order of the      *)
(* list, the newest one first; offsets are integers of a small width in    *)
(* place of int32.                                                         *)
(***************************************************************************)
EXTENDS Integers, Sequences, FiniteSets, SequencesExt

CONSTANTS
    ListRows,   \* the rows of a list there may ever be
    ListSizes,  \* page_size of the callers
    MaxInt32,   \* the largest offset of the database
    MaxRetries  \* bound: reads that fail

ASSUME ListPagesAssumption ==
    /\ ListRows \subseteq Nat /\ IsFiniteSet(ListRows)
    /\ ListSizes \subseteq Nat \ {0}
    /\ MaxInt32 \in Nat /\ MaxRetries \in Nat

VARIABLES
    list,     \* which list it is
    parent,   \* whether the model of its versions and operations is there
    rows,     \* the rows that match
    used,     \* the rows that have been inserted
    size,     \* page_size
    number,   \* the page the caller asks for
    lplace,   \* where the handler is
    snapshot, \* the rows the transaction of the read sees
    total, items, \* the answer
    began,    \* the rows there were when the caller asked for page 1, if it did
    left,     \* a row has left the list since
    seen,     \* the rows the caller has been given
    failures

lvars == <<list, parent, rows, used, size, number, lplace, snapshot, total, items,
           began, left, seen, failures>>

ListInit ==
    /\ list \in {"models", "versions", "operations"} /\ parent = TRUE
    /\ rows \in SUBSET ListRows /\ used = rows
    /\ size \in ListSizes /\ number \in 1 .. MaxInt32
    /\ lplace = "ask"
    /\ snapshot = {} /\ total = 0 /\ items = <<>>
    /\ began = (IF number = 1 THEN rows ELSE {}) /\ left = FALSE /\ seen = {} /\ failures = 0

\* resolvePage refuses a page whose offset does not fit int32.
PageAccepted(p, n) == p >= 1 /\ p - 1 <= MaxInt32 \div n
Offset(p, n) == (p - 1) * n

\* The conversion to int32, and what OFFSET and LIMIT take of the rows.
AsInt32(n) == ((n + MaxInt32 + 1) % (2 * (MaxInt32 + 1))) - (MaxInt32 + 1)
Before(r, set) == {q \in set : q < r}
Newest(set) ==
    [i \in 1 .. Cardinality(set) |-> CHOOSE r \in set : Cardinality(Before(r, set)) = i - 1]
Slice(sequence, offset, n) ==
    SubSeq(sequence, offset + 1, IF offset + n < Len(sequence) THEN offset + n ELSE Len(sequence))

Matching == IF list = "versions" /\ ~parent THEN {} ELSE rows
-----------------------------------------------------------------------------
\* The handler up to its store: versions and operations resolve the model, before
\* or after the page is checked.
AskList ==
    /\ lplace = "ask"
    /\ lplace' = IF list = "versions" /\ ~parent THEN "notFound"
                 ELSE IF ~PageAccepted(number, size) THEN "refused"
                 ELSE IF list = "operations" /\ ~parent THEN "notFound"
                 ELSE "count"
    /\ UNCHANGED <<list, parent, rows, used, size, number, snapshot, total, items,
                   began, left, seen, failures>>

ReadCount ==
    /\ lplace = "count"
    /\ snapshot' = Matching
    /\ total' = Cardinality(snapshot')
    /\ lplace' = "list"
    /\ UNCHANGED <<list, parent, rows, used, size, number, items, began, left, seen, failures>>
\* Mutant of ReadRows: the list is read outside of the transaction.
ReadRowsNow ==
    /\ lplace = "list"
    /\ LET offset == AsInt32(Offset(number, size)) IN
       /\ offset >= 0
       /\ lplace' = "answered" /\ items' = Slice(Newest(Matching), offset, size)
    /\ UNCHANGED <<list, parent, rows, used, size, number, snapshot, total,
                   began, left, seen, failures>>

\* Mutant of ReadRows: rows of one time come in any order.
ReadRowsUnordered ==
    /\ lplace = "list"
    /\ LET offset == AsInt32(Offset(number, size)) IN
       /\ offset >= 0
       /\ lplace' = "answered"
       /\ \E order \in SetToSeqs(snapshot) : items' = Slice(order, offset, size)
    /\ UNCHANGED <<list, parent, rows, used, size, number, snapshot, total,
                   began, left, seen, failures>>

\* An offset below zero is an error of the database.
ReadRows ==
    /\ lplace = "list"
    /\ LET offset == AsInt32(Offset(number, size)) IN
       IF offset < 0 THEN lplace' = "refused" /\ UNCHANGED items
       ELSE lplace' = "answered" /\ items' = Slice(Newest(snapshot), offset, size)
    /\ UNCHANGED <<list, parent, rows, used, size, number, snapshot, total,
                   began, left, seen, failures>>

\* A query or the commit fails: the transaction is rolled back, the caller is
\* told, and asks again.
ReadFails ==
    /\ lplace \in {"count", "list"}
    /\ failures < MaxRetries
    /\ failures' = failures + 1 /\ lplace' = "ask"
    /\ UNCHANGED <<list, parent, rows, used, size, number, snapshot, total, items,
                   began, left, seen>>

\* The caller takes the page and goes on while the total says that there is more.
TakePage ==
    /\ lplace = "answered"
    /\ seen' = seen \cup Range(items)
    /\ IF number * size < total
       THEN number' = number + 1 /\ lplace' = "ask"
       ELSE lplace' = "finished" /\ UNCHANGED number
    /\ UNCHANGED <<list, parent, rows, used, size, snapshot, total, items, began, left, failures>>

Reading == AskList \/ ReadCount \/ ReadRows \/ TakePage
-----------------------------------------------------------------------------
\* Others: a row is created, or comes to match; created_at is taken before the
\* row is committed, so that it need not become the first one.
RowEnters(r) ==
    /\ lplace \notin {"refused", "notFound", "finished"}
    /\ r \notin used /\ parent
    /\ rows' = rows \cup {r} /\ used' = used \cup {r}
    /\ UNCHANGED <<list, parent, size, number, lplace, snapshot, total, items,
                   began, left, seen, failures>>

\* A row is deleted or no longer matches; the history is never deleted.
RowLeaves(r) ==
    /\ lplace \notin {"refused", "notFound", "finished"}
    /\ list # "operations" /\ r \in rows
    /\ rows' = rows \ {r} /\ left' = TRUE
    /\ UNCHANGED <<list, parent, used, size, number, lplace, snapshot, total, items,
                   began, seen, failures>>

ParentDeleted ==
    /\ lplace \notin {"refused", "notFound", "finished"}
    /\ list # "models" /\ parent
    /\ parent' = FALSE /\ left' = TRUE
    /\ UNCHANGED <<list, rows, used, size, number, lplace, snapshot, total, items,
                   began, seen, failures>>

ListNext ==
    \/ Reading \/ ReadFails
    \/ \E r \in ListRows : RowEnters(r) \/ RowLeaves(r)
    \/ ParentDeleted

ListSpec == ListInit /\ [][ListNext]_lvars
-----------------------------------------------------------------------------
ListTypeOK ==
    /\ rows \subseteq used /\ used \subseteq ListRows
    /\ size \in ListSizes /\ number \in Nat \ {0}
    /\ lplace \in {"ask", "count", "list", "answered", "refused", "notFound", "finished"}
    /\ total \in Nat /\ items \in Seq(ListRows) /\ failures \in 0 .. MaxRetries

\* The total and the rows of an answer agree, for every page a caller can name:
\* rows that come and go between the count and the list do not show, and a page
\* far behind the end is empty (model_store.go:99-132, pagination.go:30-46).
PageFitsTotal ==
    lplace = "answered" =>
        LET rest == total - Offset(number, size)
        IN Len(items) = IF rest < 0 THEN 0 ELSE IF rest > size THEN size ELSE rest

\* Whoever reads from the first page to the end has seen every row there was at
\* the beginning and that stayed, whatever was inserted meanwhile and wherever
\* (ORDER BY created_at DESC, id DESC; queries/model.sql:80,221,439).
ReadToTheEnd ==
    lplace = "finished" /\ ~left => began \subseteq seen

\* The strengthening: as long as no row has left, a row of the beginning that has
\* not been read is behind the pages that have, in the list and in the snapshot;
\* and an answer is the page of the snapshot that was asked for.
Ahead(set) ==
    \A r \in began \ seen : r \in set /\ Cardinality(Before(r, set)) >= Offset(number, size)

ListInv ==
    /\ rows \subseteq ListRows /\ snapshot \subseteq ListRows
    /\ size \in ListSizes /\ number \in Nat \ {0}
    /\ lplace \in {"count", "list", "answered"} => PageAccepted(number, size)
    /\ lplace \in {"list", "answered"} => total = Cardinality(snapshot)
    /\ lplace = "answered" => items = Slice(Newest(snapshot), Offset(number, size), size)
    /\ ~left =>
          /\ parent
          /\ lplace # "finished" => Ahead(rows)
          /\ lplace \in {"list", "answered"} => snapshot \subseteq rows /\ Ahead(snapshot)
    /\ ReadToTheEnd
=============================================================================
