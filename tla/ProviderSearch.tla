---------------------------- MODULE ProviderSearch ----------------------------
(***************************************************************************)
(* A caller walks through the results of SearchExternalModels              *)
(* (internal/service/model.go) page by page.  The two providers page in    *)
(* different ways (internal/data/importer/http_source.go): ModelScope by   *)
(* the number of the page, Hugging Face by a cursor that is only found by  *)
(* following the pages before it.  Each request to a provider may fail; a  *)
(* caller then asks for the same page again.                               *)
(***************************************************************************)
EXTENDS Naturals, Sequences, SequencesExt

CONSTANTS
    Catalogue,  \* what the provider has, in its order
    Incomplete, \* sets of items that may come without a repository id
    PageSize,   \* page_size of the caller
    MaxPage,    \* the last page a search accepts
    MaxErrors   \* bound: requests that fail

ASSUME ProviderSearchAssumption ==
    /\ Catalogue \in Seq(Range(Catalogue))
    /\ Incomplete \subseteq SUBSET Range(Catalogue)
    /\ PageSize \in Nat \ {0} /\ MaxPage \in Nat \ {0} /\ MaxErrors \in Nat

VARIABLES
    provider, \* the provider that is searched
    counted,  \* ModelScope tells how many results there are
    nameless, \* the items without a repository id
    first,    \* the page the caller begins with
    page,     \* the page it asks for
    splace,   \* where the search is
    cursor,   \* pages that the followed cursor is past
    hop,      \* the page the next request of the adapter is for
    shown,    \* the items the caller has been given
    errors

svars == <<provider, counted, nameless, first, page, splace, cursor, hop, shown, errors>>

SearchInit ==
    /\ provider \in {"huggingface", "modelscope"}
    /\ counted \in BOOLEAN
    /\ nameless \in Incomplete
    /\ first \in 1 .. MaxPage + 1 /\ page = first /\ splace = "caller"
    /\ cursor = 0 /\ hop = 1
    /\ shown = <<>> /\ errors = 0

\* A page of the provider, and whether its answer links to another one.
Results(n) == SubSeq(Catalogue, (n - 1) * PageSize + 1,
                     IF n * PageSize < Len(Catalogue) THEN n * PageSize ELSE Len(Catalogue))
Linked(n) == n * PageSize < Len(Catalogue)

\* The items with a repository id, as SelectSeq has them.
Named(items) ==
    LET kept[k \in 0 .. Len(items)] ==
            IF k = 0 THEN <<>>
            ELSE IF items[k] \in nameless THEN kept[k - 1] ELSE Append(kept[k - 1], items[k])
    IN kept[Len(items)]

\* searchURLWithCursor for ModelScope: Search takes the page from the cursor of
\* the request, which the service leaves empty, in place of its page number.
RequestedPage == 1
-----------------------------------------------------------------------------
\* Mutant of AskPage: the way to the page goes on where an earlier one broke off.
AskPageKeepsHop ==
    /\ splace = "caller"
    /\ splace' = IF page > MaxPage THEN "refused"
                 ELSE IF provider = "huggingface" /\ page > 1 THEN "follow"
                 ELSE "fetch"
    /\ cursor' = 0
    /\ UNCHANGED <<provider, counted, nameless, first, page, hop, shown, errors>>

\* SearchRequest.Validate, then the way to the page.
AskPage ==
    /\ splace = "caller"
    /\ splace' = IF page > MaxPage THEN "refused"
                 ELSE IF provider = "huggingface" /\ page > 1 THEN "follow"
                 ELSE "fetch"
    /\ cursor' = 0 /\ hop' = 1
    /\ UNCHANGED <<provider, counted, nameless, first, page, shown, errors>>

\* The answer of the service; the caller goes on while there is more.
AnswerPage(items, more) ==
    /\ shown' = shown \o items
    /\ splace' = IF more THEN "caller" ELSE "done"
    /\ page' = IF more THEN page + 1 ELSE page

\* huggingFaceCursorForPage, one request; behind the last page there is nothing.
FollowCursor ==
    /\ splace = "follow"
    /\ hop < page
    /\ IF Linked(hop)
       THEN hop' = hop + 1 /\ cursor' = hop /\ UNCHANGED <<shown, splace, page>>
       ELSE AnswerPage(<<>>, FALSE) /\ UNCHANGED <<hop, cursor>>
    /\ UNCHANGED <<provider, counted, nameless, first, errors>>

FollowedCursor ==
    /\ splace = "follow"
    /\ hop = page
    /\ splace' = "fetch"
    /\ UNCHANGED <<provider, counted, nameless, first, page, cursor, hop, shown, errors>>

\* A candidate without a repository fails the whole answer.
FetchHuggingFace ==
    /\ splace = "fetch" /\ provider = "huggingface"
    /\ LET items == Results(cursor + 1) IN
       IF Named(items) = items
       THEN AnswerPage(items, Linked(cursor + 1))
       ELSE splace' = "failed" /\ UNCHANGED <<shown, page>>
    /\ UNCHANGED <<provider, counted, nameless, first, cursor, hop, errors>>

\* Here they are left out.
FetchModelScope ==
    /\ splace = "fetch" /\ provider = "modelscope"
    /\ LET items == Named(Results(RequestedPage)) IN
       AnswerPage(items, /\ items # <<>>
                         /\ IF counted THEN Linked(RequestedPage) ELSE Len(items) >= PageSize)
    /\ UNCHANGED <<provider, counted, nameless, first, cursor, hop, errors>>

\* A request that fails, or is answered with an error, fails the whole call.
ProviderFails ==
    /\ splace \in {"follow", "fetch"}
    /\ errors < MaxErrors
    /\ errors' = errors + 1
    /\ splace' = "caller"
    /\ UNCHANGED <<provider, counted, nameless, first, page, cursor, hop, shown>>

Searching ==
    \/ AskPage \/ FollowCursor \/ FollowedCursor
    \/ FetchHuggingFace \/ FetchModelScope

SearchNext == Searching \/ ProviderFails
SearchSpec == SearchInit /\ [][SearchNext]_svars
-----------------------------------------------------------------------------
SearchTypeOK ==
    /\ provider \in {"huggingface", "modelscope"} /\ counted \in BOOLEAN
    /\ nameless \in Incomplete /\ first \in 1 .. MaxPage + 1
    /\ page \in 1 .. MaxPage + 1 /\ hop \in 1 .. page
    /\ cursor \in 0 .. page
    /\ splace \in {"caller", "follow", "fetch", "refused", "failed", "done"}
    /\ shown \in Seq(Range(Catalogue)) /\ errors \in 0 .. MaxErrors

\* What a caller that begins with the first page should be shown.
Expected == SubSeq(Catalogue, (first - 1) * PageSize + 1, Len(Catalogue))

\* Whoever walks through the results of Hugging Face, from any page to the end, has
\* seen each of them once and in order, although every page is reached anew over
\* the pages before it and any request may fail (http_source.go:386-424).
WalkComplete ==
    provider = "huggingface" => /\ IsPrefix(shown, Expected)
                                /\ splace = "done" => shown = Expected

\* The strengthening: the pages before the one that is asked for have been shown,
\* each of them had a next one, and a cursor has come that far.
PagesBefore(n) == SubSeq(Catalogue, (first - 1) * PageSize + 1, (n - 1) * PageSize)
WalkInv ==
    provider = "huggingface" =>
        /\ first \in Nat \ {0} /\ page \in Nat /\ first <= page
        /\ splace \in {"caller", "follow", "fetch", "refused", "failed", "done"}
        /\ splace # "done" => shown = PagesBefore(page) /\ (first = page \/ Linked(page - 1))
        /\ splace = "done" => shown = Expected
        /\ splace = "follow" =>
              hop \in 1 .. page /\ cursor = hop - 1 /\ (hop = 1 \/ Linked(hop - 1))
        /\ splace = "fetch" => cursor = page - 1 /\ (page = 1 \/ Linked(page - 1))

\* What docs/model-inference-fields.md:63 says of both providers, that `page` pages
\* by page numbers from 1: no result is shown twice or before an earlier one.
PagesInOrder == IsPrefix(shown, Named(Expected))
=============================================================================
