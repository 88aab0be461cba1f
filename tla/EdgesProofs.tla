----------------------------- MODULE EdgesProofs -----------------------------
(***************************************************************************)
(* Proofs about the small modules that MCEdges checks in one run.  Each is *)
(* proved for its own specification: the upload session for any lifetimes, *)
(* intervals and delays that satisfy UploadSessionAssumption; the walk     *)
(* through the results of Hugging Face for any catalogue and page size;    *)
(* the pages of a list for any rows; the size of a volume for manifests of *)
(* any length and any sizes; the fine-tuning facts for archives of any     *)
(* length and any limits.  Their types are proved at the end.              *)
(***************************************************************************)
EXTENDS UploadSession, ProviderSearch, ListPages, VolumeEstimate, FinetuningFacts,
        FiniteSetTheorems, SequenceTheorems, WellFoundedInduction, TLAPS

LEMMA UploadStarts == UploadInit => UploadInv
  BY UploadSessionAssumption
     DEF UploadInit, UploadInv, UploadTypeOK, UrlOutlasts, UrlUsable

\* The clock moves only as far as the next look and the next mount allow.
LEMMA TickKeeps == UploadInv /\ TickUpload => UploadInv'
  BY UploadSessionAssumption
     DEF TickUpload, UploadInv, UploadTypeOK, UrlOutlasts, UrlUsable

\* A look happens in time, so that the address it leaves outlasts the next one.
LEMMA LookKeeps == UploadInv /\ Look => UploadInv'
<1> SUFFICES ASSUME UploadInv, Look PROVE UploadInv'
  OBVIOUS
<1> USE UploadSessionAssumption DEF UploadInv, UploadTypeOK
<1>1. UploadTypeOK'
  <2>0. \A n \in Lifetimes : now + n \in Nat
    OBVIOUS
  <2>1. signed' \in Nat /\ changed' \in Nat
    BY <2>0 DEF Look
  <2>3. nextLook' \in Nat
    BY DEF Look
  <2>2. watch' \in BOOLEAN /\ covered' \in BOOLEAN
    BY DEF Look
  <2> QED
    BY <2>1, <2>2, <2>3 DEF Look
<1>2. annotated => now = nextLook
  BY DEF Look, UrlOutlasts
<1>3. CASE /\ ~annotated \/ signed > now + Threshold
           /\ covered' = (covered \/ mounted = signed)
           /\ UNCHANGED <<signed, changed, watch>>
  <2>1. UrlOutlasts'
    BY <1>3 DEF Look, UrlOutlasts
  <2>2. UrlUsable'
    BY <1>3 DEF Look, UrlUsable
  <2> QED
    BY <1>1, <2>1, <2>2
<1>4. CASE /\ annotated /\ signed <= now + Threshold
           /\ \E n \in Lifetimes : signed' = now + n
           /\ changed' = now
           /\ UNCHANGED <<watch, covered>>
  <2>1. signed' > now + Threshold + MountDelay
    BY <1>4
  <2>2. covered => mounted = signed
    BY <1>4 DEF Look, UrlOutlasts
  <2>3. covered => mounted > now + MountDelay
    BY <1>2, <1>4, <2>2 DEF Look, UrlOutlasts
  <2>4. UrlOutlasts'
    BY <1>2, <1>4, <2>1, <2>3 DEF Look, UrlOutlasts
  <2>5. UrlUsable'
    BY <1>4, <2>3 DEF Look, UrlUsable
  <2> QED
    BY <1>1, <2>4, <2>5
<1>5. CASE watch' = FALSE /\ covered' = FALSE /\ UNCHANGED <<signed, changed>>
  <2>1. UrlOutlasts'
    BY <1>5 DEF UrlOutlasts
  <2>2. UrlUsable'
    BY <1>5 DEF UrlUsable
  <2> QED
    BY <1>1, <2>1, <2>2
<1>6. CASE ~annotated \/ signed > now + Threshold
  BY <1>3, <1>6 DEF Look
<1>7. CASE ~(~annotated \/ signed > now + Threshold)
  <2>1. annotated /\ signed <= now + Threshold
    BY <1>7
  <2>2. \/ /\ \E n \in Lifetimes : signed' = now + n
           /\ changed' = now
           /\ UNCHANGED <<watch, covered>>
        \/ /\ watch' = FALSE /\ covered' = FALSE
           /\ UNCHANGED <<signed, changed>>
    BY <1>7 DEF Look
  <2> QED
    BY <1>4, <1>5, <2>1, <2>2
<1> QED
  BY <1>6, <1>7

\* The mount replaces the old address before it expires by one that lasts.
LEMMA RemountKeeps == UploadInv /\ Remount => UploadInv'
  BY UploadSessionAssumption
     DEF Remount, UploadInv, UploadTypeOK, UrlOutlasts, UrlUsable

LEMMA OthersKeep ==
    UploadInv /\ (Upload \/ Abandon \/ Adopt \/ UNCHANGED uvars) => UploadInv'
<1> USE DEF UploadInv, UploadTypeOK, UrlOutlasts, UrlUsable
<1>1. UploadInv /\ Upload => UploadInv'
  BY DEF Upload
<1>2. UploadInv /\ Abandon => UploadInv'
  BY DEF Abandon
<1>3. UploadInv /\ Adopt => UploadInv'
  BY DEF Adopt
<1>4. UploadInv /\ UNCHANGED uvars => UploadInv'
  BY DEF uvars
<1> QED
  BY <1>1, <1>2, <1>3, <1>4

THEOREM UploadInvariance == UploadSpec => []UploadInv
<1>1. UploadInv /\ [UploadNext]_uvars => UploadInv'
  BY TickKeeps, LookKeeps, RemountKeeps, OthersKeep DEF UploadNext
<1> QED
  BY <1>1, UploadStarts, PTL DEF UploadSpec

\* While attempts watch a Job without a gap the address its Pod reads is valid,
\* however long the download takes (kubernetes_executor.go:165-214).
THEOREM UrlStaysUsable == UploadSpec => []UrlUsable
<1>1. UploadInv => UrlUsable
  BY DEF UploadInv
<1> QED
  BY <1>1, UploadInvariance, PTL
-----------------------------------------------------------------------------
\* Positions in a catalogue.
LEMMA PagePositions ==
    ASSUME NEW m \in Nat, NEW n \in Nat, NEW k \in Nat, m <= n
    PROVE  /\ m * k \in Nat /\ n * k \in Nat /\ m * k <= n * k
           /\ (n + 1) * k = n * k + k
<1>1. PICK d \in Nat : n = m + d
  <2>1. n - m \in Nat /\ n = m + (n - m)
    OBVIOUS
  <2> QED
    BY <2>1
<1>2. m * k \in Nat /\ d * k \in Nat
  OBVIOUS
<1>3. n * k = m * k + d * k
  BY <1>1
<1>4. (n + 1) * k = n * k + k
  OBVIOUS
<1> QED
  BY <1>2, <1>3, <1>4

\* What the walk relies on: where the pages begin.
LEMMA PagesStart ==
    ASSUME WalkInv, provider = "huggingface"
    PROVE  /\ Catalogue \in Seq(Range(Catalogue)) /\ Len(Catalogue) \in Nat
           /\ (first - 1) * PageSize \in Nat /\ (page - 1) * PageSize \in Nat
           /\ (first - 1) * PageSize <= (page - 1) * PageSize
           /\ page * PageSize = (page - 1) * PageSize + PageSize
<1>1. /\ first - 1 \in Nat /\ page - 1 \in Nat /\ PageSize \in Nat /\ first - 1 <= page - 1
      /\ page \in Nat
  BY ProviderSearchAssumption DEF WalkInv
<1>2. page * PageSize = (page - 1) * PageSize + PageSize
  <2>1. ((page - 1) + 1) * PageSize = (page - 1) * PageSize + PageSize
    BY <1>1, PagePositions
  <2>2. (page - 1) + 1 = page
    BY <1>1
  <2> QED
    BY <2>1, <2>2
<1> QED
  BY <1>1, <1>2, PagePositions, ProviderSearchAssumption

\* A page that is there continues what has been shown.
LEMMA PageContinues ==
    ASSUME WalkInv, provider = "huggingface", splace = "fetch"
    PROVE  /\ Linked(cursor + 1) => shown \o Results(cursor + 1) = PagesBefore(page + 1)
           /\ ~Linked(cursor + 1) => shown \o Results(cursor + 1) = Expected
<1> DEFINE low == (first - 1) * PageSize
           high == (page - 1) * PageSize
           top == IF page * PageSize < Len(Catalogue) THEN page * PageSize ELSE Len(Catalogue)
<1>1. /\ Catalogue \in Seq(Range(Catalogue)) /\ Len(Catalogue) \in Nat
      /\ low \in Nat /\ high \in Nat /\ low <= high
      /\ page * PageSize = high + PageSize /\ PageSize \in Nat
  BY PagesStart, ProviderSearchAssumption
<1>2. cursor + 1 = page /\ shown = SubSeq(Catalogue, low + 1, high)
      /\ (page = 1 \/ Linked(page - 1)) /\ page \in Nat /\ page + 1 - 1 = page
  BY DEF WalkInv, PagesBefore
<1>3. high <= Len(Catalogue)
  <2>1. CASE page = 1
    BY <1>1, <2>1
  <2>2. CASE Linked(page - 1)
    BY <1>1, <2>2 DEF Linked
  <2> QED
    BY <1>2, <2>1, <2>2
<1>4. high <= top /\ top <= Len(Catalogue) /\ top \in Nat
  BY <1>1, <1>3
<1>5. shown \o Results(page) = SubSeq(Catalogue, low + 1, top)
  <2>1. low + 1 \in 1 .. Len(Catalogue) + 1
    BY <1>1, <1>3
  <2>2. high \in (low + 1) - 1 .. Len(Catalogue) /\ top \in high .. Len(Catalogue)
    BY <1>1, <1>3, <1>4
  <2>3. SubSeq(Catalogue, low + 1, high) \o SubSeq(Catalogue, high + 1, top)
            = SubSeq(Catalogue, low + 1, top)
    BY <1>1, <2>1, <2>2, ConcatAdjacentSubSeq
  <2> QED
    BY <1>2, <2>3 DEF Results
<1>6. CASE Linked(page)
  <2>1. top = page * PageSize
    BY <1>6 DEF Linked
  <2>2. PagesBefore(page + 1) = SubSeq(Catalogue, low + 1, top)
    <3>1. (page + 1) - 1 = page
      BY <1>2
    <3>2. ((page + 1) - 1) * PageSize = top
      BY <2>1, <3>1
    <3> HIDE DEF low, top
    <3> QED
      BY <3>2 DEF PagesBefore, low
  <2> QED
    BY <1>2, <1>5, <1>6, <2>2
<1>7. CASE ~Linked(page)
  <2>1. top = Len(Catalogue)
    BY <1>7 DEF Linked
  <2> QED
    BY <1>2, <1>5, <1>7, <2>1 DEF Expected
<1> QED
  BY <1>2, <1>6, <1>7

\* Behind the last page there is nothing that has not been shown.
LEMMA NothingBehind ==
    ASSUME WalkInv, provider = "huggingface", splace = "follow",
           hop < page, ~Linked(hop)
    PROVE  shown = Expected
<1>1. /\ Catalogue \in Seq(Range(Catalogue)) /\ Len(Catalogue) \in Nat
      /\ (first - 1) * PageSize \in Nat /\ (page - 1) * PageSize \in Nat /\ PageSize \in Nat
  BY PagesStart, ProviderSearchAssumption
<1>2. hop \in Nat /\ page - 1 \in Nat /\ hop <= page - 1
  <2>1. page \in Nat
    BY DEF WalkInv
  <2>2. hop \in 1 .. page
    BY DEF WalkInv
  <2> QED
    BY <2>1, <2>2
<1>3. hop * PageSize <= (page - 1) * PageSize /\ hop * PageSize \in Nat
  BY <1>1, <1>2, PagePositions
<1>4. ~Linked(page - 1)
  BY <1>1, <1>3 DEF Linked
<1>5. first = page /\ shown = PagesBefore(page)
  BY <1>4 DEF WalkInv
<1>6. shown = <<>>
  BY <1>1, <1>5, SubSeqEmpty DEF PagesBefore
<1>7. Len(Catalogue) < (first - 1) * PageSize + 1
  BY <1>1, <1>4, <1>5 DEF Linked
<1>8. Expected = <<>>
  BY <1>1, <1>7, SubSeqEmpty DEF Expected
<1> QED
  BY <1>6, <1>8
LEMMA WalkStarts == SearchInit => WalkInv
<1> SUFFICES ASSUME SearchInit, provider = "huggingface" PROVE WalkInv
  BY DEF WalkInv
<1>1. first \in Nat \ {0} /\ page = first /\ splace = "caller" /\ shown = <<>>
  BY ProviderSearchAssumption DEF SearchInit
<1>2. PagesBefore(page) = <<>>
  <2>1. (first - 1) * PageSize \in Nat
    <3>1. first - 1 \in Nat /\ PageSize \in Nat /\ first - 1 <= first - 1
      BY <1>1, ProviderSearchAssumption
    <3> QED
      BY <3>1, PagePositions
  <2>2. (first - 1) * PageSize < (first - 1) * PageSize + 1
    BY <2>1
  <2> QED
    BY <1>1, <2>1, <2>2, SubSeqEmpty DEF PagesBefore
<1> QED
  BY <1>1, <1>2 DEF WalkInv

\* One step per action.
LEMMA WalkKept == WalkInv /\ [SearchNext]_svars => WalkInv'
<1> SUFFICES ASSUME WalkInv, [SearchNext]_svars, provider' = "huggingface" PROVE WalkInv'
  BY DEF WalkInv
<1>0. provider = "huggingface" /\ first' = first
  BY DEF SearchNext, Searching, svars, AskPage, FollowCursor, FollowedCursor,
         FetchHuggingFace, FetchModelScope, ProviderFails
<1>1. /\ first \in Nat \ {0} /\ page \in Nat /\ first <= page
      /\ splace # "done" => shown = PagesBefore(page) /\ (first = page \/ Linked(page - 1))
  BY <1>0 DEF WalkInv
<1>3. CASE AskPage
  BY <1>0, <1>1, <1>3 DEF AskPage, WalkInv, PagesBefore
<1>4. CASE FollowCursor
  <2>1. hop \in 1 .. page /\ cursor = hop - 1 /\ hop < page
    BY <1>0, <1>4 DEF FollowCursor, WalkInv
  <2>2. CASE Linked(hop)
    <3>1. hop + 1 \in 1 .. page /\ (hop + 1) - 1 = hop
      BY <1>1, <2>1
    <3>2. /\ hop' = hop + 1 /\ cursor' = hop
          /\ UNCHANGED <<provider, first, shown, splace, page>>
      BY <1>4, <2>2 DEF FollowCursor
    <3> QED
      BY <1>0, <1>1, <1>4, <2>2, <3>1, <3>2 DEF FollowCursor, WalkInv, PagesBefore
  <2>3. CASE ~Linked(hop)
    <3>1. shown = Expected
      BY <1>0, <1>4, <2>1, <2>3, NothingBehind DEF FollowCursor
    <3>2. shown' = shown \o <<>> /\ splace' = "done" /\ page' = page
      BY <1>4, <2>3 DEF FollowCursor, AnswerPage
    <3>3. shown \o <<>> = shown
      <4>1. /\ Catalogue \in Seq(Range(Catalogue)) /\ Len(Catalogue) \in Nat
            /\ (first - 1) * PageSize \in Nat
        BY <1>0, PagesStart
      <4>2. shown \in Seq(Range(Catalogue))
        BY <3>1, <4>1, SubSeqProperties, ElementOfSeq DEF Expected
      <4> QED
        BY <4>2, ConcatEmptySeq
    <3> QED
      BY <1>0, <1>1, <3>1, <3>2, <3>3 DEF WalkInv, Expected
  <2> QED
    BY <2>2, <2>3
<1>5. CASE FollowedCursor
  <2>1. cursor = page - 1 /\ (page = 1 \/ Linked(page - 1))
    BY <1>0, <1>5 DEF FollowedCursor, WalkInv
  <2> QED
    BY <1>0, <1>1, <1>5, <2>1 DEF FollowedCursor, WalkInv, PagesBefore
<1>6. CASE FetchHuggingFace
  <2>1. CASE splace' = "failed" /\ UNCHANGED <<shown, page>>
    BY <1>0, <1>1, <1>6, <2>1 DEF FetchHuggingFace, WalkInv, PagesBefore
  <2>2. CASE AnswerPage(Results(cursor + 1), Linked(cursor + 1))
    <3>1. splace = "fetch" /\ cursor + 1 = page
      BY <1>0, <1>1, <1>6 DEF FetchHuggingFace, WalkInv
    <3>2. CASE Linked(page)
      <4>1. shown' = PagesBefore(page + 1) /\ splace' = "caller" /\ page' = page + 1
        BY <1>0, <2>2, <3>1, <3>2, PageContinues DEF AnswerPage
      <4>2. first <= page + 1 /\ (page + 1) - 1 = page /\ page + 1 \in Nat
        BY <1>1
      <4> QED
        BY <1>0, <1>1, <3>2, <4>1, <4>2 DEF WalkInv, PagesBefore
    <3>3. CASE ~Linked(page)
      <4>1. shown' = Expected /\ splace' = "done" /\ page' = page
        BY <1>0, <2>2, <3>1, <3>3, PageContinues DEF AnswerPage
      <4> QED
        BY <1>0, <1>1, <4>1 DEF WalkInv, Expected
    <3> QED
      BY <3>2, <3>3
  <2> QED
    BY <1>6, <2>1, <2>2 DEF FetchHuggingFace
<1>7. CASE FetchModelScope
  BY <1>0, <1>7 DEF FetchModelScope
<1>8. CASE ProviderFails
  BY <1>0, <1>1, <1>8 DEF ProviderFails, WalkInv, PagesBefore
<1>9. CASE UNCHANGED svars
  BY <1>0, <1>1, <1>9 DEF svars, WalkInv, PagesBefore, Expected
<1> QED
  BY <1>3, <1>4, <1>5, <1>6, <1>7, <1>8, <1>9 DEF SearchNext, Searching

THEOREM WalkInvariance == SearchSpec => []WalkInv
  BY WalkStarts, WalkKept, PTL DEF SearchSpec

\* What has been shown begins what is expected.
LEMMA ShownBegins ==
    ASSUME WalkInv, provider = "huggingface", splace # "done"
    PROVE  IsPrefix(shown, Expected)
<1> DEFINE low == (first - 1) * PageSize
           high == (page - 1) * PageSize
<1>1. /\ Catalogue \in Seq(Range(Catalogue)) /\ Len(Catalogue) \in Nat
      /\ low \in Nat /\ high \in Nat /\ low <= high
  BY PagesStart
<1>2. shown = SubSeq(Catalogue, low + 1, high) /\ (first = page \/ high < Len(Catalogue))
  BY DEF WalkInv, PagesBefore, Linked
<1>3. Expected = SubSeq(Catalogue, low + 1, Len(Catalogue))
  BY DEF Expected
<1> HIDE DEF low, high
<1>4. CASE high = low
  <2>1. shown = <<>>
    BY <1>1, <1>2, <1>4, SubSeqEmpty
  <2>2. Expected \in Seq(Range(Catalogue))
    BY <1>1, <1>3, SubSeqProperties, ElementOfSeq
  <2>3. Len(shown) = 0 /\ Len(Expected) \in Nat
    BY <2>1, <2>2
  <2>4. SubSeq(shown, 1, 0) = <<>> /\ SubSeq(Expected, 1, 0) = <<>>
    BY SubSeqEmpty
  <2> QED
    BY <2>3, <2>4 DEF IsPrefix
<1>5. CASE high < Len(Catalogue) /\ low < high
  <2>2. /\ shown \in Seq(Range(Catalogue)) /\ Len(shown) = high - low
        /\ Expected \in Seq(Range(Catalogue)) /\ Len(Expected) = Len(Catalogue) - low
    <3>1. \A i \in low + 1 .. Len(Catalogue) : Catalogue[i] \in Range(Catalogue)
      BY <1>1, ElementOfSeq
    <3>2. \A i \in low + 1 .. high : Catalogue[i] \in Range(Catalogue)
      BY <1>1, <1>5, <3>1
    <3> QED
      BY <1>1, <1>2, <1>3, <1>5, <3>1, <3>2, SubSeqProperties
  <2>3. SubSeq(shown, 1, Len(shown)) = shown
    BY <2>2, SubSeqFull
  <2>4. SubSeq(Expected, 1, high - low) = SubSeq(Catalogue, low + 1, high)
    <3>1. SubSeq(SubSeq(Catalogue, low + 1, Len(Catalogue)), 1, high - low)
              = SubSeq(Catalogue, (low + 1) + 1 - 1, (low + 1) + (high - low) - 1)
      BY <1>1, <1>5, SubSeqOfSubSeq
    <3>2. (low + 1) + 1 - 1 = low + 1 /\ (low + 1) + (high - low) - 1 = high
      BY <1>1
    <3> QED
      BY <1>3, <3>1, <3>2
  <2> QED
    BY <1>1, <1>2, <1>5, <2>2, <2>3, <2>4 DEF IsPrefix
<1> QED
  BY <1>1, <1>2, <1>4, <1>5 DEF low, high

\* Whoever walks through the results of Hugging Face sees each of them once and in
\* order, from any page on, whichever requests fail (http_source.go:386-424).
THEOREM WalksComplete == SearchSpec => []WalkComplete
<1>1. WalkInv => WalkComplete
  <2> SUFFICES ASSUME WalkInv, provider = "huggingface"
               PROVE  /\ IsPrefix(shown, Expected)
                      /\ splace = "done" => shown = Expected
    BY DEF WalkComplete
  <2>1. CASE splace = "done"
    <3>1. shown = Expected
      BY <2>1 DEF WalkInv
    <3>2. Expected \in Seq(Range(Catalogue))
      <4>1. /\ Catalogue \in Seq(Range(Catalogue)) /\ Len(Catalogue) \in Nat
            /\ (first - 1) * PageSize \in Nat
        BY PagesStart
      <4> QED
        BY <4>1, SubSeqProperties, ElementOfSeq DEF Expected
    <3> QED
      BY <3>1, <3>2 DEF IsPrefix
  <2> QED
    BY <2>1, ShownBegins
<1> QED
  BY <1>1, WalkInvariance, PTL
-----------------------------------------------------------------------------
\* The offset of a page that is accepted fits the integers of the database.
LEMMA OffsetFits ==
    ASSUME NEW p \in Nat \ {0}, NEW n \in Nat \ {0}, PageAccepted(p, n)
    PROVE  /\ Offset(p, n) \in Nat
           /\ AsInt32(Offset(p, n)) = Offset(p, n)
<1> DEFINE quotient == MaxInt32 \div n
           offset == (p - 1) * n
           width == 2 * (MaxInt32 + 1)
<1>1. MaxInt32 \in Nat /\ p - 1 \in Nat /\ p - 1 <= quotient
  BY ListPagesAssumption DEF PageAccepted
<1>2. quotient \in Nat /\ quotient * n <= MaxInt32
  BY <1>1
<1>3. offset \in Nat /\ offset <= MaxInt32
  <2> HIDE DEF quotient
  <2>1. (p - 1) * n \in Nat /\ quotient * n \in Nat /\ (p - 1) * n <= quotient * n
    BY <1>1, <1>2, PagePositions
  <2> QED
    BY <1>1, <1>2, <2>1
<1>4. (offset + MaxInt32 + 1) % width = offset + MaxInt32 + 1
  <2> HIDE DEF offset
  <2>1. /\ offset + MaxInt32 + 1 \in Nat /\ width \in Nat \ {0}
        /\ offset + MaxInt32 + 1 < width
    BY <1>1, <1>3
  <2>2. \A a \in Nat, b \in Nat \ {0} : a < b => a % b = a
    OBVIOUS
  <2> HIDE DEF width
  <2> QED
    BY <2>1, <2>2
<1> HIDE DEF offset
<1>5. AsInt32(offset) = offset
  BY <1>1, <1>3, <1>4 DEF AsInt32
<1> QED
  BY <1>3, <1>5 DEF Offset, offset

\* The place of a row is the number of rows before it.
LEMMA PlacesDiffer ==
    ASSUME NEW S, S \subseteq Nat, IsFiniteSet(S), NEW r \in S, NEW q \in S, r < q
    PROVE  Cardinality(Before(r, S)) < Cardinality(Before(q, S))
<1>1. /\ Before(r, S) \subseteq Before(q, S) /\ r \in Before(q, S) /\ r \notin Before(r, S)
      /\ Before(q, S) \subseteq S
  <2>1. \A x \in S : x < r => x < q
    <3> TAKE x \in S
    <3>1. x \in Nat /\ r \in Nat /\ q \in Nat
      OBVIOUS
    <3> QED
      BY <3>1
  <2>2. ~(r < r)
    <3>1. r \in Nat
      OBVIOUS
    <3> QED
      BY <3>1
  <2> QED
    BY <2>1, <2>2 DEF Before
<1>2. IsFiniteSet(Before(q, S))
  BY <1>1, FS_Subset
<1>3. /\ IsFiniteSet(Before(r, S)) /\ Cardinality(Before(r, S)) <= Cardinality(Before(q, S))
      /\ Cardinality(Before(r, S)) # Cardinality(Before(q, S))
  BY <1>1, <1>2, FS_Subset
<1>4. Cardinality(Before(r, S)) \in Nat /\ Cardinality(Before(q, S)) \in Nat
  BY <1>2, <1>3, FS_CardinalityType
<1> QED
  BY <1>3, <1>4

LEMMA PlaceOfRow ==
    ASSUME NEW S, S \subseteq Nat, IsFiniteSet(S), NEW r \in S
    PROVE  /\ Cardinality(Before(r, S)) \in Nat /\ Cardinality(S) \in Nat
           /\ Cardinality(Before(r, S)) < Cardinality(S)
           /\ Newest(S)[Cardinality(Before(r, S)) + 1] = r
<1>1. Before(r, S) \subseteq S /\ r \notin Before(r, S)
  BY DEF Before
<1>2. /\ IsFiniteSet(Before(r, S)) /\ Cardinality(Before(r, S)) <= Cardinality(S)
      /\ Cardinality(Before(r, S)) # Cardinality(S)
  BY <1>1, FS_Subset
<1>3. /\ Cardinality(Before(r, S)) \in Nat /\ Cardinality(S) \in Nat
      /\ Cardinality(Before(r, S)) < Cardinality(S)
  BY <1>2, FS_CardinalityType
<1> DEFINE place == Cardinality(Before(r, S))
           row == CHOOSE q \in S : Cardinality(Before(q, S)) = (place + 1) - 1
<1>4. (place + 1) - 1 = place /\ place + 1 \in 1 .. Cardinality(S)
  BY <1>3
<1>5. row \in S /\ Cardinality(Before(row, S)) = place
  <2>1. \E q \in S : Cardinality(Before(q, S)) = (place + 1) - 1
    BY <1>4
  <2> QED
    BY <1>4, <2>1
<1>6. row = r
  <2> HIDE DEF row
  <2>1. ~(row < r) /\ ~(r < row)
    <3>1. place \in Nat /\ ~(place < place)
      BY <1>3
    <3>2. row < r => Cardinality(Before(row, S)) < Cardinality(Before(r, S))
      BY <1>5, PlacesDiffer
    <3>3. r < row => Cardinality(Before(r, S)) < Cardinality(Before(row, S))
      BY <1>5, PlacesDiffer
    <3> QED
      BY <1>5, <3>1, <3>2, <3>3
  <2>2. row \in Nat /\ r \in Nat
    BY <1>5
  <2> QED
    BY <2>1, <2>2
<1>7. Newest(S)[place + 1] = row
  BY <1>4 DEF Newest
<1> QED
  BY <1>3, <1>6, <1>7

\* More rows do not bring a row forward.
LEMMA PlacesGrow ==
    ASSUME NEW S, NEW T, S \subseteq T, IsFiniteSet(T), NEW r
    PROVE  /\ Cardinality(Before(r, S)) \in Nat /\ Cardinality(Before(r, T)) \in Nat
           /\ Cardinality(Before(r, S)) <= Cardinality(Before(r, T))
<1>1. Before(r, S) \subseteq Before(r, T) /\ Before(r, T) \subseteq T
  BY DEF Before
<1> QED
  BY <1>1, FS_Subset, FS_CardinalityType

\* A page of the rows.
LEMMA PageOfRows ==
    ASSUME NEW S, S \subseteq Nat, IsFiniteSet(S), NEW offset \in Nat, NEW n \in Nat \ {0}
    PROVE  /\ LET rest == Cardinality(S) - offset
              IN Len(Slice(Newest(S), offset, n))
                     = IF rest < 0 THEN 0 ELSE IF rest > n THEN n ELSE rest
           /\ \A r \in S :
                  /\ Cardinality(Before(r, S)) >= offset
                  /\ Cardinality(Before(r, S)) < offset + n
                  => r \in Range(Slice(Newest(S), offset, n))
<1> DEFINE count == Cardinality(S)
           top == IF offset + n < count THEN offset + n ELSE count
           page0 == SubSeq(Newest(S), offset + 1, top)
<1>1. count \in Nat
  BY FS_CardinalityType
<1>2. Len(Newest(S)) = count
  BY <1>1 DEF Newest
<1>3. Slice(Newest(S), offset, n) = page0
  BY <1>2 DEF Slice
<1>4. top \in Nat /\ top <= count /\ top <= offset + n
  BY <1>1
<1>5. /\ Len(page0) = IF offset + 1 <= top THEN top - (offset + 1) + 1 ELSE 0
      /\ \A i \in 1 .. top - (offset + 1) + 1 : page0[i] = Newest(S)[(offset + 1) + i - 1]
      /\ DOMAIN page0 = 1 .. Len(page0)
  <2> DEFINE values == {Newest(S)[i] : i \in offset + 1 .. top}
  <2> HIDE DEF top
  <2>1. \A i \in offset + 1 .. top : Newest(S)[i] \in values
    OBVIOUS
  <2>2. offset + 1 \in Int /\ top \in Int
    BY <1>4
  <2> HIDE DEF values
  <2>3. page0 \in Seq(values)
    BY <2>1, <2>2, SubSeqProperties
  <2> QED
    BY <2>1, <2>2, <2>3, SubSeqProperties
<1>6. LET rest == Cardinality(S) - offset
      IN Len(page0) = IF rest < 0 THEN 0 ELSE IF rest > n THEN n ELSE rest
  BY <1>1, <1>5
<1>7. ASSUME NEW r \in S, Cardinality(Before(r, S)) >= offset,
             Cardinality(Before(r, S)) < offset + n
      PROVE  r \in Range(page0)
  <2> DEFINE place == Cardinality(Before(r, S))
  <2>1. place \in Nat /\ place < count /\ Newest(S)[place + 1] = r
    BY PlaceOfRow
  <2>2. place + 1 <= top
    BY <1>1, <1>7, <2>1
  <2> DEFINE i == place + 1 - offset
  <2> HIDE DEF top, place
  <2>3. i \in 1 .. top - (offset + 1) + 1 /\ (offset + 1) + i - 1 = place + 1
    BY <1>4, <1>7, <2>1, <2>2 DEF place
  <2>4. page0[i] = r
    BY <1>5, <2>1, <2>3
  <2>5. i \in DOMAIN page0
    BY <1>4, <1>5, <2>3
  <2> QED
    BY <2>4, <2>5 DEF Range
<1> QED
  BY <1>3, <1>6, <1>7
\* Finite sets of rows, wherever they are.
LEMMA RowsFinite ==
    ASSUME NEW S, S \subseteq ListRows
    PROVE  S \subseteq Nat /\ IsFiniteSet(S) /\ Cardinality(S) \in Nat
  BY ListPagesAssumption, FS_Subset, FS_CardinalityType

\* A row that is behind the pages read stays there in a larger set of rows.
LEMMA AheadGrows ==
    ASSUME NEW S, NEW T, S \subseteq T, T \subseteq ListRows, Ahead(S),
           Offset(number, size) \in Nat
    PROVE  Ahead(T)
<1> SUFFICES ASSUME NEW r \in began \ seen
             PROVE  r \in T /\ Cardinality(Before(r, T)) >= Offset(number, size)
  BY DEF Ahead
<1>1. r \in S /\ Cardinality(Before(r, S)) >= Offset(number, size)
  BY DEF Ahead
<1>2. /\ Cardinality(Before(r, S)) \in Nat /\ Cardinality(Before(r, T)) \in Nat
      /\ Cardinality(Before(r, S)) <= Cardinality(Before(r, T))
  BY RowsFinite, PlacesGrow
<1> QED
  BY <1>1, <1>2

LEMMA OffsetTyped ==
    ASSUME ListInv
    PROVE  /\ size \in Nat \ {0} /\ number \in Nat \ {0} /\ Offset(number, size) \in Nat
           /\ Offset(number + 1, size) = Offset(number, size) + size
           /\ Offset(number + 1, size) = number * size
<1>1. size \in Nat \ {0} /\ number \in Nat \ {0}
  BY ListPagesAssumption DEF ListInv
<1>2. number - 1 \in Nat /\ (number - 1) + 1 = number /\ (number + 1) - 1 = number
      /\ number - 1 <= number - 1 /\ size \in Nat
  BY <1>1
<1>3. (number - 1) * size \in Nat /\ ((number - 1) + 1) * size = (number - 1) * size + size
  BY <1>2, PagePositions
<1>4. number * size = (number - 1) * size + size
  BY <1>2, <1>3
<1>5. ((number + 1) - 1) * size = number * size
  BY <1>2
<1> QED
  BY <1>1, <1>3, <1>4, <1>5 DEF Offset

LEMMA ListStarts == ListInit => ListInv
<1> SUFFICES ASSUME ListInit PROVE ListInv
  OBVIOUS
<1>1. rows \subseteq ListRows /\ snapshot = {} /\ size \in ListSizes /\ number \in Nat \ {0}
      /\ lplace = "ask" /\ parent = TRUE
  BY ListPagesAssumption DEF ListInit
<1>2. Ahead(rows)
  <2>1. CASE number = 1
    <3>1. Offset(number, size) = 0
      <4>1. size \in Nat
        BY <1>1, ListPagesAssumption
      <4> QED
        BY <2>1, <4>1 DEF Offset
    <3>2. \A r \in began : r \in rows
      BY <2>1 DEF ListInit
    <3>3. \A r : Cardinality(Before(r, rows)) \in Nat
      BY <1>1, RowsFinite, PlacesGrow
    <3> QED
      BY <3>1, <3>2, <3>3 DEF Ahead
  <2>2. CASE number # 1
    BY <2>2 DEF ListInit, Ahead
  <2> QED
    BY <2>1, <2>2
<1> QED
  BY <1>1, <1>2 DEF ListInv, ReadToTheEnd

\* The page that is read is the one that was asked for.
LEMMA ReadRowsKeeps == ListInv /\ ReadRows => ListInv'
<1> SUFFICES ASSUME ListInv, ReadRows PROVE ListInv'
  OBVIOUS
<1>1. UNCHANGED <<list, parent, rows, used, size, number, snapshot, total, began, left, seen>>
  BY DEF ReadRows
<1>2. lplace = "list" /\ PageAccepted(number, size)
  BY DEF ReadRows, ListInv
<1>3. AsInt32(Offset(number, size)) = Offset(number, size) /\ Offset(number, size) \in Nat
  BY <1>2, OffsetTyped, OffsetFits
<1>4. lplace' = "answered" /\ items' = Slice(Newest(snapshot), Offset(number, size), size)
  BY <1>3 DEF ReadRows
<1>5. \A set : Ahead(set)' = \A r \in began \ seen :
                                 r \in set' /\ Cardinality(Before(r, set')) >= Offset(number, size)
  BY <1>1 DEF Ahead, Offset, Before
<1> QED
  BY <1>1, <1>2, <1>4 DEF ListInv, ReadToTheEnd, Ahead, Offset, PageAccepted, Before

\* What was read is on the page, what was not is behind it.
LEMMA TakePageKeeps == ListInv /\ TakePage => ListInv'
<1> SUFFICES ASSUME ListInv, TakePage PROVE ListInv'
  OBVIOUS
<1>1. /\ UNCHANGED <<list, parent, rows, used, size, snapshot, total, began, left>>
      /\ seen' = seen \cup Range(items) /\ lplace = "answered"
  BY DEF TakePage
<1>2. /\ rows \subseteq ListRows /\ snapshot \subseteq ListRows
      /\ size \in ListSizes /\ number \in Nat \ {0}
      /\ total = Cardinality(snapshot)
      /\ items = Slice(Newest(snapshot), Offset(number, size), size)
      /\ ~left => parent /\ snapshot \subseteq rows /\ Ahead(snapshot)
  BY <1>1 DEF ListInv
<1> DEFINE place(r) == Cardinality(Before(r, snapshot))
<1>3. ASSUME ~left, NEW r \in began \ seen'
      PROVE  /\ r \in snapshot /\ place(r) \in Nat /\ place(r) >= number * size
             /\ place(r) < total
  <2>1. r \in snapshot /\ place(r) >= Offset(number, size)
    BY <1>1, <1>2, <1>3 DEF Ahead
  <2>2. snapshot \subseteq Nat /\ IsFiniteSet(snapshot)
    BY <1>2, RowsFinite
  <2>3. place(r) \in Nat /\ place(r) < total /\ total \in Nat
    BY <1>2, <2>1, <2>2, PlaceOfRow
  <2>4. r \notin Range(items)
    BY <1>1, <1>3
  <2>5. ~(place(r) < Offset(number, size) + size)
    BY <1>2, <2>1, <2>2, <2>4, OffsetTyped, PageOfRows
  <2>6. number * size = Offset(number, size) + size /\ Offset(number, size) \in Nat
        /\ size \in Nat
    BY OffsetTyped
  <2> QED
    BY <2>1, <2>3, <2>5, <2>6
<1>4. CASE number * size < total /\ number' = number + 1 /\ lplace' = "ask"
  <2>1. Offset(number', size) = number * size /\ number * size \in Nat /\ number' \in Nat \ {0}
    <3>1. Offset(number + 1, size) = number * size /\ number \in Nat /\ size \in Nat
      BY OffsetTyped
    <3> QED
      BY <1>4, <3>1
  <2>2. ASSUME ~left, NEW r \in began \ seen'
        PROVE  r \in rows /\ Cardinality(Before(r, rows)) >= Offset(number', size)
    <3>1. r \in snapshot /\ place(r) \in Nat /\ place(r) >= number * size
      BY <1>3, <2>2
    <3>2. Cardinality(Before(r, rows)) \in Nat /\ place(r) <= Cardinality(Before(r, rows))
      BY <1>2, <2>2, RowsFinite, PlacesGrow
    <3> QED
      BY <1>2, <2>1, <2>2, <3>1, <3>2
  <2>3. ~left' => Ahead(rows)'
    BY <1>1, <2>2 DEF Ahead, Offset, Before
  <2> QED
    BY <1>1, <1>2, <1>4, <2>1, <2>3 DEF ListInv, ReadToTheEnd
<1>5. CASE ~(number * size < total) /\ number' = number /\ lplace' = "finished"
  <2>1. number * size \in Nat /\ total \in Nat
    <3>1. number \in Nat /\ size \in Nat
      BY OffsetTyped
    <3> QED
      BY <1>2, <3>1, RowsFinite
  <2>2. ~left => began \subseteq seen'
    <3> SUFFICES ASSUME ~left, NEW r \in began \ seen' PROVE FALSE
      OBVIOUS
    <3>1. place(r) \in Nat /\ place(r) >= number * size /\ place(r) < total
      BY <1>3
    <3> QED
      BY <1>5, <2>1, <3>1
  <2> QED
    BY <1>1, <1>2, <1>5, <2>2 DEF ListInv, ReadToTheEnd
<1> QED
  BY <1>4, <1>5 DEF TakePage

\* The steps of the read that do not answer.
LEMMA AskingKeeps == ListInv /\ (AskList \/ ReadCount \/ ReadFails) => ListInv'
<1> SUFFICES ASSUME ListInv, AskList \/ ReadCount \/ ReadFails PROVE ListInv'
  OBVIOUS
<1>1. /\ UNCHANGED <<list, parent, rows, used, size, number, items, began, left, seen>>
      /\ lplace # "finished" /\ lplace' \notin {"answered", "finished"}
  BY DEF AskList, ReadCount, ReadFails
<1>2. (rows \subseteq ListRows /\ size \in ListSizes /\ number \in Nat \ {0})'
  BY <1>1 DEF ListInv
<1>3. ~left' => parent' /\ Ahead(rows)'
  BY <1>1 DEF ListInv, Ahead, Offset, Before
<1>4. CASE AskList
  BY <1>1, <1>2, <1>3, <1>4 DEF AskList, ListInv, ReadToTheEnd, PageAccepted
<1>5. CASE ReadCount
  <2>1. snapshot' \subseteq rows /\ (~left => snapshot' = rows) /\ lplace' = "list"
        /\ total' = Cardinality(snapshot') /\ PageAccepted(number, size)
    BY <1>5 DEF ReadCount, Matching, ListInv
  <2> QED
    BY <1>1, <1>2, <1>3, <2>1 DEF ListInv, ReadToTheEnd, PageAccepted, Ahead, Offset, Before
<1>6. CASE ReadFails
  BY <1>1, <1>2, <1>3, <1>6 DEF ReadFails, ListInv, ReadToTheEnd
<1> QED
  BY <1>4, <1>5, <1>6

\* A row that enters brings no row forward, and the snapshot does not see it.
LEMMA EnteringKeeps == ListInv /\ (\E r \in ListRows : RowEnters(r)) => ListInv'
<1> SUFFICES ASSUME ListInv, NEW q \in ListRows, RowEnters(q) PROVE ListInv'
  OBVIOUS
<1>1. /\ rows' = rows \cup {q} /\ lplace # "finished"
      /\ UNCHANGED <<list, parent, size, number, lplace, snapshot, total, items, began, left, seen>>
  BY DEF RowEnters
<1>2. rows \subseteq rows' /\ rows' \subseteq ListRows
  BY <1>1 DEF ListInv
<1>3. ~left => Ahead(rows)
  BY <1>1 DEF ListInv
<1>4. ASSUME ~left PROVE Ahead(rows)'
  <2>1. \A r \in began \ seen :
            r \in rows' /\ Cardinality(Before(r, rows')) >= Offset(number, size)
    <3> TAKE r \in began \ seen
    <3>1. r \in rows /\ Cardinality(Before(r, rows)) >= Offset(number, size)
      BY <1>3, <1>4 DEF Ahead
    <3>2. /\ Cardinality(Before(r, rows)) \in Nat /\ Cardinality(Before(r, rows')) \in Nat
          /\ Cardinality(Before(r, rows)) <= Cardinality(Before(r, rows'))
      BY <1>2, RowsFinite, PlacesGrow
    <3>3. Offset(number, size) \in Nat
      BY OffsetTyped
    <3> QED
      BY <1>2, <3>1, <3>2, <3>3
  <2> QED
    BY <1>1, <2>1 DEF Ahead, Offset, Before
<1>5. ~left /\ lplace \in {"list", "answered"} => snapshot \subseteq rows' /\ Ahead(snapshot)'
  BY <1>1, <1>2 DEF ListInv, Ahead, Offset, Before
<1> QED
  BY <1>1, <1>2, <1>4, <1>5 DEF ListInv, ReadToTheEnd, PageAccepted, Before, Offset

\* When a row leaves, or the model with all of them, nothing is promised any more.
LEMMA LeavingKeeps ==
    ListInv /\ ((\E r \in ListRows : RowLeaves(r)) \/ ParentDeleted) => ListInv'
<1> SUFFICES ASSUME ListInv, (\E r \in ListRows : RowLeaves(r)) \/ ParentDeleted PROVE ListInv'
  OBVIOUS
<1>1. /\ rows' \subseteq rows /\ left' = TRUE
      /\ UNCHANGED <<size, number, lplace, snapshot, total, items>>
  BY DEF RowLeaves, ParentDeleted
<1> QED
  BY <1>1 DEF ListInv, ReadToTheEnd, PageAccepted, Before, Offset

THEOREM ListInvariance == ListSpec => []ListInv
<1>1. ListInv /\ UNCHANGED lvars => ListInv'
  BY DEF lvars, ListInv, ReadToTheEnd, PageAccepted, Ahead, Before, Offset
<1>2. ListInv /\ [ListNext]_lvars => ListInv'
  BY <1>1, ReadRowsKeeps, TakePageKeeps, AskingKeeps, EnteringKeeps, LeavingKeeps
     DEF ListNext, Reading
<1> QED
  BY <1>2, ListStarts, PTL DEF ListSpec

\* The total and the rows of every answer agree, for all rows, page sizes and
\* numbers, whatever comes and goes meanwhile (model_store.go:99-132).
THEOREM PagesFitTotal == ListSpec => []PageFitsTotal
<1>1. ListInv => PageFitsTotal
  <2> SUFFICES ASSUME ListInv, lplace = "answered"
               PROVE  LET rest == total - Offset(number, size)
                      IN Len(items) = IF rest < 0 THEN 0 ELSE IF rest > size THEN size ELSE rest
    BY DEF PageFitsTotal
  <2>1. /\ total = Cardinality(snapshot) /\ snapshot \subseteq ListRows
        /\ items = Slice(Newest(snapshot), Offset(number, size), size)
    BY DEF ListInv
  <2>2. snapshot \subseteq Nat /\ IsFiniteSet(snapshot)
    BY <2>1, RowsFinite
  <2>3. Offset(number, size) \in Nat /\ size \in Nat \ {0}
    BY OffsetTyped
  <2> QED
    BY <2>1, <2>2, <2>3, PageOfRows
<1> QED
  BY <1>1, ListInvariance, PTL

\* Whoever reads from the first page to the end has seen every row of the beginning
\* that stayed, wherever others were inserted (queries/model.sql:80,221,439).
THEOREM ReadsToTheEnd == ListSpec => []ReadToTheEnd
<1>1. ListInv => ReadToTheEnd
  BY DEF ListInv
<1> QED
  BY <1>1, ListInvariance, PTL
-----------------------------------------------------------------------------
\* Induction, for a set in place of a predicate.
LEMMA Induction ==
    ASSUME NEW S, 0 \in S, \A k \in Nat : k \in S => k + 1 \in S
    PROVE  Nat \subseteq S
<1> SUFFICES ASSUME Nat \ S # {} PROVE FALSE
  OBVIOUS
<1> DEFINE missing == Nat \ S
<1>1. PICK x \in missing : \A y \in missing : ~(<<y, x>> \in OpToRel(<, Nat))
  BY NatLessThanWellFounded, WFMin
<1>2. x \in Nat /\ x # 0 /\ x - 1 \in Nat /\ (x - 1) + 1 = x /\ x - 1 < x
  OBVIOUS
<1>3. x - 1 \in missing
  BY <1>2
<1>4. <<x - 1, x>> \in OpToRel(<, Nat)
  BY <1>2 DEF OpToRel
<1> QED
  BY <1>1, <1>3, <1>4

\* A function that is defined by recursion on its argument exists: step[k] leads
\* from its value at k - 1 to the one at k.
Steps(n, S) == [1 .. n -> [S -> S]]
Recurrence(n, S, base, step, g) ==
    /\ g \in [0 .. n -> S] /\ g[0] = base
    /\ \A k \in 1 .. n : g[k] = step[k][g[k - 1]]

LEMMA Recursion ==
    ASSUME NEW n \in Nat, NEW S, NEW base \in S, NEW step \in Steps(n, S)
    PROVE  \E g : Recurrence(n, S, base, step, g)
<1> USE DEF Steps
<1> DEFINE Fits(m, g) == /\ g \in [0 .. m -> S] /\ g[0] = base
                         /\ \A k \in 1 .. m : g[k] = step[k][g[k - 1]]
           done == {m \in Nat : m > n \/ \E g : Fits(m, g)}
<1>1. 0 \in done
  <2>1. Fits(0, [k \in 0 .. 0 |-> base])
    OBVIOUS
  <2> QED
    BY <2>1
<1>2. ASSUME NEW m \in Nat, m \in done PROVE m + 1 \in done
  <2> SUFFICES ASSUME m + 1 <= n PROVE \E g : Fits(m + 1, g)
    OBVIOUS
  <2>1. PICK g : Fits(m, g)
    BY <1>2
  <2> DEFINE h == [k \in 0 .. m + 1 |-> IF k = m + 1 THEN step[m + 1][g[m]] ELSE g[k]]
  <2>2. m + 1 \in 1 .. n /\ step[m + 1] \in [S -> S] /\ g[m] \in S
    BY <2>1
  <2>3. h \in [0 .. m + 1 -> S]
    BY <2>1, <2>2
  <2>4. h[0] = base
    BY <2>1
  <2>5. ASSUME NEW k \in 1 .. m + 1 PROVE h[k] = step[k][h[k - 1]]
    <3>1. k - 1 \in 0 .. m /\ h[k - 1] = g[k - 1]
      OBVIOUS
    <3>2. CASE k = m + 1
      BY <3>1, <3>2
    <3>3. CASE k # m + 1
      BY <2>1, <3>1, <3>3
    <3> QED
      BY <3>2, <3>3
  <2> QED
    BY <2>3, <2>4, <2>5
<1>3. n \in done
  BY <1>1, <1>2, Induction
<1>4. PICK g : Fits(n, g)
  BY <1>3
<1> QED
  BY <1>4 DEF Recurrence

LEMMA SumsAdd ==
    ASSUME NEW s \in Seq(Int)
    PROVE  /\ PartialSums(s)[0] = 0
           /\ \A k \in 1 .. Len(s) : PartialSums(s)[k] = PartialSums(s)[k - 1] + s[k]
           /\ \A k \in 0 .. Len(s) : PartialSums(s)[k] \in Int
<1> DEFINE n == Len(s)
           adds == [k \in 1 .. n |-> [t \in Int |-> t + s[k]]]
           sums == PartialSums(s)
<1>1. n \in Nat /\ 0 \in Int /\ \A k \in 1 .. n : s[k] \in Int
  OBVIOUS
<1>2. adds \in [1 .. n -> [Int -> Int]]
  BY <1>1
<1>3. PICK g : Recurrence(n, Int, 0, adds, g)
  <2>1. adds \in Steps(n, Int)
    BY <1>2 DEF Steps
  <2> HIDE DEF adds, n
  <2> QED
    BY <1>1, <2>1, Recursion
<1> g \in [0 .. n -> Int] /\ g[0] = 0 /\ \A k \in 1 .. n : g[k] = adds[k][g[k - 1]]
  BY <1>3 DEF Recurrence
<1>4. g = [k \in 0 .. n |-> IF k = 0 THEN 0 ELSE g[k - 1] + s[k]]
  <2>1. ASSUME NEW k \in 1 .. n PROVE g[k] = g[k - 1] + s[k]
    <3>0. k - 1 \in 0 .. n
      BY <1>1
    <3>1. g[k - 1] \in Int
      BY <3>0
    <3>2. adds[k] = [t \in Int |-> t + s[k]]
      OBVIOUS
    <3>3. adds[k][g[k - 1]] = g[k - 1] + s[k]
      BY <3>1, <3>2
    <3> QED
      BY <1>3, <3>3
  <2> QED
    BY <1>1, <1>3, <2>1
<1>5. sums = [k \in 0 .. n |-> IF k = 0 THEN 0 ELSE sums[k - 1] + s[k]]
  BY <1>4 DEF PartialSums
<1> HIDE DEF sums
<1>6. sums[0] = 0 /\ \A k \in 1 .. n : sums[k] = sums[k - 1] + s[k]
  BY <1>1, <1>5
<1>7. ASSUME NEW k \in Nat PROVE k <= n => sums[k] \in Int
  <2> DEFINE typed == {i \in Nat : i <= n => sums[i] \in Int}
  <2>1. 0 \in typed
    BY <1>6
  <2>2. ASSUME NEW i \in Nat, i \in typed PROVE i + 1 \in typed
    <3> SUFFICES ASSUME i + 1 <= n PROVE sums[i + 1] \in Int
      OBVIOUS
    <3>1. i + 1 \in 1 .. n /\ (i + 1) - 1 = i /\ sums[i] \in Int
      BY <1>1, <2>2
    <3> QED
      BY <1>1, <1>6, <3>1
  <2> HIDE DEF typed
  <2>3. k \in typed
    BY <2>1, <2>2, Induction
  <2> QED
    BY <2>3 DEF typed
<1> QED
  BY <1>1, <1>6, <1>7 DEF sums
-----------------------------------------------------------------------------
\* What the provider sends and what the estimate reads of it.
LEMMA SizesTyped ==
    ASSUME manifest \in Manifests, NEW k \in 1 .. Len(manifest)
    PROVE  /\ Len(manifest) \in Nat /\ DOMAIN manifest = 1 .. Len(manifest)
           /\ manifest[k].size # Absent => manifest[k].size \in Int
           /\ SizeRead(manifest[k]) \in Int
           /\ manifest[k].size # Absent => SizeRead(manifest[k]) = manifest[k].size
           /\ manifest[k].size = Absent /\ host = "huggingface" => SizeRead(manifest[k]) < 0
           /\ manifest[k].size = Absent /\ host # "huggingface" => SizeRead(manifest[k]) = 0
<1>1. manifest \in Seq(Entry) /\ MaxInt \in Nat
  BY VolumeEstimateAssumption
<1>2. Len(manifest) \in Nat /\ DOMAIN manifest = 1 .. Len(manifest) /\ manifest[k] \in Entry
  BY <1>1
<1>3. manifest[k].size \in (-(MaxInt + 1) .. MaxInt) \cup {Absent}
  BY <1>2 DEF Entry
<1>4. manifest[k].size # Absent => manifest[k].size \in Int
  BY <1>1, <1>3
<1> QED
  BY <1>2, <1>4 DEF SizeRead

\* The estimate goes from entry to entry.
LEMMA EstimatedSteps ==
    ASSUME manifest \in Manifests
    PROVE  /\ Estimated[0] = 0
           /\ \A k \in 1 .. Len(manifest) :
                  Estimated[k] = IF Counts(manifest[k])
                                 THEN AddFile(Estimated[k - 1], manifest[k])
                                 ELSE Estimated[k - 1]
<1> DEFINE n == Len(manifest)
           adds == [k \in 1 .. n |->
                       [t \in Int |-> IF Counts(manifest[k]) THEN AddFile(t, manifest[k]) ELSE t]]
<1>1. n \in Nat /\ 0 \in Int
  BY VolumeEstimateAssumption
<1>2. \A k \in 1 .. n : \A t \in Int : AddFile(t, manifest[k]) \in Int
  <2> TAKE k \in 1 .. n
  <2> TAKE t \in Int
  <2>1. SizeRead(manifest[k]) \in Int
    BY SizesTyped
  <2> QED
    BY <2>1 DEF AddFile
<1>3. PICK g : Recurrence(n, Int, 0, adds, g)
  <2>1. adds \in Steps(n, Int)
    BY <1>2 DEF Steps
  <2> HIDE DEF adds, n
  <2> QED
    BY <1>1, <2>1, Recursion
<1>4. g \in [0 .. n -> Int] /\ g[0] = 0 /\ \A k \in 1 .. n : g[k] = adds[k][g[k - 1]]
  BY <1>3 DEF Recurrence
<1>5. \A k \in 1 .. n : g[k] = IF Counts(manifest[k]) THEN AddFile(g[k - 1], manifest[k]) ELSE g[k - 1]
  <2> TAKE k \in 1 .. n
  <2>1. k - 1 \in 0 .. n
    BY <1>1
  <2>2. g[k - 1] \in Int
    BY <1>4, <2>1
  <2> QED
    BY <1>4, <2>2
<1>6. g = [k \in 0 .. n |-> IF k = 0 THEN 0
                            ELSE IF Counts(manifest[k]) THEN AddFile(g[k - 1], manifest[k])
                            ELSE g[k - 1]]
  BY <1>1, <1>4, <1>5
<1> DEFINE est == Estimated
<1>7. est = [k \in 0 .. n |-> IF k = 0 THEN 0
                              ELSE IF Counts(manifest[k]) THEN AddFile(est[k - 1], manifest[k])
                              ELSE est[k - 1]]
  BY <1>6 DEF Estimated
<1> HIDE DEF est
<1>8. est[0] = 0 /\ \A k \in 1 .. n : est[k] = IF Counts(manifest[k])
                                               THEN AddFile(est[k - 1], manifest[k])
                                               ELSE est[k - 1]
  BY <1>1, <1>7
<1> QED
  BY <1>8 DEF est

\* A sum that is not given up is the true one, of sizes that are known and small
\* enough; and it is given up only for a reason.
LEMMA EstimateExact ==
    ASSUME manifest \in Manifests, host \in {"huggingface", "modelscope"}
    PROVE  /\ Total \in -1 .. MaxInt /\ TrueTotal \in Int
           /\ Total >= 0 => Total = TrueTotal /\ (host = "huggingface" => ~Unknown)
           /\ /\ ~Unknown /\ TrueTotal <= MaxInt
              /\ \A i \in Sizes : manifest[i].size \in 0 .. MaxInt - MinHeadroom
              => Total = TrueTotal
<1> DEFINE n == Len(manifest)
           true == PartialSums(KnownSizes)
           est == Estimated
           fine == ~Unknown /\ \A i \in Sizes : manifest[i].size \in 0 .. MaxInt - MinHeadroom
           Faithful(k) ==
               /\ est[k] \in -1 .. MaxInt
               /\ est[k] >= 0 =>
                     /\ est[k] = true[k]
                     /\ host = "huggingface" =>
                           \A i \in 1 .. k : Counts(manifest[i]) => manifest[i].size # Absent
               /\ fine => true[k] >= 0
               /\ fine /\ true[k] <= MaxInt => est[k] = true[k]
<1>1. /\ n \in Nat /\ DOMAIN manifest = 1 .. n
      /\ MaxInt \in Nat /\ MinHeadroom \in Nat /\ MinHeadroom <= MaxInt
  BY VolumeEstimateAssumption
<1>2. /\ est[0] = 0
      /\ \A k \in 1 .. n : est[k] = IF Counts(manifest[k]) THEN AddFile(est[k - 1], manifest[k])
                                    ELSE est[k - 1]
  BY EstimatedSteps
<1>3. /\ KnownSizes \in Seq(Int) /\ Len(KnownSizes) = n
      /\ \A k \in 1 .. n : KnownSizes[k] = IF k \in Sizes THEN manifest[k].size ELSE 0
  <2>1. \A k \in 1 .. n : k \in Sizes => manifest[k].size \in Int
    BY SizesTyped DEF Sizes
  <2>2. KnownSizes = [k \in 1 .. n |-> IF k \in Sizes THEN manifest[k].size ELSE 0]
    BY <1>1 DEF KnownSizes
  <2>3. KnownSizes \in [1 .. n -> Int]
    BY <2>1, <2>2
  <2> QED
    BY <1>1, <2>2, <2>3
<1>4. /\ true[0] = 0 /\ \A k \in 1 .. n : true[k] = true[k - 1] + KnownSizes[k]
      /\ \A k \in 0 .. n : true[k] \in Int
  BY <1>3, SumsAdd
<1>5. \A k \in 1 .. n : k \in Sizes <=> Counts(manifest[k]) /\ manifest[k].size # Absent
  BY <1>1 DEF Sizes
<1> HIDE DEF n, true, est
<1>6. Faithful(0)
  BY <1>1, <1>2, <1>4
<1>7. ASSUME NEW j \in Nat, j + 1 <= n, Faithful(j) PROVE Faithful(j + 1)
  <2> DEFINE k == j + 1
             e == manifest[k]
  <2>1. k \in 1 .. n /\ k - 1 = j /\ j \in 0 .. n /\ k \in 0 .. n
    BY <1>1, <1>7
  <2>2. /\ SizeRead(e) \in Int
        /\ e.size # Absent => SizeRead(e) = e.size /\ e.size \in Int
        /\ e.size = Absent => IF host = "huggingface" THEN SizeRead(e) < 0 ELSE SizeRead(e) = 0
    BY <2>1, SizesTyped DEF n
  <2>3. true[k] = true[j] + KnownSizes[k] /\ true[j] \in Int /\ true[k] \in Int
    BY <1>4, <2>1
  <2>4. est[k] = IF Counts(e) THEN AddFile(est[j], e) ELSE est[j]
    BY <1>2, <2>1
  <2>5. CASE ~Counts(e)
    <3>1. KnownSizes[k] = 0
      BY <1>3, <1>5, <2>1, <2>5
    <3>2. true[k] = true[j] /\ est[k] = est[j]
      BY <2>3, <2>4, <2>5, <3>1
    <3>3. \A i \in 1 .. k : i \in 1 .. j \/ i = k
      BY <2>1
    <3> QED
      BY <1>7, <2>5, <3>2, <3>3
  <2>6. CASE Counts(e)
    <3>1. est[k] = AddFile(est[j], e) /\ est[j] \in -1 .. MaxInt
      BY <1>7, <2>4, <2>6
    <3>2. KnownSizes[k] = IF e.size # Absent THEN e.size ELSE 0
      BY <1>3, <1>5, <2>1, <2>6
    <3>3. est[k] \in -1 .. MaxInt
      BY <1>1, <2>2, <3>1 DEF AddFile
    <3>4. ASSUME est[k] >= 0
          PROVE  /\ est[k] = true[k]
                 /\ host = "huggingface" =>
                       \A i \in 1 .. k : Counts(manifest[i]) => manifest[i].size # Absent
      <4>1. est[j] >= 0 /\ SizeRead(e) >= 0 /\ est[k] = est[j] + SizeRead(e)
        BY <1>1, <2>2, <3>1, <3>4 DEF AddFile
      <4>2. est[j] = true[j]
        BY <1>7, <4>1
      <4>3. SizeRead(e) = KnownSizes[k]
        BY <2>2, <3>2, <4>1
      <4>4. host = "huggingface" => e.size # Absent
        BY <2>2, <4>1
      <4>5. \A i \in 1 .. k : i \in 1 .. j \/ i = k
        BY <2>1
      <4> QED
        BY <1>7, <2>3, <4>1, <4>2, <4>3, <4>4, <4>5
    <3>6. ASSUME fine PROVE true[k] >= 0
      <4>1. e.size # Absent
        BY <1>1, <2>1, <2>6, <3>6 DEF Unknown
      <4>2. e.size \in 0 .. MaxInt - MinHeadroom
        BY <1>5, <2>1, <2>6, <3>6, <4>1
      <4> QED
        BY <1>1, <1>7, <2>3, <3>2, <3>6, <4>1, <4>2
    <3>5. ASSUME fine, true[k] <= MaxInt PROVE est[k] = true[k]
      <4>1. e.size # Absent
        BY <1>1, <2>1, <2>6, <3>5 DEF Unknown
      <4>2. e.size \in 0 .. MaxInt - MinHeadroom
        BY <1>5, <2>1, <2>6, <3>5, <4>1
      <4>3. SizeRead(e) = e.size /\ KnownSizes[k] = e.size /\ true[k] = true[j] + e.size
        BY <2>2, <2>3, <3>2, <4>1
      <4>4. true[j] <= MaxInt
        BY <1>1, <2>3, <3>5, <4>2, <4>3
      <4>5. est[j] = true[j]
        BY <1>7, <3>5, <4>4
      <4>6. est[j] <= MaxInt - e.size
        BY <1>1, <2>3, <3>5, <4>2, <4>3, <4>5
      <4>7. est[j] >= 0
        <5>1. true[j] >= 0
          BY <1>7, <3>5
        <5> QED
          BY <4>5, <5>1
      <4> QED
        BY <1>1, <3>1, <4>2, <4>3, <4>5, <4>6, <4>7 DEF AddFile
    <3> QED
      BY <3>3, <3>4, <3>5, <3>6
  <2> QED
    BY <2>5, <2>6
<1> HIDE DEF Faithful
<1>8. Faithful(n)
  <2> DEFINE good == {k \in Nat : k <= n => Faithful(k)}
  <2>1. 0 \in good
    BY <1>6
  <2>2. ASSUME NEW k \in Nat, k \in good PROVE k + 1 \in good
    BY <1>1, <1>7, <2>2
  <2> HIDE DEF good
  <2>3. n \in good
    BY <1>1, <2>1, <2>2, Induction
  <2> QED
    BY <1>1, <2>3 DEF good
<1>9. Total = est[n] /\ TrueTotal = true[n]
  BY <1>3 DEF Total, TrueTotal, SumOf, est, true, n
<1>10. ASSUME ~Unknown, \A i \in Sizes : manifest[i].size \in 0 .. MaxInt - MinHeadroom,
              TrueTotal <= MaxInt
       PROVE  Total = TrueTotal
  BY <1>8, <1>9, <1>10 DEF Faithful
<1>11. ASSUME Total >= 0 PROVE Total = TrueTotal /\ (host = "huggingface" => ~Unknown)
  BY <1>1, <1>8, <1>9, <1>11 DEF Faithful, Unknown
<1> QED
  BY <1>1, <1>4, <1>8, <1>9, <1>10, <1>11 DEF Faithful
\* Rounding up to units, in integers that wrap around.
LEMMA RoundsUp ==
    ASSUME NEW b \in 0 .. MaxInt
    PROVE  /\ InUnits(b) > 0 => InUnits(b) * Unit >= b
           /\ b <= MaxInt - Unit + 1 => InUnits(b) * Unit - b \in 0 .. Unit - 1
<1>1. MaxInt \in Nat /\ Unit \in Nat \ {0} /\ Unit <= MaxInt /\ b \in Nat /\ b <= MaxInt
  BY VolumeEstimateAssumption
<1> DEFINE raised == b + Unit - 1
<1>2. raised \in Nat /\ raised >= b
  BY <1>1
<1>3. CASE raised <= MaxInt
  <2> DEFINE units == raised \div Unit
  <2>1. InUnits(b) = units
    BY <1>1, <1>2, <1>3 DEF InUnits, Divided, Wrap
  <2>2. \A x \in Nat, u \in Nat \ {0} : (x \div u) * u <= x /\ x < (x \div u) * u + u
    OBVIOUS
  <2>3. units \in Int /\ units * Unit <= raised /\ raised < units * Unit + Unit
    <3>1. units \in Int
      BY <1>1, <1>2
    <3> HIDE DEF raised
    <3> QED
      BY <1>1, <1>2, <2>2, <3>1
  <2> DEFINE bytes == units * Unit
  <2>4. bytes \in Int
    BY <1>1, <2>3
  <2> HIDE DEF units, bytes
  <2>5. bytes >= b /\ bytes - b \in 0 .. Unit - 1
    BY <1>1, <2>3, <2>4 DEF bytes
  <2> QED
    BY <2>1, <2>5 DEF bytes
<1>4. CASE raised > MaxInt
  <2>1. Wrap(raised) < 0 /\ Wrap(raised) \in Int
    BY <1>1, <1>2, <1>4 DEF Wrap
  <2> DEFINE negated == -Wrap(raised)
  <2>2. negated \in Nat
    BY <2>1
  <2>3. negated \div Unit \in Nat
    <3> HIDE DEF negated
    <3> QED
      BY <1>1, <2>2
  <2>4. InUnits(b) = -(negated \div Unit)
    BY <2>1 DEF InUnits, Divided
  <2>5. ~(InUnits(b) > 0)
    <3> HIDE DEF negated
    <3> QED
      BY <2>3, <2>4
  <2> QED
    BY <1>1, <1>4, <2>5
<1> QED
  BY <1>1, <1>2, <1>3, <1>4

LEMMA EstimateKept == EstimateInv /\ [EstimateVolume]_evars => EstimateInv'
<1> SUFFICES ASSUME EstimateInv, [EstimateVolume]_evars PROVE EstimateInv'
  OBVIOUS
<1>1. UNCHANGED <<host, manifest, wanted>>
  BY DEF EstimateVolume, evars
<1>2. Total' = Total
  BY <1>1 DEF Total, Estimated, Counts, Listed, AddFile, SizeRead
<1>3. CASE EstimateVolume
  <2>0. host \in {"huggingface", "modelscope"} /\ manifest \in Manifests
    BY DEF EstimateInv
  <2>1. CASE Total <= 0 \/ Total > MaxInt - Headroom(Total)
    <3>1. eplace' = "refused"
      BY <1>3, <2>1 DEF EstimateVolume
    <3> QED
      BY <1>1, <1>2, <2>0, <2>1, <3>1 DEF EstimateInv
  <2>2. CASE ~(Total <= 0 \/ Total > MaxInt - Headroom(Total))
    <3>1. eplace' = "claimed" /\ volume' = InUnits(Total + Headroom(Total))
      BY <1>3, <2>2 DEF EstimateVolume
    <3>2. Total > 0 /\ Total <= MaxInt - Headroom(Total)
      <4>1. MaxInt \in Nat /\ MinHeadroom \in Nat /\ Total \in Int
        BY <2>0, EstimateExact, VolumeEstimateAssumption
      <4>2. Headroom(Total) \in Int
        BY <4>1 DEF Headroom
      <4> QED
        BY <2>2, <4>1, <4>2
    <3> QED
      BY <1>1, <1>2, <2>0, <3>1, <3>2 DEF EstimateInv
  <2> QED
    BY <2>1, <2>2
<1>4. CASE UNCHANGED evars
  BY <1>1, <1>2, <1>4 DEF evars, EstimateInv
<1> QED
  BY <1>3, <1>4

THEOREM EstimateInvariance == EstimateSpec => []EstimateInv
<1>1. EstimateInit => EstimateInv
  BY DEF EstimateInit, EstimateInv
<1> QED
  BY <1>1, EstimateKept, PTL DEF EstimateSpec

\* No overflow makes a volume too small, for integers and units of any size and
\* manifests of any length (kubernetes_executor.go:347-384).
THEOREM VolumesFit == EstimateSpec => []VolumeFits
<1>1. EstimateInv => VolumeFits
  <2> SUFFICES ASSUME EstimateInv PROVE VolumeFits
    OBVIOUS
  <2>0. MaxInt \in Nat /\ MinHeadroom \in Nat /\ Unit \in Nat \ {0}
    BY VolumeEstimateAssumption
  <2>1. /\ Total \in -1 .. MaxInt /\ TrueTotal \in Int
        /\ Total >= 0 => Total = TrueTotal /\ (host = "huggingface" => ~Unknown)
        /\ /\ ~Unknown /\ TrueTotal <= MaxInt
           /\ \A i \in Sizes : manifest[i].size \in 0 .. MaxInt - MinHeadroom
           => Total = TrueTotal
    BY EstimateExact DEF EstimateInv
  <2> DEFINE bytes == Total + Headroom(Total)
  <2>2. Total = TrueTotal => Needed = bytes
    BY DEF Needed, Headroom
  <2>3. Total >= 0 => Headroom(Total) \in Nat
    BY <2>0, <2>1 DEF Headroom
  <2>4. eplace = "claimed" => bytes \in 0 .. MaxInt /\ volume = InUnits(bytes) /\ Total > 0
    BY <2>0, <2>1, <2>3 DEF EstimateInv
  <2>5. ASSUME eplace = "claimed", volume > 0
        PROVE  volume * Unit >= Needed /\ (host = "huggingface" => ~Unknown)
    <3>1. Needed = bytes /\ (host = "huggingface" => ~Unknown)
      BY <2>1, <2>2, <2>4, <2>5
    <3>2. volume * Unit >= bytes
      <4> HIDE DEF bytes
      <4> QED
        BY <2>4, <2>5, RoundsUp
    <3> QED
      BY <3>1, <3>2
  <2>6. ASSUME eplace # "manifest", ~Unknown, TrueTotal > 0,
               \A i \in Sizes : manifest[i].size \in 0 .. MaxInt - MinHeadroom,
               Needed <= MaxInt - Unit + 1
        PROVE  eplace = "claimed" /\ volume * Unit - Needed \in 0 .. Unit - 1
    <3>1. Needed = TrueTotal + Headroom(TrueTotal) /\ Headroom(TrueTotal) \in Nat
      BY <2>0, <2>1, <2>6 DEF Needed, Headroom
    <3>2. TrueTotal <= MaxInt
      BY <2>0, <2>1, <2>6, <3>1
    <3>3. Total = TrueTotal
      BY <2>1, <2>6, <3>2
    <3>4. Needed = bytes /\ Total > 0 /\ Total <= MaxInt - Headroom(Total)
      BY <2>0, <2>1, <2>6, <3>1, <3>3
    <3>5. eplace = "claimed"
      BY <2>0, <2>1, <2>6, <3>1, <3>3, <3>4 DEF EstimateInv
    <3>6. InUnits(bytes) * Unit - bytes \in 0 .. Unit - 1
      <4> HIDE DEF bytes
      <4> QED
        BY <2>4, <2>6, <3>4, <3>5, RoundsUp
    <3> QED
      BY <2>4, <3>4, <3>5, <3>6
  <2> QED
    BY <2>5, <2>6 DEF VolumeFits
<1> QED
  BY <1>1, EstimateInvariance, PTL
-----------------------------------------------------------------------------
\* The members of an archive and their sizes.
LEMMA MembersTyped ==
    ASSUME NEW c \in Contents \cup {NoContent}
    PROVE  /\ c.members \in Seq(Member) /\ Len(c.members) \in Nat
           /\ DOMAIN c.members = 1 .. Len(c.members)
           /\ \A i \in 1 .. Len(c.members) :
                 /\ c.members[i] \in Member /\ c.members[i].size \in Nat
                 /\ c.members[i].kind = "dir" => c.members[i].size = 0
<1>1. CASE c \in Contents
  <2>1. c.members \in Seq(Member)
        /\ \A i \in DOMAIN c.members : c.members[i].kind = "dir" => c.members[i].size = 0
    BY <1>1, FinetuningFactsAssumption
  <2>2. Len(c.members) \in Nat /\ DOMAIN c.members = 1 .. Len(c.members)
        /\ \A i \in 1 .. Len(c.members) : c.members[i] \in Member
    BY <2>1
  <2>3. \A m \in Member : m.size \in Nat
    BY DEF Member
  <2> QED
    BY <2>1, <2>2, <2>3
<1>2. CASE c = NoContent
  <2>1. c.members = <<>>
    BY <1>2 DEF NoContent
  <2> QED
    BY <2>1
<1> QED
  BY <1>1, <1>2

\* The sums of the sizes of files and of the room all members take.
LEMMA FilesSummed ==
    ASSUME NEW c \in Contents \cup {NoContent}
    PROVE  LET members == c.members
               sum == PartialSums(FileSizes(members))
           IN  /\ sum[0] = 0
               /\ \A k \in 1 .. Len(members) :
                      sum[k] = sum[k - 1] + IF members[k].kind = "file" THEN members[k].size ELSE 0
               /\ \A k \in 0 .. Len(members) : sum[k] \in Int
               /\ SumOf(FileSizes(members)) = sum[Len(members)]
<1> DEFINE members == c.members
           n == Len(members)
           sizes == FileSizes(members)
<1>1. /\ n \in Nat /\ DOMAIN members = 1 .. n
      /\ \A i \in 1 .. n : members[i].size \in Nat
  BY MembersTyped
<1>2. sizes = [i \in 1 .. n |-> IF members[i].kind = "file" THEN members[i].size ELSE 0]
  BY <1>1 DEF FileSizes
<1>3. /\ sizes \in Seq(Int) /\ Len(sizes) = n
      /\ \A k \in 1 .. n : sizes[k] = IF members[k].kind = "file" THEN members[k].size ELSE 0
  <2>1. sizes \in [1 .. n -> Int]
    BY <1>1, <1>2
  <2> QED
    BY <1>1, <1>2, <2>1
<1> HIDE DEF sizes
<1>4. /\ PartialSums(sizes)[0] = 0
      /\ \A k \in 1 .. n : PartialSums(sizes)[k] = PartialSums(sizes)[k - 1] + sizes[k]
      /\ \A k \in 0 .. n : PartialSums(sizes)[k] \in Int
      /\ SumOf(sizes) = PartialSums(sizes)[n]
  BY <1>3, SumsAdd DEF SumOf
<1> QED
  BY <1>3, <1>4 DEF sizes

LEMMA ExtentsSummed ==
    ASSUME NEW c \in Contents \cup {NoContent}
    PROVE  LET members == c.members
               sum == PartialSums(Extents(members))
           IN  /\ sum[0] = 0
               /\ \A k \in 1 .. Len(members) : sum[k] = sum[k - 1] + (1 + members[k].size)
               /\ \A k \in 0 .. Len(members) : sum[k] \in Int
               /\ SizeOf(c) = 1 + sum[Len(members)]
<1> DEFINE members == c.members
           n == Len(members)
           sizes == Extents(members)
<1>1. /\ n \in Nat /\ DOMAIN members = 1 .. n
      /\ \A i \in 1 .. n : members[i].size \in Nat
  BY MembersTyped
<1>2. sizes = [i \in 1 .. n |-> 1 + members[i].size]
  BY <1>1 DEF Extents
<1>3. /\ sizes \in Seq(Int) /\ Len(sizes) = n
      /\ \A k \in 1 .. n : sizes[k] = 1 + members[k].size
  <2>1. sizes \in [1 .. n -> Int]
    BY <1>1, <1>2
  <2> QED
    BY <1>1, <1>2, <2>1
<1>5. SizeOf(c) = 1 + SumOf(sizes)
  BY DEF SizeOf
<1> HIDE DEF sizes
<1>4. /\ PartialSums(sizes)[0] = 0
      /\ \A k \in 1 .. n : PartialSums(sizes)[k] = PartialSums(sizes)[k - 1] + sizes[k]
      /\ \A k \in 0 .. n : PartialSums(sizes)[k] \in Int
      /\ SumOf(sizes) = PartialSums(sizes)[n]
  BY <1>3, SumsAdd DEF SumOf
<1> QED
  BY <1>3, <1>4, <1>5 DEF sizes

\* The files of more members are not smaller.
LEMMA FilesSumGrows ==
    ASSUME NEW c \in Contents \cup {NoContent}, NEW k \in 0 .. Len(c.members)
    PROVE  LET sum == PartialSums(FileSizes(c.members))
           IN  0 <= sum[k] /\ sum[k] <= sum[Len(c.members)]
<1> DEFINE members == c.members
           n == Len(members)
           sum == PartialSums(FileSizes(members))
<1>1. /\ n \in Nat /\ k \in Nat /\ k <= n
      /\ \A i \in 1 .. n : members[i].size \in Nat
  BY MembersTyped
<1>2. /\ sum[0] = 0 /\ \A i \in 0 .. n : sum[i] \in Int
      /\ \A i \in 1 .. n : sum[i] = sum[i - 1] + IF members[i].kind = "file" THEN members[i].size ELSE 0
  BY FilesSummed
<1> HIDE DEF sum, n, members
<1>3. \A i \in 1 .. n : sum[i - 1] <= sum[i]
  <2> TAKE i \in 1 .. n
  <2>1. i - 1 \in 0 .. n
    BY <1>1
  <2>2. sum[i - 1] \in Int /\ members[i].size \in Nat
    BY <1>1, <1>2, <2>1
  <2>3. sum[i] = sum[i - 1] + IF members[i].kind = "file" THEN members[i].size ELSE 0
    BY <1>2
  <2>4. sum[i] = sum[i - 1] + members[i].size \/ sum[i] = sum[i - 1] + 0
    BY <2>3
  <2> QED
    BY <2>2, <2>4
<1>4. 0 <= sum[k]
  <2> DEFINE good == {i \in Nat : i <= n => 0 <= sum[i]}
  <2>1. 0 \in good
    BY <1>2
  <2>2. ASSUME NEW i \in Nat, i \in good PROVE i + 1 \in good
    <3> SUFFICES ASSUME i + 1 <= n PROVE 0 <= sum[i + 1]
      OBVIOUS
    <3>1. i \in 0 .. n /\ i + 1 \in 0 .. n /\ i + 1 \in 1 .. n /\ (i + 1) - 1 = i
      BY <1>1
    <3>2. 0 <= sum[i] /\ sum[i] <= sum[i + 1] /\ sum[i] \in Int /\ sum[i + 1] \in Int
      BY <1>1, <1>2, <1>3, <2>2, <3>1
    <3> QED
      BY <3>2
  <2> HIDE DEF good
  <2>3. k \in good
    BY <1>1, <2>1, <2>2, Induction
  <2> QED
    BY <1>1, <2>3 DEF good
<1>5. sum[k] <= sum[n]
  <2> DEFINE good == {i \in Nat : k <= i /\ i <= n => sum[k] <= sum[i]}
  <2>1. 0 \in good
    BY <1>1, <1>2
  <2>2. ASSUME NEW i \in Nat, i \in good PROVE i + 1 \in good
    <3> SUFFICES ASSUME k <= i + 1, i + 1 <= n PROVE sum[k] <= sum[i + 1]
      OBVIOUS
    <3>1. i \in 0 .. n /\ i + 1 \in 0 .. n /\ i + 1 \in 1 .. n /\ (i + 1) - 1 = i
      BY <1>1
    <3>2. sum[i] <= sum[i + 1] /\ sum[i] \in Int /\ sum[i + 1] \in Int /\ sum[k] \in Int
      BY <1>1, <1>2, <1>3, <3>1
    <3>3. CASE k <= i
      BY <1>1, <2>2, <3>1, <3>2, <3>3
    <3>4. CASE k = i + 1
      BY <3>2, <3>4
    <3> QED
      BY <1>1, <3>3, <3>4
  <2> HIDE DEF good
  <2>3. n \in good
    BY <1>1, <2>1, <2>2, Induction
  <2> QED
    BY <1>1, <2>3 DEF good
<1> QED
  BY <1>4, <1>5 DEF sum, n, members

\* An archive of files and directories is as large as its headers, its files and its end.
LEMMA SizeOfFiles ==
    ASSUME NEW c \in Contents \cup {NoContent},
           \A i \in 1 .. Len(c.members) : c.members[i].kind \in {"file", "dir"}
    PROVE  SizeOf(c) = 1 + Len(c.members) + PartialSums(FileSizes(c.members))[Len(c.members)]
<1> DEFINE members == c.members
           n == Len(members)
           sum == PartialSums(FileSizes(members))
           room == PartialSums(Extents(members))
<1>1. /\ n \in Nat
      /\ \A i \in 1 .. n : members[i].size \in Nat /\ (members[i].kind = "dir" => members[i].size = 0)
  BY MembersTyped
<1>2. /\ sum[0] = 0 /\ \A i \in 0 .. n : sum[i] \in Int
      /\ \A i \in 1 .. n : sum[i] = sum[i - 1] + IF members[i].kind = "file" THEN members[i].size ELSE 0
  BY FilesSummed
<1>3. /\ room[0] = 0 /\ \A i \in 0 .. n : room[i] \in Int
      /\ \A i \in 1 .. n : room[i] = room[i - 1] + (1 + members[i].size)
  BY ExtentsSummed
<1>6. SizeOf(c) = 1 + room[n]
  BY ExtentsSummed
<1>4. \A i \in 1 .. n : members[i].kind \in {"file", "dir"}
  OBVIOUS
<1> HIDE DEF sum, room, n, members
<1>5. room[n] = n + sum[n]
  <2> DEFINE good == {i \in Nat : i <= n => room[i] = i + sum[i]}
  <2>1. 0 \in good
    <3>1. room[0] = 0 /\ sum[0] = 0
      BY <1>2, <1>3
    <3>2. room[0] = 0 + sum[0]
      BY ONLY <3>1
    <3> QED
      BY ONLY <3>2 DEF good
  <2>2. ASSUME NEW i \in Nat, i \in good PROVE i + 1 \in good
    <3> SUFFICES ASSUME i + 1 <= n PROVE room[i + 1] = (i + 1) + sum[i + 1]
      OBVIOUS
    <3>1. i \in 0 .. n /\ i + 1 \in 0 .. n /\ i + 1 \in 1 .. n /\ (i + 1) - 1 = i
      BY <1>1
    <3>2. /\ room[i] = i + sum[i] /\ sum[i] \in Int
          /\ members[i + 1].size \in Nat
          /\ members[i + 1].kind # "file" => members[i + 1].size = 0
      BY <1>1, <1>2, <1>4, <2>2, <3>1
    <3>3. sum[i + 1] = sum[i] + members[i + 1].size
      BY <1>2, <3>1, <3>2
    <3>4. room[i + 1] = room[i] + (1 + members[i + 1].size)
      BY <1>3, <3>1
    <3> DEFINE s == sum[i]
               z == members[i + 1].size
    <3>5. s \in Int /\ z \in Nat
      BY <3>2
    <3>6. sum[i + 1] = s + z /\ room[i + 1] = (i + s) + (1 + z)
      BY <3>2, <3>3, <3>4
    <3> HIDE DEF s, z
    <3>7. (i + s) + (1 + z) = (i + 1) + (s + z)
      BY <3>5
    <3> QED
      BY <3>6, <3>7
  <2> HIDE DEF good
  <2>3. n \in good
    BY <1>1, <2>1, <2>2, Induction
  <2> QED
    BY <1>1, <2>3 DEF good
<1>7. SizeOf(c) = 1 + (n + sum[n])
  BY <1>5, <1>6
<1>8. 1 + (n + sum[n]) = 1 + n + sum[n]
  <2>1. sum[n] \in Int
    BY <1>1, <1>2
  <2> QED
    BY <1>1, <2>1
<1> QED
  BY <1>7, <1>8 DEF sum, room, n, members
\* The files among the first members, one member at a time.
LEMMA FilesToNext ==
    ASSUME NEW members, NEW k \in Nat
    PROVE  /\ FilesTo(members, 0) = {}
           /\ k + 1 \notin FilesTo(members, k)
           /\ FilesTo(members, k) \subseteq 1 .. k
           /\ FilesTo(members, k + 1) =
                 IF members[k + 1].kind = "file" THEN FilesTo(members, k) \cup {k + 1}
                 ELSE FilesTo(members, k)
<1>1. 1 .. 0 = {} /\ 1 .. (k + 1) = (1 .. k) \cup {k + 1} /\ k + 1 \notin 1 .. k
  OBVIOUS
<1> QED
  BY <1>1 DEF FilesTo

LEMMA FilesToFinite ==
    ASSUME NEW members, NEW n \in Nat, NEW k \in 0 .. n
    PROVE  /\ IsFiniteSet(FilesTo(members, k)) /\ Cardinality(FilesTo(members, k)) \in Nat
           /\ Cardinality(FilesTo(members, k)) <= Cardinality(FilesTo(members, n))
<1>1. \A i \in Nat : FilesTo(members, i) \subseteq 1 .. i /\ IsFiniteSet(1 .. i)
  BY FS_Interval DEF FilesTo
<1>2. \A i \in Nat : IsFiniteSet(FilesTo(members, i))
  BY <1>1, FS_Subset
<1>3. k \in Nat /\ 1 .. k \subseteq 1 .. n
  OBVIOUS
<1>4. FilesTo(members, k) \subseteq FilesTo(members, n)
  BY <1>3 DEF FilesTo
<1> QED
  BY <1>2, <1>3, <1>4, FS_Subset, FS_CardinalityType

\* A directory or a file that the reader accepts is measured with those before it.
LEMMA HeaderMeasured ==
    ASSUME NEW c \in Contents \cup {NoContent}, NEW k \in Nat, k < Len(c.members),
           NEW r \in Reader, r.next = k + 1, MeasuredTo(r, c.members, k),
           NEW m, m = c.members[k + 1],
           m.name \notin BadNames \cup r.seen, m.kind \in {"file", "dir"}
    PROVE  LET n == k + 1
               members == c.members
               names == r.seen \cup {m.name}
           IN  /\ \A i, j \in 1 .. n : members[i].name = members[j].name => i = j
               /\ \A i \in 1 .. n :
                      members[i].kind \in {"file", "dir"} /\ members[i].name \notin BadNames
               /\ names = {members[i].name : i \in 1 .. n}
               /\ names \subseteq STRING /\ IsFiniteSet(names) /\ Cardinality(names) = n
<1> DEFINE members == c.members
           names == r.seen \cup {m.name}
<1>1. 1 .. (k + 1) = (1 .. k) \cup {k + 1} /\ k + 1 \notin 1 .. k
  OBVIOUS
<1>2. /\ \A i, j \in 1 .. k : members[i].name = members[j].name => i = j
      /\ \A i \in 1 .. k : members[i].kind \in {"file", "dir"} /\ members[i].name \notin BadNames
      /\ r.seen = {members[i].name : i \in 1 .. k}
      /\ IsFiniteSet(r.seen) /\ Cardinality(r.seen) = k
  BY DEF MeasuredTo
<1>3. \A i \in 1 .. k : members[i].name # m.name
  BY <1>2
<1>4. m = members[k + 1]
  OBVIOUS
<1>5. \A i, j \in 1 .. (k + 1) : members[i].name = members[j].name => i = j
  BY <1>1, <1>2, <1>3, <1>4
<1>6. \A i \in 1 .. (k + 1) : members[i].kind \in {"file", "dir"} /\ members[i].name \notin BadNames
  BY <1>1, <1>2, <1>4
<1>7. names = {members[i].name : i \in 1 .. (k + 1)}
  BY <1>1, <1>2, <1>4
<1>8. IsFiniteSet(names) /\ Cardinality(names) = k + 1
  BY <1>2, FS_AddElement
<1>9. names \subseteq STRING
  <2>1. members[k + 1] \in Member
    BY MembersTyped
  <2>2. m.name \in STRING
    BY <1>4, <2>1 DEF Member
  <2> QED
    BY <2>2 DEF Reader
<1> QED
  BY <1>5, <1>6, <1>7, <1>8, <1>9
\* What the reader becomes behind a header and behind a file.
LEMMA HeaderRead ==
    ASSUME NEW r \in Reader, NEW m, m.name \in STRING
    PROVE  LET s == ReadHeader(r, m)
           IN  /\ s.next = r.next + 1 /\ s.count = r.count + 1 /\ s.expanded = r.expanded
               /\ s.seen = r.seen \cup {m.name} /\ s.files = r.files
               /\ s \in Reader
<1> DEFINE n == r.next + 1
           count == r.count + 1
           names == r.seen \cup {m.name}
           s == [r EXCEPT !.next = n, !.count = count, !.seen = names]
<1>1. n \in Nat \ {0} /\ count \in Nat /\ names \in SUBSET STRING
  BY DEF Reader
<1>2. ReadHeader(r, m) = s
  BY DEF ReadHeader
<1> HIDE DEF n, count, names
<1>3. s \in Reader
  BY <1>1 DEF Reader
<1>4. s.next = n /\ s.count = count /\ s.expanded = r.expanded /\ s.seen = names /\ s.files = r.files
  BY DEF Reader
<1> QED
  BY <1>2, <1>3, <1>4 DEF n, count, names

LEMMA FileRead ==
    ASSUME NEW r \in Reader, NEW m \in Member
    PROVE  LET s == ReadFile(r, m)
           IN  /\ s.next = r.next + 1 /\ s.count = (r.count + 1) + m.size
               /\ s.expanded = r.expanded + m.size
               /\ s.seen = r.seen \cup {m.name} /\ s.files = r.files \cup {m}
               /\ s \in Reader
<1> DEFINE h == ReadHeader(r, m)
           count == h.count + m.size
           expanded == h.expanded + m.size
           files == h.files \cup {m}
           s == [h EXCEPT !.count = count, !.expanded = expanded, !.files = files]
<1>1. /\ h.next = r.next + 1 /\ h.count = r.count + 1 /\ h.expanded = r.expanded
      /\ h.seen = r.seen \cup {m.name} /\ h.files = r.files
      /\ h \in Reader
  <2>1. m.name \in STRING
    BY DEF Member
  <2> QED
    BY <2>1, HeaderRead
<1>2. ReadFile(r, m) = s
  BY DEF ReadFile
<1> HIDE DEF h
<1>3. m.size \in Nat /\ h.count \in Nat /\ h.expanded \in Nat /\ h.files \subseteq Member
  BY <1>1 DEF Member, Reader
<1>4. count \in Nat /\ expanded \in Nat /\ files \in SUBSET Member
  BY <1>3
<1> HIDE DEF count, expanded, files
<1>5. s \in Reader
  BY <1>1, <1>4 DEF Reader
<1>6. /\ s.next = h.next /\ s.count = count /\ s.expanded = expanded
      /\ s.seen = h.seen /\ s.files = files
  BY <1>1 DEF Reader
<1>7. count = (r.count + 1) + m.size /\ expanded = r.expanded + m.size
      /\ files = r.files \cup {m}
  BY <1>1 DEF count, expanded, files
<1> QED
  BY <1>1, <1>2, <1>5, <1>6, <1>7

LEMMA DirectoryMeasured ==
    ASSUME NEW c \in Contents \cup {NoContent}, NEW k \in Nat, k < Len(c.members),
           NEW r \in Reader, r.next = k + 1, MeasuredTo(r, c.members, k),
           MemberVerdict(r, c.members[k + 1]) = "skip"
    PROVE  /\ ReadHeader(r, c.members[k + 1]) \in Reader
           /\ ReadHeader(r, c.members[k + 1]).next = k + 2
           /\ MeasuredTo(ReadHeader(r, c.members[k + 1]), c.members, k + 1)
<1> DEFINE members == c.members
           m == members[k + 1]
           names == r.seen \cup {m.name}
           s == ReadHeader(r, m)
           sum == PartialSums(FileSizes(members))
<1>1. /\ m.kind \in {"file", "dir"} /\ m.kind = "dir" /\ m.name \notin BadNames \cup r.seen
      /\ ~(Cardinality(r.seen) >= MaxEntries)
  <2>1. m \in Member
    BY MembersTyped
  <2>2. m.kind \in Kinds
    BY <2>1 DEF Member
  <2> QED
    BY <2>2 DEF MemberVerdict, Kinds
<1>2. /\ s.next = k + 2 /\ s.count = r.count + 1 /\ s.expanded = r.expanded
      /\ s.seen = names /\ s.files = r.files /\ s \in Reader
  <2>1. (k + 1) + 1 = k + 2
    OBVIOUS
  <2>2. m.name \in STRING
    BY MembersTyped DEF Member
  <2> QED
    BY <2>1, <2>2, HeaderRead
<1>3. /\ \A i, j \in 1 .. (k + 1) : members[i].name = members[j].name => i = j
      /\ \A i \in 1 .. (k + 1) :
             members[i].kind \in {"file", "dir"} /\ members[i].name \notin BadNames
      /\ names = {members[i].name : i \in 1 .. (k + 1)}
      /\ names \subseteq STRING /\ IsFiniteSet(names) /\ Cardinality(names) = k + 1
  BY <1>1, HeaderMeasured
<1>5. FilesTo(members, k + 1) = FilesTo(members, k)
  BY <1>1, FilesToNext
<1>6. sum[k + 1] = sum[k] /\ sum[k] \in Int
  <2>1. k + 1 \in 1 .. Len(members) /\ k \in 0 .. Len(members) /\ (k + 1) - 1 = k
    BY MembersTyped
  <2>2. sum[k] \in Int /\ sum[k + 1] = sum[k] + 0
    BY <1>1, <2>1, FilesSummed
  <2> QED
    BY <2>2
<1>7. k + 1 <= MaxEntries
  <2>1. Cardinality(r.seen) = k
    BY DEF MeasuredTo
  <2> QED
    BY <1>1, <2>1, FinetuningFactsAssumption
<1>8. s.count = (k + 1) + s.expanded
  <2>1. r.count = k + r.expanded /\ r.expanded \in Nat
    BY DEF MeasuredTo, Reader
  <2> DEFINE e == r.expanded
  <2>2. s.count = (k + e) + 1 /\ s.expanded = e /\ e \in Nat
    BY <1>2, <2>1
  <2> HIDE DEF e, s
  <2>3. (k + e) + 1 = (k + 1) + e
    BY <2>2
  <2>4. s.count = (k + 1) + e
    BY <2>2, <2>3
  <2> QED
    BY <2>2, <2>4
<1>9. /\ s.files = {members[i] : i \in FilesTo(members, k + 1)}
      /\ IsFiniteSet(s.files)
      /\ Cardinality(s.files) = Cardinality(FilesTo(members, k + 1))
      /\ Cardinality(s.files) <= MaxFiles
      /\ s.expanded = sum[k + 1] /\ s.expanded <= MaxContent
      /\ \A i \in FilesTo(members, k + 1) :
             members[i].name \in Captured => members[i].size <= MaxConfig /\ members[i].json # "bad"
  BY <1>2, <1>5, <1>6 DEF MeasuredTo
<1> HIDE DEF s
<1>10. MeasuredTo(s, members, k + 1)
  BY <1>2, <1>3, <1>7, <1>8, <1>9 DEF MeasuredTo
<1> QED
  BY <1>2, <1>10 DEF s

LEMMA FileMeasured ==
    ASSUME NEW c \in Contents \cup {NoContent}, NEW k \in Nat, k < Len(c.members),
           NEW r \in Reader, r.next = k + 1, MeasuredTo(r, c.members, k),
           MemberVerdict(r, c.members[k + 1]) = "read",
           ~(c.members[k + 1].name \in Captured /\ c.members[k + 1].json = "bad")
    PROVE  /\ ReadFile(r, c.members[k + 1]) \in Reader
           /\ ReadFile(r, c.members[k + 1]).next = k + 2
           /\ MeasuredTo(ReadFile(r, c.members[k + 1]), c.members, k + 1)
<1> DEFINE members == c.members
           m == members[k + 1]
           names == r.seen \cup {m.name}
           files == r.files \cup {m}
           s == ReadFile(r, m)
           sum == PartialSums(FileSizes(members))
           to == FilesTo(members, k)
<1>0. m \in Member /\ m.size \in Nat
  BY MembersTyped
<1>1. /\ m.kind \in {"file", "dir"} /\ m.kind = "file" /\ m.name \notin BadNames \cup r.seen
      /\ ~(Cardinality(r.seen) >= MaxEntries) /\ ~(m.size > MaxContent - r.expanded)
      /\ ~(Cardinality(r.files) >= MaxFiles)
      /\ m.name \in Captured => ~(m.size > MaxConfig) /\ m.json # "bad"
  <2>2. m.kind \in Kinds
    BY <1>0 DEF Member
  <2> QED
    BY <2>2 DEF MemberVerdict, Kinds
<1>2. /\ s.next = k + 2 /\ s.count = (r.count + 1) + m.size /\ s.expanded = r.expanded + m.size
      /\ s.seen = names /\ s.files = files /\ s \in Reader
  <2>1. (k + 1) + 1 = k + 2
    OBVIOUS
  <2> QED
    BY <1>0, <2>1, FileRead
<1>3. /\ \A i, j \in 1 .. (k + 1) : members[i].name = members[j].name => i = j
      /\ \A i \in 1 .. (k + 1) :
             members[i].kind \in {"file", "dir"} /\ members[i].name \notin BadNames
      /\ names = {members[i].name : i \in 1 .. (k + 1)}
      /\ names \subseteq STRING /\ IsFiniteSet(names) /\ Cardinality(names) = k + 1
  BY <1>1, HeaderMeasured
<1>5. FilesTo(members, k + 1) = to \cup {k + 1} /\ k + 1 \notin to /\ to \subseteq 1 .. k
  BY <1>1, FilesToNext
<1>6. sum[k + 1] = sum[k] + m.size
  <2>1. k + 1 \in 1 .. Len(members) /\ k \in 0 .. Len(members) /\ (k + 1) - 1 = k
    BY MembersTyped
  <2> QED
    BY <1>1, <2>1, FilesSummed
<1>7. k + 1 <= MaxEntries
  <2>1. Cardinality(r.seen) = k
    BY DEF MeasuredTo
  <2> QED
    BY <1>1, <2>1, FinetuningFactsAssumption
<1>8. s.count = (k + 1) + s.expanded
  <2>1. r.count = k + r.expanded /\ r.expanded \in Nat
    BY DEF MeasuredTo, Reader
  <2>2. s.count = ((k + r.expanded) + 1) + m.size /\ s.expanded = r.expanded + m.size
    BY <1>2, <2>1
  <2> DEFINE e == r.expanded
             z == m.size
  <2>3. s.count = ((k + e) + 1) + z /\ s.expanded = e + z /\ e \in Nat /\ z \in Nat
    BY <1>0, <2>1, <2>2
  <2> HIDE DEF e, z, s
  <2>4. ((k + e) + 1) + z = (k + 1) + (e + z)
    BY <2>3
  <2>5. s.count = (k + 1) + (e + z)
    BY <2>3, <2>4
  <2> QED
    BY <2>3, <2>5
<1>9. s.expanded = sum[k + 1] /\ s.expanded <= MaxContent
  <2>1. r.expanded = sum[k] /\ r.expanded \in Nat
    BY DEF MeasuredTo, Reader
  <2>2. s.expanded = sum[k + 1]
    BY <1>2, <1>6, <2>1
  <2>3. r.expanded + m.size <= MaxContent
    BY <1>0, <1>1, <2>1, FinetuningFactsAssumption
  <2> QED
    BY <1>2, <2>2, <2>3
<1>10. files = {members[i] : i \in FilesTo(members, k + 1)}
  BY <1>5 DEF MeasuredTo
<1>11. /\ IsFiniteSet(files)
       /\ Cardinality(files) = Cardinality(FilesTo(members, k + 1))
       /\ Cardinality(files) <= MaxFiles
  <2>1. m \notin r.files
    <3>1. \A i \in to : members[i].name \in r.seen
      BY <1>5 DEF MeasuredTo
    <3>2. r.files = {members[i] : i \in to}
      BY DEF MeasuredTo
    <3> QED
      BY <1>1, <3>1, <3>2
  <2>2. IsFiniteSet(r.files) /\ Cardinality(r.files) = Cardinality(to)
    BY DEF MeasuredTo
  <2>3. IsFiniteSet(files) /\ Cardinality(files) = Cardinality(r.files) + 1
    BY <2>1, <2>2, FS_AddElement
  <2>4. IsFiniteSet(to)
    BY FilesToFinite
  <2>5. Cardinality(FilesTo(members, k + 1)) = Cardinality(to) + 1
    BY <1>5, <2>4, FS_AddElement
  <2>6. Cardinality(r.files) \in Nat
    BY <2>2, FS_CardinalityType
  <2>7. Cardinality(r.files) + 1 <= MaxFiles
    BY <1>1, <2>6, FinetuningFactsAssumption
  <2> QED
    BY <2>2, <2>3, <2>5, <2>7
<1>12. \A i \in FilesTo(members, k + 1) :
           members[i].name \in Captured => members[i].size <= MaxConfig /\ members[i].json # "bad"
  <2>1. m.name \in Captured => m.size <= MaxConfig /\ m.json # "bad"
    BY <1>0, <1>1, FinetuningFactsAssumption
  <2> QED
    BY <1>5, <2>1 DEF MeasuredTo
<1> HIDE DEF s
<1>13. MeasuredTo(s, members, k + 1)
  BY <1>2, <1>3, <1>7, <1>8, <1>9, <1>10, <1>11, <1>12 DEF MeasuredTo
<1> QED
  BY <1>2, <1>13 DEF s
\* What Sound says of the members by their numbers.
LEMMA SoundMembers ==
    ASSUME NEW c \in Contents \cup {NoContent}
    PROVE  LET members == c.members
               n == Len(members)
               sum == PartialSums(FileSizes(members))
               files == FilesTo(members, n)
           IN  Sound(c) <=>
               /\ c.tail = "zeros"
               /\ \A i, j \in 1 .. n : members[i].name = members[j].name => i = j
               /\ \A i \in 1 .. n : members[i].kind \in {"file", "dir"} /\ members[i].name \notin BadNames
               /\ n <= MaxEntries /\ Cardinality(files) <= MaxFiles
               /\ sum[n] <= MaxContent /\ n + 1 <= MaxOverhead
               /\ \A i \in files : members[i].name \in Captured => members[i].size <= MaxConfig
               /\ \A i \in files : members[i].name \in Captured => IsObject(members[i])
               /\ Described({members[i] : i \in files})
               /\ LayoutFits({members[i] : i \in files})
<1> DEFINE members == c.members
           n == Len(members)
<1>1. n \in Nat /\ DOMAIN members = 1 .. n
  BY MembersTyped
<1>2. Cardinality(1 .. n) = n
  <2>1. Cardinality(1 .. n) = IF 1 > n THEN 0 ELSE n - 1 + 1
    BY <1>1, FS_Interval
  <2> QED
    BY <1>1, <2>1
<1>3. SumOf(FileSizes(members)) = PartialSums(FileSizes(members))[n]
  BY FilesSummed
<1>4. {i \in DOMAIN members : members[i].kind = "file"} = FilesTo(members, n)
  BY <1>1 DEF FilesTo
<1> DEFINE Fine(at, files, bytes) ==
               /\ c.tail = "zeros"
               /\ \A i, j \in at : members[i].name = members[j].name => i = j
               /\ \A i \in at : members[i].kind \in {"file", "dir"} /\ members[i].name \notin BadNames
               /\ Cardinality(at) <= MaxEntries /\ Cardinality(files) <= MaxFiles
               /\ bytes <= MaxContent
               /\ Cardinality(at) + 1 <= MaxOverhead
               /\ \A i \in files : members[i].name \in Captured => members[i].size <= MaxConfig
               /\ \A i \in files : members[i].name \in Captured => IsObject(members[i])
               /\ Described({members[i] : i \in files})
               /\ LayoutFits({members[i] : i \in files})
<1>5. Sound(c) <=> Fine(DOMAIN members, {i \in DOMAIN members : members[i].kind = "file"},
                       SumOf(FileSizes(members)))
  BY Zenon DEF Sound
<1> HIDE DEF Fine
<1>6. Sound(c) <=> Fine(1 .. n, FilesTo(members, n), PartialSums(FileSizes(members))[n])
  BY <1>1, <1>3, <1>4, <1>5
<1> QED
  BY <1>2, <1>6 DEF Fine

\* A sound archive fits the bound on the size of the object.
LEMMA SoundFits ==
    ASSUME NEW c \in Contents \cup {NoContent}, Sound(c)
    PROVE  SizeOf(c) <= MaxContent + MaxOverhead
<1> DEFINE n == Len(c.members)
           bytes == PartialSums(FileSizes(c.members))[n]
<1>1. n \in Nat /\ bytes \in Int
  <2>1. n \in Nat /\ n \in 0 .. n
    BY MembersTyped
  <2> QED
    BY <2>1, FilesSummed
<1>2. /\ bytes <= MaxContent /\ n + 1 <= MaxOverhead
      /\ \A i \in 1 .. n : c.members[i].kind \in {"file", "dir"}
  BY SoundMembers
<1>3. SizeOf(c) = 1 + n + bytes
  BY <1>2, SizeOfFiles
<1> HIDE DEF n, bytes
<1> QED
  BY <1>1, <1>2, <1>3, FinetuningFactsAssumption

\* The reader refuses no member of a sound archive.
LEMMA SoundAdmitted ==
    ASSUME NEW c \in Contents \cup {NoContent}, Sound(c), NEW k \in Nat, k < Len(c.members),
           NEW r \in Reader, MeasuredTo(r, c.members, k)
    PROVE  /\ MemberVerdict(r, c.members[k + 1]) \in {"skip", "read"}
           /\ c.members[k + 1].name \in Captured => \/ c.members[k + 1].kind = "dir"
                                                    \/ c.members[k + 1].json # "bad"
<1> DEFINE members == c.members
           n == Len(members)
           m == members[k + 1]
           sum == PartialSums(FileSizes(members))
<1>0. /\ n \in Nat /\ k + 1 \in 1 .. n /\ k + 1 \in 0 .. n /\ k \in 0 .. n /\ (k + 1) - 1 = k
      /\ m \in Member /\ m.size \in Nat
  BY MembersTyped
<1>1. /\ \A i, j \in 1 .. n : members[i].name = members[j].name => i = j
      /\ \A i \in 1 .. n : members[i].kind \in {"file", "dir"} /\ members[i].name \notin BadNames
      /\ n <= MaxEntries /\ Cardinality(FilesTo(members, n)) <= MaxFiles
      /\ sum[n] <= MaxContent /\ n + 1 <= MaxOverhead
      /\ \A i \in FilesTo(members, n) : members[i].name \in Captured => members[i].size <= MaxConfig
      /\ \A i \in FilesTo(members, n) : members[i].name \in Captured => IsObject(members[i])
  BY SoundMembers
<1>2. m.kind \in {"file", "dir"} /\ m.name \notin BadNames
  BY <1>0, <1>1
<1>3. m.name \notin r.seen
  <2>1. r.seen = {members[i].name : i \in 1 .. k}
    BY DEF MeasuredTo
  <2>2. \A i \in 1 .. k : i \in 1 .. n /\ i # k + 1
    BY <1>0
  <2> QED
    BY <1>0, <1>1, <2>1, <2>2
<1>4. ~(Cardinality(r.seen) >= MaxEntries)
  <2>1. Cardinality(r.seen) = k
    BY DEF MeasuredTo
  <2> QED
    BY <1>0, <1>1, <2>1, FinetuningFactsAssumption
<1>5. ~((r.count + 1) - r.expanded > MaxOverhead)
  <2> DEFINE e == r.expanded
  <2>1. r.count = k + e /\ e \in Nat
    BY DEF MeasuredTo, Reader
  <2>2. MaxOverhead \in Nat /\ k + 1 <= MaxOverhead
    BY <1>0, <1>1, FinetuningFactsAssumption
  <2> HIDE DEF e
  <2>3. ((k + e) + 1) - e = k + 1
    BY <2>1
  <2>4. ~(((k + e) + 1) - e > MaxOverhead)
    BY <2>2, <2>3
  <2> QED
    BY <2>1, <2>4 DEF e
<1>6. m.kind = "file" => k + 1 \in FilesTo(members, n)
  BY <1>0 DEF FilesTo
<1>7. m.kind = "file" => ~(m.size > MaxContent - r.expanded)
  <2> SUFFICES ASSUME m.kind = "file" PROVE ~(m.size > MaxContent - r.expanded)
    OBVIOUS
  <2>1. sum[k + 1] = sum[k] + m.size
    BY <1>0, FilesSummed
  <2>2. r.expanded = sum[k] /\ r.expanded \in Nat
    BY DEF MeasuredTo, Reader
  <2>3. sum[k + 1] <= sum[n] /\ sum[n] \in Int /\ sum[k + 1] \in Int
    BY <1>0, FilesSumGrows, FilesSummed
  <2> DEFINE e == r.expanded
             z == m.size
             t == sum[n]
  <2>4. e + z <= t /\ t <= MaxContent /\ e \in Nat /\ z \in Nat /\ t \in Int
    BY <1>0, <1>1, <2>1, <2>2, <2>3
  <2> HIDE DEF e, z, t
  <2>5. ~(z > MaxContent - e)
    BY <2>4, FinetuningFactsAssumption
  <2> QED
    BY <2>5 DEF e, z
<1>8. m.kind = "file" => ~(Cardinality(r.files) >= MaxFiles)
  <2> SUFFICES ASSUME m.kind = "file" PROVE ~(Cardinality(r.files) >= MaxFiles)
    OBVIOUS
  <2>1. /\ FilesTo(members, k + 1) = FilesTo(members, k) \cup {k + 1}
        /\ k + 1 \notin FilesTo(members, k)
    BY FilesToNext
  <2>2. IsFiniteSet(FilesTo(members, k)) /\ Cardinality(FilesTo(members, k)) \in Nat
    BY <1>0, FilesToFinite
  <2>3. Cardinality(FilesTo(members, k + 1)) = Cardinality(FilesTo(members, k)) + 1
    BY <2>1, <2>2, FS_AddElement
  <2>4. /\ Cardinality(FilesTo(members, k + 1)) <= Cardinality(FilesTo(members, n))
        /\ Cardinality(FilesTo(members, n)) \in Nat
    BY <1>0, FilesToFinite
  <2>5. Cardinality(r.files) = Cardinality(FilesTo(members, k))
    BY DEF MeasuredTo
  <2> QED
    BY <1>1, <2>2, <2>3, <2>4, <2>5, FinetuningFactsAssumption
<1>9. m.kind = "file" /\ m.name \in Captured => ~(m.size > MaxConfig) /\ m.json # "bad"
  BY <1>0, <1>1, <1>6, FinetuningFactsAssumption DEF IsObject
<1>10. MemberVerdict(r, m) \in {"skip", "read"}
  <2>1. m.kind # "corrupt" /\ m.kind # "link"
    BY <1>2
  <2> QED
    BY <1>2, <1>3, <1>4, <1>5, <1>7, <1>8, <1>9, <2>1 DEF MemberVerdict
<1> QED
  BY <1>2, <1>9, <1>10
\* The end of a sound archive that holds what was registered refuses nothing.
LEMMA SoundEnds ==
    ASSUME NEW c \in Contents \cup {NoContent}, Sound(c), c = source.content,
           reader \in Reader, MeasuredTo(reader, c.members, Len(c.members)),
           cut \in 1 .. SizeOf(c)
    PROVE  Decide(c) \notin {"invalid", "limit"}
<1> DEFINE members == c.members
           n == Len(members)
           bytes == PartialSums(FileSizes(members))[n]
<1>0. n \in Nat /\ bytes \in Int
  <2>1. n \in Nat /\ n \in 0 .. n
    BY MembersTyped
  <2> QED
    BY <2>1, FilesSummed
<1>1. /\ c.tail = "zeros" /\ n + 1 <= MaxOverhead
      /\ \A i \in 1 .. n : members[i].kind \in {"file", "dir"}
      /\ \A i \in FilesTo(members, n) : members[i].name \in Captured => IsObject(members[i])
      /\ Described({members[i] : i \in FilesTo(members, n)})
      /\ LayoutFits({members[i] : i \in FilesTo(members, n)})
  BY SoundMembers
<1>2. reader.files = {members[i] : i \in FilesTo(members, n)} /\ reader.expanded = bytes
  BY DEF MeasuredTo
<1>3. ~(cut - reader.expanded > MaxOverhead)
  <2>1. SizeOf(c) = 1 + n + bytes
    BY <1>1, SizeOfFiles
  <2> DEFINE room == SizeOf(c)
             t == bytes
  <2>2. cut \in Int /\ cut <= 1 + n + t /\ t \in Int /\ reader.expanded = t
    BY <1>0, <1>2, <2>1
  <2> HIDE DEF room, t, n
  <2>3. ~(cut - t > MaxOverhead)
    BY <1>0, <1>1, <2>2, FinetuningFactsAssumption
  <2> QED
    BY <2>2, <2>3
<1>4. Described(reader.files) /\ LayoutFits(reader.files)
  BY <1>1, <1>2
<1>5. ~(\E f \in reader.files :
            f.name \in {"config.json", "tokenizer_config.json"} /\ ~IsObject(f))
  BY <1>1, <1>2 DEF Captured
<1> QED
  BY <1>1, <1>3, <1>4, <1>5 DEF Decide

\* What is answered with facts is sound and is what was registered.
LEMMA FactsSound ==
    ASSUME NEW c \in Contents \cup {NoContent},
           reader \in Reader, MeasuredTo(reader, c.members, Len(c.members)),
           cut \in 1 .. SizeOf(c), Decide(c) = "facts"
    PROVE  /\ Sound(c) /\ c = source.content
           /\ reader.files = {m \in Range(c.members) : m.kind = "file"}
<1> DEFINE members == c.members
           n == Len(members)
           bytes == PartialSums(FileSizes(members))[n]
<1>0. /\ n \in Nat /\ bytes \in Int /\ SizeOf(c) \in Int
      /\ DOMAIN members = 1 .. n
  <2>1. n \in Nat /\ n \in 0 .. n /\ DOMAIN members = 1 .. n
    BY MembersTyped
  <2>2. bytes \in Int
    BY <2>1, FilesSummed
  <2>3. /\ SizeOf(c) = 1 + PartialSums(Extents(members))[n]
        /\ PartialSums(Extents(members))[n] \in Int
    BY <2>1, ExtentsSummed
  <2> QED
    BY <2>1, <2>2, <2>3
<1>1. /\ ~(cut = SizeOf(c) /\ c.tail = "junk") /\ ~(cut - reader.expanded > MaxOverhead)
      /\ ~(cut < SizeOf(c)) /\ c = source.content
      /\ Described(reader.files) /\ LayoutFits(reader.files)
      /\ ~(\E f \in reader.files :
               f.name \in {"config.json", "tokenizer_config.json"} /\ ~IsObject(f))
  BY DEF Decide
<1>2. cut = SizeOf(c)
  BY <1>0, <1>1
<1>3. c.tail = "zeros"
  BY <1>1, <1>2, FinetuningFactsAssumption DEF NoContent
<1>4. /\ \A i, j \in 1 .. n : members[i].name = members[j].name => i = j
      /\ \A i \in 1 .. n : members[i].kind \in {"file", "dir"} /\ members[i].name \notin BadNames
      /\ n <= MaxEntries /\ Cardinality(FilesTo(members, n)) <= MaxFiles
      /\ bytes <= MaxContent /\ reader.expanded = bytes
      /\ reader.files = {members[i] : i \in FilesTo(members, n)}
      /\ \A i \in FilesTo(members, n) : members[i].name \in Captured => members[i].size <= MaxConfig
  BY DEF MeasuredTo
<1>5. n + 1 <= MaxOverhead
  <2>1. SizeOf(c) = 1 + n + bytes
    BY <1>4, SizeOfFiles
  <2>2. ~((1 + n + bytes) - bytes > MaxOverhead)
    BY <1>1, <1>2, <1>4, <2>1
  <2> HIDE DEF n, bytes
  <2> QED
    BY <1>0, <2>2, FinetuningFactsAssumption
<1>6. \A f \in reader.files : f.name \in Captured => IsObject(f)
  <2> SUFFICES ASSUME NEW f \in reader.files, f.name \in Captured PROVE IsObject(f)
    OBVIOUS
  <2>1. CASE f.name \in {"config.json", "tokenizer_config.json"}
    BY <1>1, <2>1
  <2>2. CASE f.name = "model.safetensors.index.json"
    <3>1. f \in FilesNamed(reader.files, "model.safetensors.index.json")
      BY <2>2 DEF FilesNamed
    <3> QED
      BY <1>1, <3>1 DEF LayoutFits
  <2> QED
    BY <2>1, <2>2 DEF Captured
<1>7. \A i \in FilesTo(members, n) : members[i].name \in Captured => IsObject(members[i])
  BY <1>4, <1>6
<1>8. Sound(c)
  <2>1. /\ Described({members[i] : i \in FilesTo(members, n)})
        /\ LayoutFits({members[i] : i \in FilesTo(members, n)})
    BY <1>1, <1>4
  <2> QED
    BY <1>3, <1>4, <1>5, <1>7, <2>1, SoundMembers
<1>9. reader.files = {m \in Range(members) : m.kind = "file"}
  BY <1>0, <1>4 DEF FilesTo, Range
<1> QED
  BY <1>1, <1>8, <1>9

\* Who reaches the handler: modeldev, for the one tenant its metadata assert.
LEMMA GateOfFacts ==
    ASSUME NEW call \in FactsCalls, GateVerdict(call) = "run",
           call.method = "ResolveFinetuningFacts"
    PROVE  call.client = "modeldev" /\ call.tenant = <<Asserted(call)>>
<1>1. call \in GateCall
  BY FinetuningFactsAssumption
<1>2. call.client \in Clients /\ call.method \in Allowed[call.client] /\ Asserted(call) # NoTenant
  BY DEF GateVerdict
<1>3. call.client = "modeldev"
  BY <1>2 DEF Clients, Allowed
<1>4. Asserted(call) = Single(call.tenant)
  BY <1>2, <1>3 DEF Asserted
<1>5. PICK n \in 0 .. 2 : call.tenant \in [1 .. n -> Tenants]
  BY <1>1 DEF GateCall
<1>6. call.tenant \in Seq(Tenants)
  BY <1>5
<1>7. Len(call.tenant) = 1 /\ Asserted(call) = call.tenant[1]
  BY <1>2, <1>4 DEF Single
<1> QED
  BY <1>3, <1>6, <1>7
LEMMA FactsStarts == FactsInit => FactsInv
<1> SUFFICES ASSUME FactsInit PROVE FactsInv
  OBVIOUS
<1>1. fcall \in FactsCalls /\ source.content \in Contents
  BY DEF FactsInit
<1>2. objects \in Seq(Contents \cup {NoContent}) \ {<<>>}
  <2>1. PICK c \in {source.content, NoContent} : objects = <<c>>
    BY DEF FactsInit
  <2>2. c \in Contents \cup {NoContent}
    BY <1>1
  <2> QED
    BY <2>1, <2>2
<1>3. reader \in Reader
  BY DEF FactsInit, StartOfArchive, Reader
<1> QED
  BY <1>1, <1>2, <1>3 DEF FactsInit, FactsInv, NotFinished, FactsMeasured, SoundNotRefused

\* The steps before the object is looked at.
LEMMA CheckingKeeps ==
    FactsInv /\ (PassGate \/ ReadSource \/ ReadOwner \/ ReadTarget) => FactsInv'
<1> SUFFICES ASSUME FactsInv, PassGate \/ ReadSource \/ ReadOwner \/ ReadTarget
             PROVE  FactsInv'
  OBVIOUS
<1> USE DEF FactsInv, Reply, Step, NotFinished, FactsMeasured, SoundNotRefused
<1>1. CASE PassGate
  <2>1. GateVerdict(fcall) \notin {"none", "facts", "invalid", "limit"}
    BY DEF GateVerdict
  <2> QED
    BY <1>1, <2>1 DEF PassGate
<1>2. CASE ReadSource
  BY <1>2 DEF ReadSource
<1>3. CASE ReadOwner
  BY <1>3 DEF ReadOwner
<1>4. CASE ReadTarget
  BY <1>4 DEF ReadTarget
<1> QED
  BY <1>1, <1>2, <1>3, <1>4

\* A sound version is not beyond the bound on the size.
LEMMA StatKeeps == FactsInv /\ StatObject => FactsInv'
<1> SUFFICES ASSUME FactsInv, StatObject PROVE FactsInv'
  OBVIOUS
<1>1. Len(objects) \in DOMAIN objects
  BY DEF FactsInv
<1>2. CASE SizeOf(source.content) > MaxContent + MaxOverhead
           /\ Reply("limit") /\ UNCHANGED pinned
  <2>1. ~Sound(source.content)
    <3>1. SizeOf(source.content) \in Int
      <4>1. LET n == Len(source.content.members)
            IN  /\ SizeOf(source.content) = 1 + PartialSums(Extents(source.content.members))[n]
                /\ n \in 0 .. n
        BY ExtentsSummed, MembersTyped DEF FactsInv
      <4> QED
        BY <4>1, ExtentsSummed DEF FactsInv
    <3> QED
      BY <1>2, <3>1, SoundFits, FinetuningFactsAssumption DEF FactsInv
  <2> QED
    BY <1>2, <2>1 DEF StatObject, Reply, FactsInv, NotFinished, FactsMeasured, SoundNotRefused
<1>3. CASE Reply("unavailable") /\ UNCHANGED pinned
  BY <1>3 DEF StatObject, Reply, FactsInv, NotFinished, FactsMeasured, SoundNotRefused
<1>4. CASE Step("get") /\ pinned' = Len(objects)
  BY <1>1, <1>4 DEF StatObject, Step, FactsInv, NotFinished, FactsMeasured, SoundNotRefused
<1> QED
  BY <1>2, <1>3, <1>4 DEF StatObject
\* The prefix that arrives is measured from its start.
LEMMA GetKeeps == FactsInv /\ GetObject => FactsInv'
<1> SUFFICES ASSUME FactsInv, GetObject PROVE FactsInv'
  OBVIOUS
<1> DEFINE c == objects[pinned]
<1>1. c \in Contents \cup {NoContent}
  BY DEF FactsInv, GetObject
<1>2. SizeOf(c) \in Int
  <2>1. /\ SizeOf(c) = 1 + PartialSums(Extents(c.members))[Len(c.members)]
        /\ Len(c.members) \in 0 .. Len(c.members)
    BY <1>1, ExtentsSummed, MembersTyped
  <2> QED
    BY <1>1, <2>1, ExtentsSummed
<1>3. CASE cut' = 0 /\ Reply("unavailable")
  BY <1>3 DEF GetObject, Reply, FactsInv, NotFinished, FactsMeasured, SoundNotRefused
<1>4. CASE cut' # 0 /\ Step("archive")
  <2>1. cut' \in 1 .. SizeOf(c)
    BY <1>2, <1>4 DEF GetObject
  <2>2. reader.next - 1 = 0 /\ 0 \in 0 .. Len(c.members)
    BY <1>1, MembersTyped DEF FactsInv, GetObject, StartOfArchive
  <2>3. MeasuredTo(reader, c.members, 0)
    <3>1. FilesTo(c.members, 0) = {} /\ PartialSums(FileSizes(c.members))[0] = 0
      BY <1>1, FilesToNext, FilesSummed
    <3>2. IsFiniteSet({}) /\ Cardinality({}) = 0
      BY FS_EmptySet
    <3>3. reader.seen = {} /\ reader.files = {} /\ reader.expanded = 0 /\ reader.count = 0
      BY DEF FactsInv, GetObject, StartOfArchive
    <3>4. /\ 1 .. 0 = {} /\ 0 = 0 + 0
          /\ 0 <= MaxEntries /\ 0 <= MaxFiles /\ 0 <= MaxContent
      BY FinetuningFactsAssumption
    <3>5. {} = {c.members[i].name : i \in {}} /\ {} = {c.members[i] : i \in {}}
      OBVIOUS
    <3> HIDE DEF c
    <3> QED
      BY <3>1, <3>2, <3>3, <3>4, <3>5 DEF MeasuredTo
  <2> QED
    BY <1>4, <2>1, <2>2, <2>3
       DEF GetObject, Step, FactsInv, NotFinished, FactsMeasured, SoundNotRefused
<1> QED
  BY <1>3, <1>4 DEF GetObject

\* One member; a sound archive has none that is refused.
LEMMA MemberKeeps == FactsInv /\ ReadMember => FactsInv'
<1> SUFFICES ASSUME FactsInv, ReadMember PROVE FactsInv'
  OBVIOUS
<1>1. PICK c \in Contents \cup {NoContent} : c = objects[pinned]
  BY DEF FactsInv, ReadMember
<1>2. PICK k \in Nat : k = reader.next - 1
  BY DEF FactsInv, Reader
<1> DEFINE m == c.members[k + 1]
           v == MemberVerdict(reader, m)
<1>3. /\ reader \in Reader /\ reader.next = k + 1 /\ k < Len(c.members)
      /\ MeasuredTo(reader, c.members, k) /\ m = c.members[reader.next]
  BY <1>1, <1>2, MembersTyped DEF FactsInv, ReadMember, Reader
<1>4. /\ fplace = "archive"
      /\ UNCHANGED <<fcall, source, target, objects, pinned, cut, inventory>>
  BY DEF ReadMember
<1>5. CASE Reply("unavailable") /\ UNCHANGED reader
  BY <1>4, <1>5 DEF Reply, FactsInv, NotFinished, FactsMeasured, SoundNotRefused
<1>6. CASE v \in {"invalid", "limit"} /\ Reply(v) /\ UNCHANGED reader
  <2>1. ~Sound(c)
    BY <1>3, <1>6, SoundAdmitted
  <2>2. \/ ~Sound(source.content)
        \/ \E i \in DOMAIN objects : objects[i] # source.content
    BY <1>1, <1>4, <2>1 DEF FactsInv
  <2> QED
    BY <1>4, <1>6, <2>2 DEF Reply, FactsInv, NotFinished, FactsMeasured, SoundNotRefused
<1>7. CASE v = "skip" /\ reader' = ReadHeader(reader, m) /\ Step("archive")
  <2>1. reader' \in Reader /\ reader'.next = k + 2 /\ MeasuredTo(reader', c.members, k + 1)
    BY <1>3, <1>7, DirectoryMeasured
  <2>2. reader'.next - 1 = k + 1 /\ k + 1 \in 0 .. Len(c.members)
    BY <1>3, <2>1, MembersTyped
  <2> QED
    BY <1>1, <1>4, <1>7, <2>1, <2>2
       DEF Step, FactsInv, NotFinished, FactsMeasured, SoundNotRefused
<1>8. CASE /\ v \notin {"invalid", "limit", "skip"}
           /\ m.name \in Captured /\ m.json = "bad"
           /\ Reply("invalid") /\ UNCHANGED reader
  <2>1. m.kind # "dir"
    <3>1. m.kind = "dir" => v \in {"invalid", "limit", "skip"}
      BY DEF MemberVerdict
    <3> QED
      BY <1>8, <3>1
  <2>2. ~Sound(c)
    BY <1>3, <1>8, <2>1, SoundAdmitted
  <2>3. \/ ~Sound(source.content)
        \/ \E i \in DOMAIN objects : objects[i] # source.content
    BY <1>1, <1>4, <2>2 DEF FactsInv
  <2> QED
    BY <1>4, <1>8, <2>3 DEF Reply, FactsInv, NotFinished, FactsMeasured, SoundNotRefused
<1>9. CASE /\ v \notin {"invalid", "limit", "skip"}
           /\ ~(m.name \in Captured /\ m.json = "bad")
           /\ reader' = ReadFile(reader, m) /\ Step("archive")
  <2>0. v = "read"
    BY <1>9 DEF MemberVerdict
  <2>1. reader' \in Reader /\ reader'.next = k + 2 /\ MeasuredTo(reader', c.members, k + 1)
    BY <1>3, <1>9, <2>0, FileMeasured
  <2>2. reader'.next - 1 = k + 1 /\ k + 1 \in 0 .. Len(c.members)
    BY <1>3, <2>1, MembersTyped
  <2> QED
    BY <1>1, <1>4, <1>9, <2>1, <2>2
       DEF Step, FactsInv, NotFinished, FactsMeasured, SoundNotRefused
<1> HIDE DEF v
<1>10. v = MemberVerdict(reader, objects[pinned].members[reader.next])
  BY <1>1, <1>3 DEF v
<1> QED
  BY <1>1, <1>3, <1>5, <1>6, <1>7, <1>8, <1>9, <1>10 DEF ReadMember
\* The answer at the end of the archive.
LEMMA EndKeeps == FactsInv /\ EndArchive => FactsInv'
<1> SUFFICES ASSUME FactsInv, EndArchive PROVE FactsInv'
  OBVIOUS
<1>1. PICK c \in Contents \cup {NoContent} : c = objects[pinned]
  BY DEF FactsInv, EndArchive
<1> DEFINE a == Decide(c)
<1>2. /\ fplace = "archive" /\ fplace' = "done" /\ fanswer' = a
      /\ inventory' = (IF a = "facts" THEN reader.files ELSE {})
      /\ UNCHANGED <<fcall, source, target, objects, pinned, cut, reader>>
  BY <1>1 DEF EndArchive, Reply
<1>3. /\ reader \in Reader /\ cut \in 1 .. SizeOf(c)
      /\ MeasuredTo(reader, c.members, Len(c.members))
  <2>1. /\ reader \in Reader /\ cut \in 1 .. SizeOf(c) /\ reader.next - 1 \in 0 .. Len(c.members)
        /\ MeasuredTo(reader, c.members, reader.next - 1)
    BY <1>1, <1>2 DEF FactsInv
  <2>2. reader.next - 1 = Len(c.members)
    BY <1>1, <2>1, MembersTyped DEF EndArchive, Reader
  <2> QED
    BY <2>1, <2>2
<1>4. a \in {"invalid", "limit", "unavailable", "facts"}
  BY DEF Decide
<1>5. FactsMeasured'
  <2> SUFFICES ASSUME a = "facts"
               PROVE  /\ Sound(source.content) /\ objects[pinned] = source.content
                      /\ reader.files = {m \in Range(source.content.members) : m.kind = "file"}
                      /\ fcall.client = "modeldev" /\ fcall.tenant = <<source.tenant>>
    BY <1>2 DEF FactsMeasured
  <2>1. /\ Sound(c) /\ c = source.content
        /\ reader.files = {m \in Range(c.members) : m.kind = "file"}
    BY <1>3, FactsSound
  <2>2. fcall.client = "modeldev" /\ fcall.tenant = <<Asserted(fcall)>>
    BY <1>2, GateOfFacts DEF FactsInv
  <2>3. source.tenant = Asserted(fcall)
    BY <1>2 DEF FactsInv
  <2> QED
    BY <1>1, <2>1, <2>2, <2>3
<1>6. SoundNotRefused'
  <2> SUFFICES ASSUME a \in {"invalid", "limit"}
               PROVE  ~Sound(source.content) \/ \E k \in DOMAIN objects : objects[k] # source.content
    BY <1>2 DEF SoundNotRefused
  <2>1. c = source.content => ~Sound(c)
    BY <1>3, SoundEnds
  <2> QED
    BY <1>1, <1>2, <2>1 DEF FactsInv
<1> HIDE DEF a
<1> QED
  BY <1>2, <1>4, <1>5, <1>6 DEF FactsInv, NotFinished

\* Deletions, uploads and the end of the budget come before an answer.
LEMMA MeanwhileKeeps ==
    FactsInv /\ (Expire \/ DeleteSource \/ \E c \in Contents : ReplaceObject(c)) => FactsInv'
<1> SUFFICES ASSUME FactsInv, Expire \/ DeleteSource \/ \E c \in Contents : ReplaceObject(c)
             PROVE  FactsInv'
  OBVIOUS
<1>1. CASE Expire
  BY <1>1 DEF Expire, Reply, FactsInv, NotFinished, FactsMeasured, SoundNotRefused
<1>2. CASE DeleteSource
  BY <1>2 DEF DeleteSource, FactsInv, NotFinished, FactsMeasured, SoundNotRefused
<1>3. ASSUME NEW c \in Contents, ReplaceObject(c) PROVE FactsInv'
  <2>1. /\ objects' = Append(objects, c) /\ fplace \notin {"gate", "done"}
        /\ UNCHANGED <<fcall, fplace, fanswer, source, target, pinned, cut, reader, inventory>>
    BY <1>3 DEF ReplaceObject
  <2>2. objects \in Seq(Contents \cup {NoContent}) /\ objects # <<>>
    BY DEF FactsInv
  <2>3. objects' \in Seq(Contents \cup {NoContent}) \ {<<>>}
    BY <2>1, <2>2
  <2>4. pinned \in DOMAIN objects => pinned \in DOMAIN objects' /\ objects'[pinned] = objects[pinned]
    BY <2>1, <2>2
  <2> QED
    BY <2>1, <2>3, <2>4 DEF FactsInv, NotFinished, FactsMeasured, SoundNotRefused
<1> QED
  BY <1>1, <1>2, <1>3

\* What is known at each place of a call for the facts of a version, and with it
\* the two properties of its answers.
THEOREM FactsInvariance == FactsSpec => []FactsInv
<1>1. FactsInv /\ [FactsNext]_fvars => FactsInv'
  <2> SUFFICES ASSUME FactsInv, [FactsNext]_fvars PROVE FactsInv'
    OBVIOUS
  <2>1. CASE Handling
    BY <2>1, CheckingKeeps, StatKeeps, GetKeeps, MemberKeeps, EndKeeps DEF Handling
  <2>2. CASE Expire \/ DeleteSource \/ \E c \in Contents : ReplaceObject(c)
    BY <2>2, MeanwhileKeeps
  <2>3. CASE UNCHANGED fvars
    BY <2>3 DEF fvars, FactsInv, FactsMeasured, SoundNotRefused
  <2> QED
    BY <2>1, <2>2, <2>3 DEF FactsNext
<1> QED
  BY <1>1, FactsStarts, PTL DEF FactsSpec

\* FactsMeasured: an answer with facts is about a sound archive, measured to its
\* last byte in one object version that holds what was registered, whatever was
\* deleted, replaced or cut off meanwhile (finetuning_facts.go of data/storage).
THEOREM FactsAreMeasured == FactsSpec => []FactsMeasured
<1>1. FactsInv => FactsMeasured
  BY DEF FactsInv
<1> QED
  BY <1>1, FactsInvariance, PTL

\* SoundNotRefused: a sound version that was not replaced is never answered as
\* invalid or beyond a limit (finetuning_facts.go:241-255).
THEOREM SoundIsNotRefused == FactsSpec => []SoundNotRefused
<1>1. FactsInv => SoundNotRefused
  BY DEF FactsInv
<1> QED
  BY <1>1, FactsInvariance, PTL
-----------------------------------------------------------------------------
\* The types of the five components.

\* Clock, Secret and mounted copy of an upload session keep their types from look to
\* look (kubernetes_executor.go:151-208), for any durations.
THEOREM UploadTyped == UploadSpec => []UploadTypeOK
<1>1. UploadInv => UploadTypeOK
  BY DEF UploadInv
<1> QED
  BY <1>1, UploadInvariance, PTL

LEMMA FactsTypeKept == FactsInv /\ FactsTypeOK /\ [FactsNext]_fvars => FactsTypeOK'
<1> SUFFICES ASSUME FactsInv, FactsTypeOK, [FactsNext]_fvars PROVE FactsTypeOK'
  OBVIOUS
<1> USE DEF FactsTypeOK
<1>1. Len(objects) \in Nat /\ objects \in Seq(Contents \cup {NoContent})
  BY DEF FactsInv
<1>2. ASSUME UNCHANGED <<fcall, source, objects, pinned>>, NEW a, Reply(a),
             a \in {"deadlineRequired", "unauthenticated", "health", "denied",
                    "otherTenant", "elsewhere", "notFound", "forbidden", "notReady", "conflict",
                    "limit", "unavailable", "invalid", "deadline", "facts"}
      PROVE  FactsTypeOK'
  BY <1>2 DEF Reply
<1>3. ASSUME UNCHANGED <<fcall, source, objects, pinned>>, NEW p, Step(p),
             p \in {"source", "owner", "target", "head", "archive"}
      PROVE  FactsTypeOK'
  BY <1>3 DEF Step
<1>4. CASE PassGate
  <2>1. GateVerdict(fcall) \in {"deadlineRequired", "unauthenticated", "health", "denied",
                                "otherTenant", "run"}
    BY DEF GateVerdict
  <2> QED
    BY <1>2, <1>3, <1>4, <2>1 DEF PassGate
<1>5. CASE ReadSource \/ ReadOwner \/ ReadTarget \/ Expire
  BY <1>2, <1>3, <1>5 DEF ReadSource, ReadOwner, ReadTarget, Expire
<1>6. CASE StatObject
  <2>1. CASE pinned' = pinned /\ (Reply("limit") \/ Reply("unavailable"))
    BY <1>2, <1>6, <2>1 DEF StatObject
  <2>2. CASE Step("get") /\ pinned' = Len(objects)
    BY <1>1, <1>6, <2>2 DEF StatObject, Step
  <2> QED
    BY <1>6, <2>1, <2>2 DEF StatObject
<1>7. CASE GetObject
  BY <1>2, <1>3, <1>7 DEF GetObject
<1>8. CASE ReadMember
  BY <1>2, <1>3, <1>8 DEF ReadMember
<1>9. CASE EndArchive
  <2>1. Decide(objects[pinned]) \in {"invalid", "limit", "unavailable", "facts"}
    BY DEF Decide
  <2> QED
    BY <1>2, <1>9, <2>1 DEF EndArchive
<1>10. CASE DeleteSource
  BY <1>10 DEF DeleteSource
<1>11. ASSUME NEW c \in Contents, ReplaceObject(c) PROVE FactsTypeOK'
  <2>1. Len(objects') = Len(objects) + 1
    BY <1>1, <1>11 DEF ReplaceObject
  <2> QED
    BY <1>1, <1>11, <2>1 DEF ReplaceObject
<1>12. CASE UNCHANGED fvars
  BY <1>12 DEF fvars
<1> QED
  BY <1>4, <1>5, <1>6, <1>7, <1>8, <1>9, <1>10, <1>11, <1>12 DEF FactsNext, Handling

\* Wherever the gate, the rows, the object or a member of the archive end a call for
\* facts, its answer is one of those the API has, and the object version it has pinned
\* is one that was stored (finetuning_facts.go:51-317), for archives of any length.
THEOREM FactsTyped == FactsSpec => []FactsTypeOK
<1>1. FactsInit => FactsTypeOK
  BY FactsStarts DEF FactsInit, FactsInv, FactsTypeOK
<1> QED
  BY <1>1, FactsTypeKept, FactsInvariance, PTL DEF FactsSpec

\* Also where the rounding overflows, a volume stays within the width.
LEMMA UnitsTyped ==
    ASSUME NEW n \in 1 .. MaxInt
    PROVE  InUnits(n) \in -(MaxInt + 1) .. MaxInt
<1> DEFINE sum == n + Unit - 1
           wrapped == Wrap(sum)
<1>1. MaxInt \in Nat /\ Unit \in Nat \ {0} /\ Unit <= MaxInt
  BY VolumeEstimateAssumption
<1>2. sum \in Int /\ 1 <= sum /\ sum <= 2 * MaxInt
  BY <1>1
<1> HIDE DEF sum
<1>3. wrapped \in Int /\ -(MaxInt + 1) <= wrapped /\ wrapped <= MaxInt
  BY <1>1, <1>2 DEF Wrap
<1> HIDE DEF wrapped
<1>4. ASSUME NEW m \in Nat PROVE m \div Unit \in Nat /\ m \div Unit <= m
  BY <1>1
<1>5. Divided(wrapped) \in -(MaxInt + 1) .. MaxInt
  <2>1. CASE wrapped < 0
    <3>1. -wrapped \in Nat /\ -wrapped <= MaxInt + 1
      BY <1>1, <1>3, <2>1
    <3>2. (-wrapped) \div Unit \in Nat /\ (-wrapped) \div Unit <= -wrapped
      BY <1>4, <3>1
    <3> QED
      BY <1>1, <2>1, <3>1, <3>2 DEF Divided
  <2>2. CASE wrapped >= 0
    <3>1. wrapped \in Nat
      BY <1>3, <2>2
    <3>2. wrapped \div Unit \in Nat /\ wrapped \div Unit <= wrapped
      BY <1>4, <3>1
    <3> QED
      BY <1>1, <1>3, <2>2, <3>2 DEF Divided
  <2> QED
    BY <1>3, <2>1, <2>2
<1> QED
  BY <1>5 DEF wrapped, sum, InUnits

LEMMA EstimateTypeKept ==
    EstimateInv /\ EstimateTypeOK /\ [EstimateVolume]_evars => EstimateTypeOK'
<1> SUFFICES ASSUME EstimateInv, EstimateTypeOK, EstimateVolume PROVE EstimateTypeOK'
  BY DEF EstimateTypeOK, evars
<1>1. CASE volume' = volume
  BY <1>1 DEF EstimateVolume, EstimateTypeOK
<1>2. CASE /\ Total > 0 /\ Total <= MaxInt - Headroom(Total)
           /\ eplace' = "claimed" /\ volume' = InUnits(Total + Headroom(Total))
  <2>1. MaxInt \in Nat /\ MinHeadroom \in Nat /\ Total \in Int
    BY EstimateExact, VolumeEstimateAssumption DEF EstimateInv
  <2>2. Headroom(Total) \in Nat
    BY <1>2, <2>1 DEF Headroom
  <2>3. Total + Headroom(Total) \in 1 .. MaxInt
    BY <1>2, <2>1, <2>2
  <2> QED
    BY <1>2, <2>3, UnitsTyped DEF EstimateTypeOK
<1>3. Total \in Int /\ MaxInt - Headroom(Total) \in Int
  <2>1. MaxInt \in Nat /\ MinHeadroom \in Nat /\ Total \in Int
    BY EstimateExact, VolumeEstimateAssumption DEF EstimateInv
  <2> QED
    BY <2>1 DEF Headroom
<1> QED
  BY <1>1, <1>2, <1>3 DEF EstimateVolume

\* The size of a volume is an integer of its width, though rounding may wrap it round
\* (kubernetes_executor.go:372-394), for manifests of any length and any sizes.
THEOREM EstimateTyped == EstimateSpec => []EstimateTypeOK
<1>1. EstimateInit => EstimateTypeOK
  <2>1. 0 \in -(MaxInt + 1) .. MaxInt
    BY VolumeEstimateAssumption
  <2> QED
    BY <2>1 DEF EstimateInit, EstimateTypeOK
<1> QED
  BY <1>1, EstimateTypeKept, EstimateInvariance, PTL DEF EstimateSpec

\* Every place of a list has its row.
LEMMA RowOfPlace ==
    ASSUME NEW S, S \subseteq Nat, IsFiniteSet(S)
    PROVE  Cardinality(S) \in Nat /\ \A i \in 1 .. Cardinality(S) : Newest(S)[i] \in S
<1> DEFINE n == Cardinality(S)
           place == [r \in S |-> Cardinality(Before(r, S))]
<1>1. n \in Nat /\ IsFiniteSet(0 .. n - 1) /\ Cardinality(0 .. n - 1) = n
  <2>1. n \in Nat
    BY FS_CardinalityType
  <2> HIDE DEF n
  <2>2. /\ IsFiniteSet(0 .. n - 1)
        /\ Cardinality(0 .. n - 1) = IF 0 > n - 1 THEN 0 ELSE (n - 1) - 0 + 1
    <3>1. 0 \in Int /\ n - 1 \in Int
      BY <2>1
    <3> QED
      BY <3>1, FS_Interval
  <2> QED
    BY <2>1, <2>2
<1>2. place \in [S -> 0 .. n - 1]
  <2>1. ASSUME NEW r \in S PROVE Cardinality(Before(r, S)) \in 0 .. n - 1
    <3>1. Cardinality(Before(r, S)) \in Nat /\ Cardinality(Before(r, S)) < n
      BY PlaceOfRow
    <3> QED
      BY <1>1, <3>1
  <2> QED
    BY <2>1
<1>3. ASSUME NEW r \in S, NEW q \in S, place[r] = place[q] PROVE r = q
  <2>1. r \in Nat /\ q \in Nat /\ Cardinality(Before(r, S)) \in Nat
    BY PlaceOfRow
  <2>2. Cardinality(Before(r, S)) = Cardinality(Before(q, S))
    BY <1>3
  <2>3. r < q => Cardinality(Before(r, S)) < Cardinality(Before(q, S))
    BY PlacesDiffer
  <2>4. q < r => Cardinality(Before(q, S)) < Cardinality(Before(r, S))
    BY PlacesDiffer
  <2> QED
    BY <2>1, <2>2, <2>3, <2>4
<1> HIDE DEF n
<1>4. place \in Surjection(S, 0 .. n - 1)
  <2> HIDE DEF place
  <2>1. place \in Injection(S, 0 .. n - 1)
    BY <1>2, <1>3 DEF Injection, IsInjective
  <2> QED
    BY <1>1, <2>1, FS_Injection DEF n
<1>5. ASSUME NEW i \in 1 .. n PROVE Newest(S)[i] \in S
  <2>1. i - 1 \in 0 .. n - 1
    BY <1>1
  <2>2. \E r \in S : place[r] = i - 1
    <3> HIDE DEF place
    <3> QED
      BY <1>4, <2>1 DEF Surjection
  <2>3. \E r \in S : Cardinality(Before(r, S)) = i - 1
    BY <2>2
  <2>4. Newest(S)[i] = CHOOSE r \in S : Cardinality(Before(r, S)) = i - 1
    BY DEF Newest, n
  <2> QED
    BY <2>3, <2>4
<1> QED
  BY <1>1, <1>5 DEF n

\* An answer is a sequence of rows.
LEMMA PageTyped ==
    ASSUME NEW S, S \subseteq Nat, IsFiniteSet(S), NEW T, S \subseteq T,
           NEW offset \in Nat, NEW n \in Nat
    PROVE  Slice(Newest(S), offset, n) \in Seq(T)
<1> DEFINE count == Cardinality(S)
           top == IF offset + n < count THEN offset + n ELSE count
<1>1. count \in Nat /\ \A i \in 1 .. count : Newest(S)[i] \in S
  BY RowOfPlace
<1>2. Len(Newest(S)) = count
  BY <1>1 DEF Newest
<1>3. Slice(Newest(S), offset, n) = SubSeq(Newest(S), offset + 1, top)
  BY <1>2 DEF Slice
<1>4. top \in Int /\ top <= count /\ offset + 1 \in Int
  BY <1>1
<1> HIDE DEF top, count
<1>5. \A i \in offset + 1 .. top : i \in 1 .. count
  BY <1>1, <1>4
<1>6. \A i \in offset + 1 .. top : Newest(S)[i] \in T
  BY <1>1, <1>5
<1> QED
  BY <1>3, <1>4, <1>6, SubSeqProperties

LEMMA ListTypeKept == ListInv /\ ListTypeOK /\ ListInv' /\ [ListNext]_lvars => ListTypeOK'
<1> SUFFICES ASSUME ListInv, ListInv', ListTypeOK, [ListNext]_lvars PROVE ListTypeOK'
  OBVIOUS
<1> USE DEF ListTypeOK
<1>1. ASSUME UNCHANGED <<rows, used, size, number, items, failures>>, total' \in Nat,
             lplace' \in {"ask", "count", "list", "answered", "refused", "notFound", "finished"}
      PROVE  ListTypeOK'
  BY <1>1
<1>2. CASE AskList \/ UNCHANGED lvars
  BY <1>1, <1>2 DEF AskList, lvars
<1>3. CASE ReadCount
  <2>1. snapshot' \subseteq ListRows /\ total' = Cardinality(snapshot')
    BY <1>3 DEF ReadCount, ListInv
  <2>2. total' \in Nat
    BY <2>1, RowsFinite
  <2> QED
    BY <1>1, <1>3, <2>2 DEF ReadCount
<1>4. CASE ReadRows
  <2>1. CASE items' = items
    BY <1>1, <1>4, <2>1 DEF ReadRows
  <2>2. CASE lplace' = "answered"
    <3>1. items' = Slice(Newest(snapshot'), Offset(number', size'), size')
      BY <2>2 DEF ListInv
    <3>2. snapshot' = snapshot /\ number' = number /\ size' = size
      BY <1>4 DEF ReadRows
    <3>3. size \in Nat /\ Offset(number, size) \in Nat
      BY OffsetTyped
    <3>4. snapshot \subseteq ListRows /\ snapshot \subseteq Nat /\ IsFiniteSet(snapshot)
      BY RowsFinite DEF ListInv
    <3>5. items' \in Seq(ListRows)
      BY <3>1, <3>2, <3>3, <3>4, PageTyped
    <3> QED
      BY <1>4, <2>2, <3>5 DEF ReadRows
  <2> QED
    BY <1>4, <2>1, <2>2 DEF ReadRows
<1>5. CASE ReadFails
  <2>1. failures' \in 0 .. MaxRetries
    BY <1>5, ListPagesAssumption DEF ReadFails
  <2> QED
    BY <1>5, <2>1 DEF ReadFails
<1>6. CASE TakePage
  <2>1. number' \in Nat \ {0}
    BY DEF ListInv
  <2> QED
    BY <1>6, <2>1 DEF TakePage
<1>7. ASSUME NEW r \in ListRows, RowEnters(r) \/ RowLeaves(r) PROVE ListTypeOK'
  BY <1>7 DEF RowEnters, RowLeaves
<1>8. CASE ParentDeleted
  BY <1>8 DEF ParentDeleted
<1> QED
  BY <1>2, <1>3, <1>4, <1>5, <1>6, <1>7, <1>8 DEF ListNext, Reading

\* The total of a list is a number of rows and its items are rows (model_store.go:102-135),
\* whatever rows come and go and however often a query fails.
THEOREM ListTyped == ListSpec => []ListTypeOK
<1>1. ListInit => ListTypeOK
  BY ListPagesAssumption DEF ListInit, ListTypeOK
<1> QED
  BY <1>1, ListTypeKept, ListInvariance, PTL DEF ListSpec


\* Leaving items out keeps a sequence of them one.
LEMMA NamedTyped ==
    ASSUME NEW S, NEW s \in Seq(S)
    PROVE  Named(s) \in Seq(S)
<1> DEFINE n == Len(s)
           keep == [k \in 1 .. n |-> [t \in Seq(S) |-> IF s[k] \in nameless THEN t
                                                     ELSE Append(t, s[k])]]
           Kept == CHOOSE f : f = [k \in 0 .. n |-> IF k = 0 THEN <<>>
                                                  ELSE IF s[k] \in nameless THEN f[k - 1]
                                                  ELSE Append(f[k - 1], s[k])]
<1>1. n \in Nat /\ <<>> \in Seq(S) /\ \A k \in 1 .. n : s[k] \in S
  OBVIOUS
<1>2. keep \in [1 .. n -> [Seq(S) -> Seq(S)]]
  BY <1>1
<1>3. PICK g : Recurrence(n, Seq(S), <<>>, keep, g)
  <2>1. keep \in Steps(n, Seq(S))
    BY <1>2 DEF Steps
  <2> HIDE DEF keep, n
  <2> QED
    BY <1>1, <2>1, Recursion
<1>4. g \in [0 .. n -> Seq(S)] /\ g[0] = <<>> /\ \A k \in 1 .. n : g[k] = keep[k][g[k - 1]]
  BY <1>3 DEF Recurrence
<1>5. ASSUME NEW k \in 1 .. n
      PROVE  g[k] = IF s[k] \in nameless THEN g[k - 1] ELSE Append(g[k - 1], s[k])
  <2>1. k - 1 \in 0 .. n
    BY <1>1
  <2>2. g[k - 1] \in Seq(S)
    BY <1>4, <2>1
  <2>3. g[k] = keep[k][g[k - 1]]
    BY <1>4
  <2> QED
    BY <2>2, <2>3
<1>6. g = [k \in 0 .. n |-> IF k = 0 THEN <<>>
                           ELSE IF s[k] \in nameless THEN g[k - 1] ELSE Append(g[k - 1], s[k])]
  <2> DEFINE value(k) == IF k = 0 THEN <<>>
                         ELSE IF s[k] \in nameless THEN g[k - 1] ELSE Append(g[k - 1], s[k])
  <2>1. ASSUME NEW k \in 0 .. n PROVE g[k] = value(k)
    <3>1. CASE k = 0
      BY <1>4, <3>1
    <3>2. CASE k # 0
      <4>1. k \in 1 .. n
        BY <1>1, <3>2
      <4> QED
        BY <1>5, <3>2, <4>1
    <3> QED
      BY <3>1, <3>2
  <2>2. g = [k \in 0 .. n |-> g[k]]
    BY <1>4
  <2> HIDE DEF value
  <2>3. g = [k \in 0 .. n |-> value(k)]
    BY <2>1, <2>2
  <2> QED
    BY <2>3 DEF value
<1>7. Kept = [k \in 0 .. n |-> IF k = 0 THEN <<>>
                              ELSE IF s[k] \in nameless THEN Kept[k - 1]
                              ELSE Append(Kept[k - 1], s[k])]
  BY <1>6
<1>8. Named(s) = Kept[n]
  BY DEF Named
<1> HIDE DEF Kept, keep
<1>9. ASSUME NEW k \in Nat PROVE k <= n => Kept[k] \in Seq(S)
  <2> DEFINE typed == {i \in Nat : i <= n => Kept[i] \in Seq(S)}
  <2>1. 0 \in typed
    BY <1>1, <1>7
  <2>2. ASSUME NEW i \in Nat, i \in typed PROVE i + 1 \in typed
    <3> SUFFICES ASSUME i + 1 <= n PROVE Kept[i + 1] \in Seq(S)
      OBVIOUS
    <3>1. i + 1 \in 0 .. n /\ i + 1 # 0 /\ (i + 1) - 1 = i /\ Kept[i] \in Seq(S)
      BY <1>1, <2>2
    <3>2. Kept[i + 1] = IF s[i + 1] \in nameless THEN Kept[i] ELSE Append(Kept[i], s[i + 1])
      BY <1>7, <3>1
    <3> QED
      BY <1>1, <3>1, <3>2
  <2> HIDE DEF typed
  <2>3. k \in typed
    BY <2>1, <2>2, Induction
  <2> QED
    BY <2>3 DEF typed
<1> QED
  BY <1>1, <1>8, <1>9

LEMMA ResultsTyped ==
    ASSUME NEW n \in Nat \ {0}
    PROVE  Results(n) \in Seq(Range(Catalogue))
<1> DEFINE from == (n - 1) * PageSize + 1
           top == IF n * PageSize < Len(Catalogue) THEN n * PageSize ELSE Len(Catalogue)
<1>1. PageSize \in Nat /\ Len(Catalogue) \in Nat /\ DOMAIN Catalogue = 1 .. Len(Catalogue)
  BY ProviderSearchAssumption
<1>2. from \in Nat \ {0}
  <2>1. (n - 1) * PageSize \in Nat
    BY <1>1, PagePositions
  <2> QED
    BY <2>1
<1>3. top \in Int /\ top <= Len(Catalogue)
  <2>1. n * PageSize \in Nat
    BY <1>1, PagePositions
  <2> QED
    BY <1>1, <2>1
<1> HIDE DEF from, top
<1>4. \A i \in from .. top : i \in DOMAIN Catalogue
  BY <1>1, <1>2, <1>3
<1>5. \A i \in from .. top : Catalogue[i] \in Range(Catalogue)
  BY <1>4 DEF Range
<1>6. SubSeq(Catalogue, from, top) \in Seq(Range(Catalogue))
  BY <1>2, <1>3, <1>5, SubSeqProperties
<1> QED
  BY <1>6 DEF Results, from, top

\* A page that was accepted is one of the pages of a search.
PageInRange == splace \in {"follow", "fetch"} => page <= MaxPage

LEMMA AnswerTyped ==
    ASSUME SearchTypeOK, PageInRange, splace \in {"follow", "fetch"},
           UNCHANGED <<provider, counted, nameless, first, hop, cursor, errors>>,
           NEW items0 \in Seq(Range(Catalogue)), NEW more \in BOOLEAN, AnswerPage(items0, more)
    PROVE  SearchTypeOK' /\ PageInRange'
<1>1. MaxPage \in Nat \ {0}
  BY ProviderSearchAssumption
<1>2. shown' \in Seq(Range(Catalogue))
  BY ConcatProperties DEF AnswerPage, SearchTypeOK
<1>3. page \in Nat \ {0} /\ page <= MaxPage
  BY <1>1 DEF SearchTypeOK, PageInRange
<1>4. /\ page' \in 1 .. MaxPage + 1 /\ hop' \in 1 .. page' /\ cursor' \in 0 .. page'
      /\ splace' \in {"caller", "done"}
  BY <1>1, <1>3 DEF AnswerPage, SearchTypeOK
<1> QED
  BY <1>2, <1>4 DEF SearchTypeOK, PageInRange

LEMMA SearchTypeKept ==
    SearchTypeOK /\ PageInRange /\ [SearchNext]_svars => SearchTypeOK' /\ PageInRange'
<1> SUFFICES ASSUME SearchTypeOK, PageInRange, [SearchNext]_svars
             PROVE  SearchTypeOK' /\ PageInRange'
  OBVIOUS
<1>1. MaxPage \in Nat \ {0} /\ MaxErrors \in Nat /\ page \in Nat \ {0} /\ page <= MaxPage + 1
  BY ProviderSearchAssumption DEF SearchTypeOK
<1>2. CASE AskPage
  <2>1. hop' \in 1 .. page /\ cursor' \in 0 .. page
    BY <1>1, <1>2 DEF AskPage
  <2>2. /\ splace' \in {"refused", "follow", "fetch"}
        /\ splace' \in {"follow", "fetch"} => page <= MaxPage
    BY <1>1, <1>2 DEF AskPage
  <2> QED
    BY <1>2, <2>1, <2>2 DEF AskPage, SearchTypeOK, PageInRange
<1>3. CASE FollowCursor
  <2>1. CASE AnswerPage(<<>>, FALSE) /\ UNCHANGED <<hop, cursor>>
    <3>1. <<>> \in Seq(Range(Catalogue)) /\ FALSE \in BOOLEAN
      OBVIOUS
    <3>2. splace = "follow" /\ UNCHANGED <<provider, counted, nameless, first, hop, cursor, errors>>
      BY <1>3, <2>1 DEF FollowCursor
    <3>3. \A found \in Seq(Range(Catalogue)), more \in BOOLEAN :
              AnswerPage(found, more) => SearchTypeOK' /\ PageInRange'
      BY <3>2, AnswerTyped
    <3> HIDE DEF AnswerPage
    <3> QED
      BY <2>1, <3>1, <3>3
  <2>2. CASE hop' = hop + 1 /\ cursor' = hop /\ UNCHANGED <<shown, splace, page>>
    <3>1. hop < page
      BY <1>3 DEF FollowCursor
    <3>2. hop' \in 1 .. page /\ cursor' \in 0 .. page
      BY <1>1, <2>2, <3>1 DEF SearchTypeOK
    <3> QED
      BY <1>3, <2>2, <3>2 DEF FollowCursor, SearchTypeOK, PageInRange
  <2> QED
    BY <1>3, <2>1, <2>2 DEF FollowCursor
<1>4. CASE FollowedCursor
  BY <1>4 DEF FollowedCursor, SearchTypeOK, PageInRange
<1>5. CASE FetchHuggingFace
  <2>1. CASE AnswerPage(Results(cursor + 1), Linked(cursor + 1))
    <3>1. cursor + 1 \in Nat \ {0} /\ Linked(cursor + 1) \in BOOLEAN
      BY <1>1 DEF SearchTypeOK, Linked
    <3>2. Results(cursor + 1) \in Seq(Range(Catalogue))
      BY <3>1, ResultsTyped
    <3> QED
      BY <1>5, <2>1, <3>1, <3>2, AnswerTyped DEF FetchHuggingFace
  <2>2. CASE splace' = "failed" /\ UNCHANGED <<shown, page>>
    BY <1>5, <2>2 DEF FetchHuggingFace, SearchTypeOK, PageInRange
  <2> QED
    BY <1>5, <2>1, <2>2 DEF FetchHuggingFace
<1>6. CASE FetchModelScope
  <2>1. Named(Results(RequestedPage)) \in Seq(Range(Catalogue))
    BY ResultsTyped, NamedTyped DEF RequestedPage
  <2>2. PICK found \in Seq(Range(Catalogue)), more \in BOOLEAN : AnswerPage(found, more)
    BY <1>6, <2>1 DEF FetchModelScope, Linked
  <2>3. splace = "fetch" /\ UNCHANGED <<provider, counted, nameless, first, hop, cursor, errors>>
    BY <1>6 DEF FetchModelScope
  <2> QED
    BY <2>2, <2>3, AnswerTyped
<1>7. CASE ProviderFails
  <2>1. errors' \in 0 .. MaxErrors
    BY <1>1, <1>7 DEF ProviderFails, SearchTypeOK
  <2> QED
    BY <1>7, <2>1 DEF ProviderFails, SearchTypeOK, PageInRange
<1>8. CASE UNCHANGED svars
  BY <1>8 DEF svars, SearchTypeOK, PageInRange
<1> QED
  BY <1>2, <1>3, <1>4, <1>5, <1>6, <1>7, <1>8 DEF SearchNext, Searching

\* A search never follows more pages than the one that is asked for has before it, its
\* cursor stays among them, and it shows only results of the catalogue
\* (http_source.go:283-460), for any catalogue and any page size.
THEOREM SearchTyped == SearchSpec => []SearchTypeOK
<1>1. SearchInit => SearchTypeOK /\ PageInRange
  <2> SUFFICES ASSUME SearchInit PROVE SearchTypeOK /\ PageInRange
    OBVIOUS
  <2>1. MaxPage \in Nat \ {0} /\ MaxErrors \in Nat
    BY ProviderSearchAssumption
  <2>2. first \in 1 .. MaxPage + 1 /\ page = first /\ hop = 1 /\ cursor = 0 /\ errors = 0
    BY DEF SearchInit
  <2>3. /\ page \in 1 .. MaxPage + 1 /\ hop \in 1 .. page /\ cursor \in 0 .. page
        /\ errors \in 0 .. MaxErrors
    BY <2>1, <2>2
  <2> QED
    BY <2>2, <2>3 DEF SearchInit, SearchTypeOK, PageInRange
<1> QED
  BY <1>1, SearchTypeKept, PTL DEF SearchSpec
=============================================================================
