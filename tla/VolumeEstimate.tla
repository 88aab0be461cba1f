---------------------------- MODULE VolumeEstimate ----------------------------
(***************************************************************************)
(* How large a volume an import Job gets: the manifest of the provider     *)
(* (ListFiles in internal/data/importer/http_source.go), the estimate and  *)
(* its rounding (internal/worker/kubernetes_executor.go).  Sizes are       *)
(* integers of a small width in place of int64; MaxInt, Unit and           *)
(* MinHeadroom stand for 2^63-1, 1 GiB and 10 GiB.                         *)
(***************************************************************************)
EXTENDS Integers, Sequences, Sums

CONSTANTS
    MaxInt,      \* the largest size
    Unit,        \* what a volume is counted in
    MinHeadroom, \* the least headroom
    Manifests,   \* the manifests a provider may send, see Entry
    Absent       \* no size in an entry of a manifest

Paths == {"file", "other", ""}
Entry == [path : Paths, size : (-(MaxInt + 1) .. MaxInt) \cup {Absent}, tree : BOOLEAN]

ASSUME VolumeEstimateAssumption ==
    /\ MaxInt \in Nat /\ Unit \in 1 .. MaxInt /\ MinHeadroom \in Nat /\ MinHeadroom <= MaxInt
    /\ Absent \notin Int
    /\ \A m \in Manifests : m \in Seq(Entry)

VARIABLES
    host,     \* the provider
    manifest, \* what it sends
    wanted,   \* the file the task asks for, "" for all
    eplace,   \* where the estimate is
    volume    \* units of the claim

evars == <<host, manifest, wanted, eplace, volume>>

EstimateInit ==
    /\ host \in {"huggingface", "modelscope"}
    /\ manifest \in Manifests
    /\ wanted \in {"", "file"}
    /\ eplace = "manifest" /\ volume = 0
-----------------------------------------------------------------------------
\* ListFiles drops entries without a path, and directories of ModelScope; a size
\* that is not there is -1 for Hugging Face and 0 for ModelScope.
Listed(e) == e.path # "" /\ (host = "modelscope" => ~e.tree)
SizeRead(e) == IF e.size # Absent THEN e.size ELSE IF host = "huggingface" THEN -1 ELSE 0

Counts(e) == Listed(e) /\ (wanted # "" => e.path = wanted)

\* Sums of the width wrap around.
Wrap(n) == IF n > MaxInt THEN n - 2 * (MaxInt + 1) ELSE n

\* Mutant of AddFile: the sum is not checked.
AddFileWrapping(total, e) ==
    IF SizeRead(e) < 0 \/ SizeRead(e) > MaxInt - MinHeadroom THEN -1
    ELSE Wrap(total + SizeRead(e))

\* One file added to the sum; -1 when the estimate is given up.
AddFile(total, e) ==
    IF \/ total < 0
       \/ SizeRead(e) < 0 \/ SizeRead(e) > MaxInt - MinHeadroom
       \/ total > MaxInt - SizeRead(e)
    THEN -1
    ELSE total + SizeRead(e)

\* The sum after each entry, and in the end.
Estimated ==
    LET after[k \in 0 .. Len(manifest)] ==
            IF k = 0 THEN 0
            ELSE IF Counts(manifest[k]) THEN AddFile(after[k - 1], manifest[k]) ELSE after[k - 1]
    IN after
Total == Estimated[Len(manifest)]

Headroom(total) == IF total \div 5 < MinHeadroom THEN MinHeadroom ELSE total \div 5

\* The division rounds towards zero.
Divided(n) == IF n < 0 THEN -((-n) \div Unit) ELSE n \div Unit

\* storageQuantity
InUnits(bytes) == Divided(Wrap(bytes + Unit - 1))

EstimateVolume ==
    /\ eplace = "manifest"
    /\ IF Total <= 0 \/ Total > MaxInt - Headroom(Total)
       THEN eplace' = "refused" /\ UNCHANGED volume
       ELSE eplace' = "claimed" /\ volume' = InUnits(Total + Headroom(Total))
    /\ UNCHANGED <<host, manifest, wanted>>

EstimateSpec == EstimateInit /\ [][EstimateVolume]_evars
-----------------------------------------------------------------------------
EstimateTypeOK ==
    /\ eplace \in {"manifest", "refused", "claimed"}
    /\ volume \in -(MaxInt + 1) .. MaxInt

\* The sum and the headroom in unbounded numbers.
Sizes == {i \in DOMAIN manifest : Counts(manifest[i]) /\ manifest[i].size # Absent}
KnownSizes == [i \in DOMAIN manifest |-> IF i \in Sizes THEN manifest[i].size ELSE 0]
TrueTotal == SumOf(KnownSizes)
Needed == TrueTotal + (IF TrueTotal \div 5 < MinHeadroom THEN MinHeadroom ELSE TrueTotal \div 5)
Unknown == \E i \in DOMAIN manifest : Counts(manifest[i]) /\ manifest[i].size = Absent

\* A volume that a cluster accepts, which is a positive one, holds every file of
\* known size and the headroom, whatever sizes the provider claims: no overflow
\* makes it too small (kubernetes_executor.go:347-384).  And what fits the width
\* with its headroom gets a volume, less than one unit larger than needed; only the
\* last unit below the largest size is lost to the rounding.
VolumeFits ==
    /\ eplace = "claimed" /\ volume > 0 =>
          /\ volume * Unit >= Needed
          /\ host = "huggingface" => ~Unknown
    /\ /\ eplace # "manifest"
       /\ ~Unknown /\ TrueTotal > 0
       /\ \A i \in Sizes : manifest[i].size \in 0 .. MaxInt - MinHeadroom
       /\ Needed <= MaxInt - Unit + 1
       => eplace = "claimed" /\ volume * Unit - Needed \in 0 .. Unit - 1

\* The strengthening: what the estimate decided, and from which sum.
EstimateInv ==
    /\ host \in {"huggingface", "modelscope"} /\ manifest \in Manifests
    /\ eplace \in {"manifest", "refused", "claimed"}
    /\ eplace = "claimed" => /\ Total > 0 /\ Total <= MaxInt - Headroom(Total)
                             /\ volume = InUnits(Total + Headroom(Total))
    /\ eplace = "refused" => Total <= 0 \/ Total > MaxInt - Headroom(Total)
=============================================================================
