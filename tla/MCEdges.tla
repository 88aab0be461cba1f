------------------------------- MODULE MCEdges -------------------------------
(***************************************************************************)
(* Five components that share no state, explored one at a time in one run: *)
(* every behaviour is one of one of them, while the others are parked at   *)
(* their end, where none of their actions is enabled.                      *)
(***************************************************************************)
EXTENDS FinetuningFacts, ProviderSearch, VolumeEstimate, UploadSession, ListPages

CONSTANTS ta, tb, i1, i2, i3, i4, i5
-----------------------------------------------------------------------------
\* The calls and the archives of the fine-tuning facts.
F(name, bytes) == [name |-> name, kind |-> "file", size |-> bytes, json |-> "object", refs |-> {}]
Config == F("config.json", 1)
Tokenizer == F("tokenizer_config.json", 1)
Weights == F("model.safetensors", 2)
Index == [F("model.safetensors.index.json", 1) EXCEPT !.refs = {"a.safetensors", "b.safetensors"}]
ShardA == F("a.safetensors", 1)
ShardB == F("b.safetensors", 1)
Directory == [F("sub", 0) EXCEPT !.kind = "dir"]

Archive(members) == [members |-> members, tail |-> "zeros"]

MCContents ==
    {Archive(<<Config, Tokenizer, Weights>>),
     Archive(<<Directory, Index, ShardB, Config, ShardA, Tokenizer>>),
     [Archive(<<Config, Tokenizer, Weights>>) EXCEPT !.tail = "junk"],
     Archive(<<Config, Tokenizer, Index, ShardA>>),
     Archive(<<Config, Tokenizer, Weights, ShardA>>),
     Archive(<<Config, Config, Tokenizer, Weights>>),
     Archive(<<[Config EXCEPT !.json = "value"], Tokenizer, Weights>>),
     Archive(<<[Config EXCEPT !.json = "bad"], Tokenizer, Weights>>),
     Archive(<<Config, [Tokenizer EXCEPT !.kind = "link", !.size = 0], Weights>>),
     Archive(<<Config, Tokenizer, [Weights EXCEPT !.kind = "corrupt"]>>),
     Archive(<<Config, Tokenizer, F("../outside", 0), Weights>>),
     Archive(<<Config, F("tokenizer_config.json", 3), Weights>>),
     Archive(<<Config, Tokenizer, F("model.safetensors", 6)>>),
     Archive(<<Config, Tokenizer, Weights, F("a", 0), F("b", 0), F("c", 0), F("d", 0)>>),
     Archive(<<Config, Tokenizer, F("model.safetensors", 9)>>),
     Archive(<<Weights, Tokenizer>>)}

FactsCall ==
    [client |-> "modeldev", method |-> "ResolveFinetuningFacts", deadline |-> FALSE,
     tenant |-> <<ta>>, alias |-> <<>>, actor |-> "modeldev", asked |-> NoTenant]

MCFactsCalls ==
    {[FactsCall EXCEPT !.client = c] : c \in Clients \cup {"other", "nobody"}}
    \cup {[FactsCall EXCEPT !.method = m] : m \in Methods}
    \cup {[FactsCall EXCEPT !.asked = t] : t \in {ta, tb}}
    \cup {[FactsCall EXCEPT !.tenant = t] : t \in {<<>>, <<tb>>, <<ta, tb>>}}
    \cup {[FactsCall EXCEPT !.actor = a] : a \in {"governance", "absent"}}
    \cup {[FactsCall EXCEPT !.client = "governance", !.actor = "governance",
                            !.method = "SearchExternalModels"],
          [FactsCall EXCEPT !.client = "inference", !.alias = <<tb>>, !.method = "GetModel"],
          [FactsCall EXCEPT !.client = "inference", !.alias = <<ta>>, !.method = "GetModel"]}

\* Five results; the second or the fourth may come without a repository.
MCCatalogue == <<i1, i2, i3, i4, i5>>
MCIncomplete == {{}, {i2}, {i4}}

\* Manifests of at most two entries with sizes around every limit, some of them
\* with an entry that is left out, and sums of three.
ManifestSizes == {Absent, -5, 0, 1, 19, 60, 87, 100, 106, 107, 108, 127}
MCManifests ==
    LET file(s) == [path |-> "file", size |-> s, tree |-> FALSE]
        others == {[path |-> "other", size |-> s, tree |-> FALSE] : s \in ManifestSizes}
                  \cup {[path |-> p, size |-> 5, tree |-> TRUE] : p \in {"file", "other", ""}}
    IN {<<>>} \cup {<<file(s)>> : s \in ManifestSizes}
       \cup {<<file(s), o>> : s \in ManifestSizes, o \in others}
       \cup {<<file(s), file(t), file(60)>> : s, t \in ManifestSizes}
-----------------------------------------------------------------------------
FactsParked ==
    /\ fcall = FactsCall /\ fplace = "done" /\ fanswer = NotFinished
    /\ source = [tenant |-> ta, status |-> "deleted", content |-> Archive(<<Config, Tokenizer, Weights>>)]
    /\ target = "none" /\ objects = <<>> /\ pinned = 0 /\ cut = 0
    /\ reader = StartOfArchive /\ inventory = {}
SearchParked ==
    /\ provider = "modelscope" /\ counted = FALSE /\ nameless = {} /\ first = 1 /\ page = 1 /\ splace = "done"
    /\ cursor = 0 /\ hop = 1 /\ shown = <<>> /\ errors = 0
EstimateParked ==
    /\ host = "modelscope" /\ manifest = <<>> /\ wanted = "" /\ eplace = "refused" /\ volume = 0
UploadParked ==
    /\ now = MaxTime /\ watch = FALSE /\ annotated = FALSE /\ signed = 0 /\ mounted = 0
    /\ changed = 0 /\ nextLook = 0 /\ upload = "expired" /\ covered = FALSE
ListParked ==
    /\ list = "models" /\ parent = TRUE /\ rows = {} /\ used = {}
    /\ size \in ListSizes /\ \A n \in ListSizes : size <= n
    /\ number = 1 /\ lplace = "refused" /\ snapshot = {} /\ total = 0 /\ items = <<>>
    /\ began = {} /\ left = FALSE /\ seen = {} /\ failures = 0

Init ==
    \/ FactsInit /\ SearchParked /\ EstimateParked /\ UploadParked /\ ListParked
    \/ FactsParked /\ SearchInit /\ EstimateParked /\ UploadParked /\ ListParked
    \/ FactsParked /\ SearchParked /\ EstimateInit /\ UploadParked /\ ListParked
    \/ FactsParked /\ SearchParked /\ EstimateParked /\ UploadInit /\ ListParked
    \/ FactsParked /\ SearchParked /\ EstimateParked /\ UploadParked /\ ListInit

Next ==
    \/ FactsNext /\ UNCHANGED <<svars, evars, uvars, lvars>>
    \/ SearchNext /\ UNCHANGED <<fvars, evars, uvars, lvars>>
    \/ EstimateVolume /\ UNCHANGED <<fvars, svars, uvars, lvars>>
    \/ UploadNext /\ UNCHANGED <<fvars, svars, evars, lvars>>
    \/ ListNext /\ UNCHANGED <<fvars, svars, evars, uvars>>

Spec == Init /\ [][Next]_<<fvars, svars, evars, uvars, lvars>>
=============================================================================
