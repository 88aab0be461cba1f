--------------------------- MODULE FinetuningFacts ---------------------------
(***************************************************************************)
(* ResolveFinetuningFacts: internal/service/finetuning_facts.go over       *)
(* biz/model/finetuning.go and the archive reader of                       *)
(* data/storage/finetuning_facts.go.  A call passes the gate, reads the    *)
(* version, its model and the target, then measures the tar archive of the *)
(* version member by member, while the rows are deleted, the object is     *)
(* replaced and the connection to the storage breaks.  The object store    *)
(* keeps object versions; its contents are the sequences of members of     *)
(* small archives, in units of a tar block.                                *)
(***************************************************************************)
EXTENDS RequestGate, Integers, FiniteSets, SequencesExt, Sums

CONSTANTS
    FactsCalls,     \* the calls callers may make
    Contents,       \* contents of objects, see Content
    MaxContent,     \* MODELDEV_MAX_CONTENT_BYTES
    MaxOverhead,    \* finetuningTarOverhead
    MaxEntries, MaxFiles, MaxConfig, \* limits on entries, files and captured files
    MaxReplacements \* bound: times the object is replaced

\* A link stands for every member that is neither a file nor an empty directory.
Kinds == {"file", "dir", "link", "corrupt"}

\* A member of an archive; refs are the shards an index names, json what a
\* captured file holds.
Member ==
    [name : STRING, kind : Kinds, size : Nat, json : {"bad", "value", "object"},
     refs : SUBSET STRING]

ASSUME FinetuningFactsAssumption ==
    /\ FactsCalls \subseteq GateCall
    /\ \A c \in Contents :
           /\ c.members \in Seq(Member) /\ c.tail \in {"zeros", "junk"}
           /\ \A i \in DOMAIN c.members : c.members[i].kind = "dir" => c.members[i].size = 0
    /\ {MaxContent, MaxOverhead, MaxEntries, MaxFiles, MaxConfig, MaxReplacements} \subseteq Nat

VARIABLES
    fcall,    \* the call
    fplace,   \* where its handler is
    fanswer,  \* the answer
    source,   \* the version: its tenant, status and the content it was registered with
    target,   \* what the request names as target: "none", "model", "deleted", "free", "taken"
    objects,  \* the contents of the object, one for each object version
    pinned,   \* the object version that is read, 0 before
    cut,      \* how much of it arrives before the connection breaks
    reader,   \* the archive reader
    inventory \* the files of the answer

fvars == <<fcall, fplace, fanswer, source, target, objects, pinned, cut, reader, inventory>>

NotFinished == "none"
NoContent == [members |-> <<>>, tail |-> "zeros"]
StartOfArchive == [next |-> 1, count |-> 0, expanded |-> 0, seen |-> {}, files |-> {}]

\* A header is one block and the end of the archive one.
Extents(members) == [i \in DOMAIN members |-> 1 + members[i].size]
SizeOf(c) == 1 + SumOf(Extents(c.members))

FactsInit ==
    /\ fcall \in FactsCalls
    /\ fplace = "gate" /\ fanswer = NotFinished
    /\ source \in [tenant : Tenants, status : {"pending", "ready"}, content : Contents]
    /\ target \in {"none", "model", "deleted", "free", "taken"}
    /\ objects \in {<<c>> : c \in {source.content, NoContent}}
    /\ pinned = 0 /\ cut = 0
    /\ reader = StartOfArchive
    /\ inventory = {}
-----------------------------------------------------------------------------
Reply(a) == fplace' = "done" /\ fanswer' = a
Step(p) == fplace' = p /\ UNCHANGED fanswer

\* The chain in front of the handler and RequireTenant at its start.
PassGate ==
    /\ fplace = "gate"
    /\ IF GateVerdict(fcall) # "run" THEN Reply(GateVerdict(fcall))
       ELSE IF fcall.method = "ResolveFinetuningFacts" THEN Step("source")
       ELSE Reply("elsewhere")
    /\ UNCHANGED <<fcall, source, target, objects, pinned, cut, reader, inventory>>

\* GetFinetuningSource tells a version of another tenant from a missing one.
ReadSource ==
    /\ fplace = "source"
    /\ IF source.status = "deleted" THEN Reply("notFound")
       ELSE IF source.tenant # Asserted(fcall) THEN Reply("forbidden")
       ELSE IF source.status # "ready" THEN Reply("notReady")
       ELSE Step("owner")
    /\ UNCHANGED <<fcall, source, target, objects, pinned, cut, reader, inventory>>

\* GetModel of the version's model, which may have been deleted too.
ReadOwner ==
    /\ fplace = "owner"
    /\ \/ source.status = "deleted" /\ Reply("notFound")
       \/ Step("target")
    /\ UNCHANGED <<fcall, source, target, objects, pinned, cut, reader, inventory>>

ReadTarget ==
    /\ fplace = "target"
    /\ CASE target = "deleted" -> Reply("notFound")
         [] target = "taken"   -> Reply("conflict")
         [] OTHER              -> Step("head")
    /\ UNCHANGED <<fcall, source, target, objects, pinned, cut, reader, inventory>>

\* The bound on the registered size, then HEAD: the current object version.
StatObject ==
    /\ fplace = "head"
    /\ IF SizeOf(source.content) > MaxContent + MaxOverhead
       THEN Reply("limit") /\ UNCHANGED pinned
       ELSE IF SizeOf(Last(objects)) # SizeOf(source.content)
       THEN Reply("unavailable") /\ UNCHANGED pinned
       ELSE Step("get") /\ pinned' = Len(objects)
    /\ UNCHANGED <<fcall, source, target, objects, cut, reader, inventory>>

\* GET of that object version; the connection delivers some prefix of it.
GetObject ==
    /\ fplace = "get"
    /\ cut' \in 0 .. SizeOf(objects[pinned])
    /\ IF cut' = 0 THEN Reply("unavailable") ELSE Step("archive")
    /\ UNCHANGED <<fcall, source, target, objects, pinned, reader, inventory>>
-----------------------------------------------------------------------------
Captured == {"config.json", "tokenizer_config.json", "model.safetensors.index.json"}
BadNames == {"../outside", ""}
IsObject(f) == f.json = "object"
IsWeight(name) == name \in {"model.safetensors", "a.safetensors", "b.safetensors"}

\* Mutant of MemberVerdict: a name may come twice.
MemberVerdictTwice(r, m) ==
    IF m.kind = "corrupt" THEN "invalid"
    ELSE IF r.count + 1 - r.expanded > MaxOverhead THEN "limit"
    ELSE IF Cardinality(r.seen) >= MaxEntries THEN "limit"
    ELSE IF m.name \in BadNames THEN "invalid"
    ELSE IF m.kind = "link" THEN "invalid"
    ELSE IF m.kind = "dir" THEN "skip"
    ELSE IF m.size > MaxContent - r.expanded THEN "limit"
    ELSE IF Cardinality(r.files) >= MaxFiles THEN "limit"
    ELSE IF m.name \in Captured /\ m.size > MaxConfig THEN "limit"
    ELSE "read"

\* The checks of a header in their order; count includes the header itself.
MemberVerdict(r, m) ==
    LET count == r.count + 1 IN
    IF m.kind = "corrupt" THEN "invalid"
    ELSE IF count - r.expanded > MaxOverhead THEN "limit"
    ELSE IF Cardinality(r.seen) >= MaxEntries THEN "limit"
    ELSE IF m.name \in BadNames \cup r.seen THEN "invalid"
    ELSE IF m.kind = "link" THEN "invalid"
    ELSE IF m.kind = "dir" THEN "skip"
    ELSE IF m.size > MaxContent - r.expanded THEN "limit"
    ELSE IF Cardinality(r.files) >= MaxFiles THEN "limit"
    ELSE IF m.name \in Captured /\ m.size > MaxConfig THEN "limit"
    ELSE "read"

ReadHeader(r, m) ==
    [r EXCEPT !.next = @ + 1, !.count = @ + 1, !.seen = @ \cup {m.name}]
ReadFile(r, m) ==
    [ReadHeader(r, m) EXCEPT !.count = @ + m.size, !.expanded = @ + m.size,
                             !.files = @ \cup {m}]

\* Mutant of ReadMember: the part that is missing counts as a broken archive.
ReadMemberFinal ==
    /\ fplace = "archive"
    /\ LET c == objects[pinned]
           m == c.members[reader.next]
           v == MemberVerdict(reader, m)
       IN /\ reader.next <= Len(c.members)
          /\ IF reader.count + 1 > cut THEN Reply("invalid") /\ UNCHANGED reader
             ELSE IF v \in {"invalid", "limit"} THEN Reply(v) /\ UNCHANGED reader
             ELSE reader' = ReadFile(reader, m) /\ Step("archive")
    /\ UNCHANGED <<fcall, source, target, objects, pinned, cut, inventory>>

\* inspectFinetuningArchive, one member; what did not arrive can be retried.
ReadMember ==
    /\ fplace = "archive"
    /\ LET c == objects[pinned]
           m == c.members[reader.next]
           v == MemberVerdict(reader, m)
       IN /\ reader.next <= Len(c.members)
          /\ IF reader.count + 1 > cut
             THEN Reply("unavailable") /\ UNCHANGED reader
             ELSE IF v \in {"invalid", "limit"}
             THEN Reply(v) /\ UNCHANGED reader
             ELSE IF v = "skip"
             THEN reader' = ReadHeader(reader, m) /\ Step("archive")
             ELSE IF reader.count + 1 + m.size > cut
             THEN Reply("unavailable") /\ UNCHANGED reader
             ELSE IF m.name \in Captured /\ m.json = "bad"
             THEN Reply("invalid") /\ UNCHANGED reader
             ELSE reader' = ReadFile(reader, m) /\ Step("archive")
    /\ UNCHANGED <<fcall, source, target, objects, pinned, cut, inventory>>

FilesNamed(files, name) == {f \in files : f.name = name}

\* InspectFinetuningWeightLayout: one entry point, all its shards, no others.
LayoutFits(files) ==
    LET single == FilesNamed(files, "model.safetensors")
        index == FilesNamed(files, "model.safetensors.index.json")
        weights == {f \in files : IsWeight(f.name)}
    IN \/ /\ single # {} /\ index = {}
          /\ weights = single
          /\ \A f \in single : f.size > 0
       \/ /\ single = {} /\ index # {}
          /\ \A f \in index : /\ IsObject(f) /\ f.refs # {}
                              /\ f.refs = {w.name : w \in weights}
          /\ \A f \in weights : f.size > 0

Described(files) ==
    \A name \in {"config.json", "tokenizer_config.json"} :
        \E f \in files : f.name = name /\ f.size > 0

\* The padding, the size, the digest, the captured files and the layout; at last
\* ValidateFor, which wants JSON objects.
Decide(c) ==
    IF cut = SizeOf(c) /\ c.tail = "junk" THEN "invalid"
    ELSE IF cut - reader.expanded > MaxOverhead THEN "limit"
    ELSE IF cut < SizeOf(c) THEN "unavailable"
    ELSE IF c # source.content THEN "invalid"
    ELSE IF ~Described(reader.files) THEN "invalid"
    ELSE IF ~LayoutFits(reader.files) THEN "invalid"
    ELSE IF \E f \in reader.files :
               f.name \in {"config.json", "tokenizer_config.json"} /\ ~IsObject(f)
         THEN "invalid"
    ELSE "facts"

EndArchive ==
    /\ fplace = "archive"
    /\ reader.next > Len(objects[pinned].members)
    /\ Reply(Decide(objects[pinned]))
    /\ inventory' = IF Decide(objects[pinned]) = "facts" THEN reader.files ELSE {}
    /\ UNCHANGED <<fcall, source, target, objects, pinned, cut, reader>>
-----------------------------------------------------------------------------
\* Meanwhile: the version or its model is deleted, an upload replaces the object.
DeleteSource ==
    /\ fplace \notin {"gate", "done"}
    /\ source.status # "deleted"
    /\ source' = [source EXCEPT !.status = "deleted"]
    /\ UNCHANGED <<fcall, fplace, fanswer, target, objects, pinned, cut, reader, inventory>>

ReplaceObject(c) ==
    /\ fplace \notin {"gate", "done"}
    /\ Len(objects) <= MaxReplacements
    /\ objects' = Append(objects, c)
    /\ UNCHANGED <<fcall, fplace, fanswer, source, target, pinned, cut, reader, inventory>>

\* The call is cancelled or its budget runs out.
Expire ==
    /\ fplace \notin {"gate", "done"}
    /\ Reply("deadline")
    /\ UNCHANGED <<fcall, source, target, objects, pinned, cut, reader, inventory>>

Handling ==
    \/ PassGate \/ ReadSource \/ ReadOwner \/ ReadTarget
    \/ StatObject \/ GetObject \/ ReadMember \/ EndArchive

FactsNext ==
    \/ Handling
    \/ Expire
    \/ DeleteSource
    \/ \E c \in Contents : ReplaceObject(c)

FactsSpec == FactsInit /\ [][FactsNext]_fvars
-----------------------------------------------------------------------------
FactsTypeOK ==
    /\ fcall \in FactsCalls
    /\ fplace \in {"gate", "source", "owner", "target", "head", "get", "archive", "done"}
    /\ fanswer \in {NotFinished, "deadlineRequired", "unauthenticated", "health", "denied",
                    "otherTenant", "elsewhere", "notFound", "forbidden", "notReady", "conflict",
                    "limit", "unavailable", "invalid", "deadline", "facts"}
    /\ source \in [tenant : Tenants, status : {"pending", "ready", "deleted"}, content : Contents]
    /\ pinned \in 0 .. Len(objects)

FileSizes(members) ==
    [i \in DOMAIN members |-> IF members[i].kind = "file" THEN members[i].size ELSE 0]

\* What the facts promise a trainer of an archive, as one definition: distinct
\* names inside the archive, only files and directories, both configurations,
\* one complete set of weights, and everything within the limits.
Sound(c) ==
    LET members == c.members
        at == DOMAIN members
        files == {i \in at : members[i].kind = "file"}
    IN /\ c.tail = "zeros"
       /\ \A i, j \in at : members[i].name = members[j].name => i = j
       /\ \A i \in at : members[i].kind \in {"file", "dir"} /\ members[i].name \notin BadNames
       /\ Cardinality(at) <= MaxEntries /\ Cardinality(files) <= MaxFiles
       /\ SumOf(FileSizes(members)) <= MaxContent
       /\ Cardinality(at) + 1 <= MaxOverhead
       /\ \A i \in files : members[i].name \in Captured => members[i].size <= MaxConfig
       /\ \A i \in files : members[i].name \in Captured => IsObject(members[i])
       /\ Described({members[i] : i \in files})
       /\ LayoutFits({members[i] : i \in files})

\* An answer with facts is about a sound archive, measured to its last byte in one
\* object version that holds what the version of the caller's own tenant was
\* registered with, although the object was replaced and the connection broke
\* (finetuning_facts.go:43-91 of data/storage, rpc_policy.go:147-182).
FactsMeasured ==
    fanswer = "facts" =>
        /\ Sound(source.content)
        /\ objects[pinned] = source.content
        /\ inventory = {m \in Range(source.content.members) : m.kind = "file"}
        /\ fcall.client = "modeldev" /\ fcall.tenant = <<source.tenant>>

\* A caller is never told for good that a sound version is invalid or beyond a
\* limit because the storage delivered only a part of it: what was not observed
\* is answered as unavailable (finetuning_facts.go:241-255).
SoundNotRefused ==
    fanswer \in {"invalid", "limit"} =>
        ~Sound(source.content) \/ \E k \in DOMAIN objects : objects[k] # source.content

\* The strengthening: what a reader r has found in the first k members.
Reader == [next : Nat \ {0}, count : Nat, expanded : Nat,
           seen : SUBSET STRING, files : SUBSET Member]
FilesTo(members, k) == {i \in 1 .. k : members[i].kind = "file"}
MeasuredTo(r, members, k) ==
    /\ \A i, j \in 1 .. k : members[i].name = members[j].name => i = j
    /\ \A i \in 1 .. k : members[i].kind \in {"file", "dir"} /\ members[i].name \notin BadNames
    /\ r.seen = {members[i].name : i \in 1 .. k}
    /\ IsFiniteSet(r.seen) /\ Cardinality(r.seen) = k /\ k <= MaxEntries
    /\ r.files = {members[i] : i \in FilesTo(members, k)}
    /\ IsFiniteSet(r.files)
    /\ Cardinality(r.files) = Cardinality(FilesTo(members, k))
    /\ Cardinality(r.files) <= MaxFiles
    /\ r.expanded = PartialSums(FileSizes(members))[k] /\ r.expanded <= MaxContent
    /\ r.count = k + r.expanded
    /\ \A i \in FilesTo(members, k) :
           members[i].name \in Captured => members[i].size <= MaxConfig /\ members[i].json # "bad"

\* And what is known at each place of the handler.
FactsInv ==
    /\ fcall \in FactsCalls /\ source.content \in Contents
    /\ objects \in Seq(Contents \cup {NoContent}) \ {<<>>}
    /\ reader \in Reader
    /\ fplace = "done" <=> fanswer # NotFinished
    /\ fplace \notin {"gate", "done"} =>
           GateVerdict(fcall) = "run" /\ fcall.method = "ResolveFinetuningFacts"
    /\ fplace \notin {"gate", "source", "done"} => source.tenant = Asserted(fcall)
    /\ fplace \in {"get", "archive"} => pinned \in DOMAIN objects
    /\ fplace \notin {"archive", "done"} => reader = StartOfArchive
    /\ fplace = "archive" =>
           /\ cut \in 1 .. SizeOf(objects[pinned])
           /\ reader.next - 1 \in 0 .. Len(objects[pinned].members)
           /\ MeasuredTo(reader, objects[pinned].members, reader.next - 1)
    /\ FactsMeasured /\ SoundNotRefused
=============================================================================
