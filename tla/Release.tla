------------------------------ MODULE Release ------------------------------
(***************************************************************************)
(* The release of a model: training registers an adapter, promote moves    *)
(* the Production alias and publishes the adapter, merge_lora, quantize_awq *)
(* and prepare_gguf derive artifacts from it, prepare_artifacts publishes a *)
(* pretrained model and index_db a vector database.  The jobs share three  *)
(* stores and no lock: the MLflow registry, the artifact storage and one   *)
(* manifest.json that every publishing job downloads, edits and uploads.   *)
(*                                                                         *)
(* Every remote call is a step of its own, except that resolve_and_patch   *)
(* reads the manifest and what it names in one; a job may die or give up   *)
(* between any two.  What a directory holds is abstracted to the sequence  *)
(* of adapters in its weights: <<>> is the pretrained model, <<1, 2>> is   *)
(* version 1 merged into it and version 2 into the result, 0 stands for    *)
(* AWQ quantization.                                                       *)
(***************************************************************************)
EXTENDS Naturals, Sequences

CONSTANTS
  Pipelines,    \* the manifest's sections
  Jobs,         \* process slots: pods, or shells of an operator
  Tasks,        \* the <<kind, pipeline>> pairs that may be started
  Concurrent,   \* pairs of tasks the schedule lets run at the same time
  Scores,       \* values of best_score
  NoTag,        \* a version without val_loss
  MaxVersion,   \* bound: versions registered per pipeline
  Local,        \* TRUE: LocalStorage (tmp + rename); FALSE: S3Storage
  ServerDb,     \* TRUE: Qdrant, nothing to upload; FALSE: FAISS
  LossyReads    \* TRUE: reading the manifest or the registry may fail

Kinds == {"train", "promote", "merge", "awq", "gguf", "prepare", "index"}

\* Two jobs never upload to one directory of a LocalStorage at a time: both
\* would build the same {target}.tmp.
ASSUME ReleaseAssumption ==
  /\ Scores \subseteq Nat
  /\ NoTag \notin Scores
  /\ MaxVersion \in Nat
  /\ Local \in BOOLEAN
  /\ ServerDb \in BOOLEAN
  /\ LossyReads \in BOOLEAN
  /\ Tasks \subseteq Kinds \X Pipelines
  /\ Concurrent \subseteq Tasks \X Tasks
  /\ \A c \in Concurrent :
       Local /\ c[1][1] # "train" /\ c[2][1] # "train" => c[1][2] # c[2][2]

VARIABLES
  versions,     \* versions[p]: the registered versions, with tag and base
  staging,      \* staging[p]: the version of alias Staging, 0 for none
  production,   \* production[p]: the version of alias Production, 0 for none
  dirs,         \* dirs[p][d]: the state of directory d in the storage
  manifest,     \* manifest[p]: section p of manifest.json
  job,          \* job[j]: the local state of a running script
  behind        \* history, behind[j]: the sections edited since job j read them

vars == <<versions, staging, production, dirs, manifest, job, behind>>
registry == <<versions, staging, production>>
-----------------------------------------------------------------------------
(* Storage paths and the manifest.                                         *)

Adapter == <<"adapter", 0>>          \* adapters/{name}_prod
Merged(v) == <<"merged", v>>         \* merged_models/{name}_prod_v{v}
Awq == <<"awq", 0>>                  \* awq_models/{name}_w{bits}g{group}
Prepared == <<"prepared", 0>>        \* {pipeline}/{name}
VectorDb == <<"vector_db", 0>>       \* {pipeline}/vector_db
Hub == <<"hub", 0>>                  \* hf://..., never in our storage
NoRef == <<"none", 0>>               \* the key is absent from the section

Dirs == {Adapter, Awq, Prepared, VectorDb} \cup {Merged(v) : v \in 1..MaxVersion}
Refs == Dirs \cup {Hub, NoRef}
Weights == Seq(0..MaxVersion)

\* A directory: "partial" is a prefix some of whose objects are uploaded,
\* "mixed" one that two uploads of different weights wrote at once.
Directory == [st : {"absent", "partial", "mixed", "complete"}, w : Weights]
AbsentDir == [st |-> "absent", w |-> <<>>]

\* The keys of a section that some job reads or writes.
Section ==
  [there : BOOLEAN, load : {"none", "lora", "full"}, model : Refs, base : Refs,
   lora : BOOLEAN, quant : BOOLEAN, gguf : BOOLEAN, db : BOOLEAN]

EmptySection ==
  [there |-> FALSE, load |-> "none", model |-> NoRef, base |-> NoRef,
   lora |-> FALSE, quant |-> FALSE, gguf |-> FALSE, db |-> FALSE]

Manifest == [Pipelines -> Section]
NoManifest == [p \in Pipelines |-> EmptySection]

Exists(p, d) == dirs[p][d].st # "absent"

\* StorageRouter.download_from_uri finds something to download.  A partly
\* uploaded S3 prefix is downloaded without complaint.
Resolvable(p, ref) == ref = Hub \/ (ref \in Dirs /\ Exists(p, ref))

Contents(p, ref) == IF ref \in Dirs THEN dirs[p][ref].w ELSE <<>>

\* ArtifactResolver.resolve_and_patch downloads all that section s names.
Resolves(p, s) ==
  /\ s.there
  /\ s.db /\ ~ServerDb => Exists(p, VectorDb)
  /\ s.load = "lora" => Resolvable(p, s.base) /\ Exists(p, Adapter)
  /\ s.load = "full" => Resolvable(p, s.model)

\* The weights the resolver patches into the configuration.
ResolvedBase(p, s) ==
  CASE s.load = "lora" -> Contents(p, s.base)
    [] s.load = "full" -> Contents(p, s.model)
    [] OTHER           -> <<>>
-----------------------------------------------------------------------------
(* Jobs.                                                                   *)

\* task: what the process runs; ver: the version it works on; verdict: what
\* promote_model decided; man: the manifest in memory; dst, out: the
\* directory it uploads to and the weights it has on disk.
IdleJob ==
  [task |-> <<"idle", "none">>, pc |-> "idle", ver |-> 0, verdict |-> "none",
   man |-> NoManifest, dst |-> NoRef, out |-> <<>>]

Kind(j) == job[j].task[1]
Pipe(j) == job[j].task[2]
At(j, kind, pc) == Kind(j) = kind /\ job[j].pc = pc

Goto(j, pc) == job' = [job EXCEPT ![j].pc = pc]

\* Script r has the manifest in memory and will upload what it makes of it.
HasRead(r) ==
  \/ r.pc = "write"
  \/ r.task[1] \in {"promote", "prepare"} /\ r.pc \in {"load", "check", "upload", "uploading"}

EditedSections == {p \in Pipelines : manifest'[p] # manifest[p]}

Finish(j) == job' = [job EXCEPT ![j] = IdleJob]

\* When a script has ended: what it edited is news to those that had read before.
Recorded ==
  behind' = [i \in Jobs |-> IF HasRead(job'[i]) THEN behind[i] \cup EditedSections ELSE {}]

Tag(p, v) == versions[p][v].tag

Init ==
  /\ versions = [p \in Pipelines |-> <<>>]
  /\ staging = [p \in Pipelines |-> 0]
  /\ production = [p \in Pipelines |-> 0]
  /\ dirs = [p \in Pipelines |-> [d \in Dirs |-> AbsentDir]]
  /\ manifest = NoManifest
  /\ job = [j \in Jobs |-> IdleJob]
  /\ behind = [j \in Jobs |-> {}]

FirstStep(kind) ==
  CASE kind \in {"train", "index"}   -> "resolve"
    [] kind = "promote"              -> "staging"
    [] kind \in {"merge", "awq"}     -> "check"
    [] OTHER                         -> "read"

\* A pod or an operator starts a script.
Start(j, task) ==
  /\ job[j] = IdleJob
  /\ \A i \in Jobs : job[i] # IdleJob => <<job[i].task, task>> \in Concurrent
  /\ job' = [job EXCEPT ![j].task = task, ![j].pc = FirstStep(task[1])]
  /\ UNCHANGED <<registry, dirs, manifest, behind>>

\* The process is killed, or a call it makes raises, or the script exits with
\* an error; a condition below that has no other branch ends it this way.
Stop(j) ==
  /\ job[j] # IdleJob
  /\ Finish(j)
  /\ UNCHANGED <<registry, dirs, manifest>>
  /\ Recorded
-----------------------------------------------------------------------------
(* train: run_universal_train and MLflowLogger.save_adapter                *)

\* resolve_and_patch with is_training; the adapter of a "lora" section is
\* downloaded and ignored, a new one is trained on the base.
TrainResolve(j) ==
  LET s == manifest[Pipe(j)]
  IN  /\ At(j, "train", "resolve")
      /\ Resolves(Pipe(j), s)
      /\ job' = [job EXCEPT ![j].pc = "register", ![j].out = ResolvedBase(Pipe(j), s)]
      /\ UNCHANGED <<registry, dirs, manifest, behind>>

\* Mutant of Register: the version number is counted twice.
RegisterOffByOne(j) ==
  LET p == Pipe(j)
  IN  /\ At(j, "train", "register")
      /\ Len(versions[p]) < MaxVersion
      /\ versions' = [versions EXCEPT ![p] = Append(@, [tag |-> NoTag, on |-> job[j].out])]
      /\ job' = [job EXCEPT ![j].pc = "stage", ![j].ver = Len(versions[p]) + 2]
      /\ UNCHANGED <<staging, production, dirs, manifest, behind>>

\* create_model_version; when it raises after the server did its work, the
\* fallback register_model registers the same run once more.
Register(j) ==
  LET p == Pipe(j)
  IN  /\ At(j, "train", "register")
      /\ Len(versions[p]) < MaxVersion
      /\ versions' = [versions EXCEPT ![p] = Append(@, [tag |-> NoTag, on |-> job[j].out])]
      /\ \E pc \in {"stage"} \cup (IF job[j].ver = 0 THEN {"register"} ELSE {}) :
           job' = [job EXCEPT ![j].pc = pc, ![j].ver = Len(versions[p]) + 1]
      /\ UNCHANGED <<staging, production, dirs, manifest, behind>>

SetStaging(j) ==
  /\ At(j, "train", "stage")
  /\ staging' = [staging EXCEPT ![Pipe(j)] = job[j].ver]
  /\ Goto(j, "tag")
  /\ UNCHANGED <<versions, production, dirs, manifest, behind>>

SetTag(j, score) ==
  /\ At(j, "train", "tag")
  /\ versions' = [versions EXCEPT ![Pipe(j)][job[j].ver].tag = score]
  /\ Finish(j)
  /\ UNCHANGED <<staging, production, dirs, manifest>>
  /\ Recorded

Train(j) ==
  \/ TrainResolve(j) \/ Register(j) \/ SetStaging(j)
  \/ \E score \in Scores : SetTag(j, score)
-----------------------------------------------------------------------------
(* promote                                                                 *)

\* promote_model reads the alias Staging and the tag of its version.
ReadStaging(j) ==
  LET p == Pipe(j)  v == staging[p]
  IN  /\ At(j, "promote", "staging")
      /\ v # 0
      /\ Tag(p, v) # NoTag
      /\ job' = [job EXCEPT ![j].pc = "compare", ![j].ver = v]
      /\ UNCHANGED <<registry, dirs, manifest, behind>>

\* Mutant of Better: an equal val_loss is good enough.
BetterOrEqual(p, v) == production[p] = 0 \/ Tag(p, v) <= Tag(p, production[p])

\* No Production, or one without val_loss, counts as infinitely bad.
Better(p, v) ==
  LET q == production[p]
  IN  q = 0 \/ Tag(p, q) = NoTag \/ Tag(p, v) < Tag(p, q)

Verdict(j) ==
  CASE job[j].ver = production[Pipe(j)]     -> "same"
    [] Better(Pipe(j), job[j].ver)          -> "better"
    [] OTHER                                -> "worse"

\* ... then Production, and compares.  A failed read counts as no Production.
\* main ignores the answer: it goes on to publish what Production names.
Compare(j) ==
  /\ At(j, "promote", "compare")
  /\ \E verdict \in {Verdict(j)} \cup (IF LossyReads THEN {"better"} ELSE {}) :
       job' = [job EXCEPT ![j].pc = IF verdict = "better" THEN "set" ELSE "read",
                          ![j].verdict = verdict]
  /\ UNCHANGED <<registry, dirs, manifest, behind>>

SetProduction(j) ==
  /\ At(j, "promote", "set")
  /\ production' = [production EXCEPT ![Pipe(j)] = job[j].ver]
  /\ Goto(j, "read")
  /\ UNCHANGED <<versions, staging, dirs, manifest, behind>>

\* Mutant of LoadAdapter: the adapter of the wrong alias is published.
LoadStagingAdapter(j) ==
  /\ At(j, "promote", "load")
  /\ staging[Pipe(j)] # 0
  /\ job' = [job EXCEPT ![j].pc = "upload", ![j].dst = Adapter,
                        ![j].out = <<staging[Pipe(j)]>>]
  /\ UNCHANGED <<registry, dirs, manifest, behind>>

\* load_adapter reads the alias again.
LoadAdapter(j) ==
  /\ At(j, "promote", "load")
  /\ production[Pipe(j)] # 0
  /\ job' = [job EXCEPT ![j].pc = "upload", ![j].dst = Adapter,
                        ![j].out = <<production[Pipe(j)]>>]
  /\ UNCHANGED <<registry, dirs, manifest, behind>>

Promote(j) == ReadStaging(j) \/ Compare(j) \/ SetProduction(j) \/ LoadAdapter(j)
-----------------------------------------------------------------------------
(* merge_lora and quantize_awq: a directory that exists is not built again *)

Skip(j, d) ==
  /\ Exists(Pipe(j), d)
  /\ Goto(j, "read")
  /\ UNCHANGED <<registry, dirs, manifest, behind>>

\* Mutant of Build: the directory is built although it exists.
BuildAlways(j, d, weights) ==
  /\ Resolves(Pipe(j), manifest[Pipe(j)])
  /\ job' = [job EXCEPT ![j].pc = "upload", ![j].dst = d, ![j].out = weights]
  /\ UNCHANGED <<registry, dirs, manifest, behind>>

Build(j, d, weights) ==
  /\ ~Exists(Pipe(j), d)
  /\ Resolves(Pipe(j), manifest[Pipe(j)])
  /\ job' = [job EXCEPT ![j].pc = "upload", ![j].dst = d, ![j].out = weights]
  /\ UNCHANGED <<registry, dirs, manifest, behind>>

\* The alias Production gives the directory its name, ...
MergeCheck(j) ==
  /\ At(j, "merge", "check")
  /\ production[Pipe(j)] # 0
  /\ job' = [job EXCEPT ![j].pc = "build", ![j].ver = production[Pipe(j)]]
  /\ UNCHANGED <<registry, dirs, manifest, behind>>

\* ... the manifest the base and the adapter that are merged into it.
Merge(j) ==
  LET p == Pipe(j)  s == manifest[p]  d == Merged(job[j].ver)
  IN  /\ At(j, "merge", "build")
      /\ \/ Skip(j, d)
         \/ s.load = "lora" /\ Build(j, d, ResolvedBase(p, s) \o Contents(p, Adapter))

Quantize(j) ==
  LET p == Pipe(j)  s == manifest[p]
  IN  /\ At(j, "awq", "check")
      /\ \/ Skip(j, Awq)
         \/ s.load # "lora" /\ Build(j, Awq, Append(ResolvedBase(p, s), 0))
-----------------------------------------------------------------------------
(* prepare_gguf, prepare_artifacts and index_db                            *)

\* prepare_gguf reads the manifest and what the section names, then converts
\* for hours.  That the .gguf file is uploaded before the manifest is not
\* shown: no script here reads the file.
GgufRead(j) ==
  LET s == manifest[Pipe(j)]
  IN  /\ At(j, "gguf", "read")
      /\ Resolves(Pipe(j), [s EXCEPT !.db = FALSE])
      /\ s.load # "none"
      /\ job' = [job EXCEPT ![j].pc = "write", ![j].man = manifest]
      /\ UNCHANGED <<registry, dirs, manifest, behind>>

\* --pipeline p; with --force an existing model is uploaded again.
PrepareCheck(j) ==
  /\ At(j, "prepare", "check")
  /\ \/ Exists(Pipe(j), Prepared) /\ Goto(j, "write")
     \/ job' = [job EXCEPT ![j].pc = "upload", ![j].dst = Prepared]
  /\ UNCHANGED <<registry, dirs, manifest, behind>>

\* The documents are embedded and inserted; FAISS files are then uploaded.
IndexResolve(j) ==
  /\ At(j, "index", "resolve")
  /\ Resolves(Pipe(j), manifest[Pipe(j)])
  /\ job' = [job EXCEPT ![j].pc = IF ServerDb THEN "read" ELSE "upload",
                        ![j].dst = VectorDb]
  /\ UNCHANGED <<registry, dirs, manifest, behind>>

Derive(j) ==
  \/ MergeCheck(j) \/ Merge(j) \/ Quantize(j)
  \/ GgufRead(j) \/ PrepareCheck(j) \/ IndexResolve(j)
-----------------------------------------------------------------------------
(* What the publishing jobs have in common.                                *)

\* Mutant of UploadBegin: LocalStorage copies straight into the target.
UploadInPlace(j) ==
  /\ job[j].pc = "upload"
  /\ dirs' = [dirs EXCEPT ![Pipe(j)][job[j].dst] = [st |-> "partial", w |-> job[j].out]]
  /\ Goto(j, "uploading")
  /\ UNCHANGED <<registry, manifest, behind>>

\* LocalStorage removes the target and renames {target}.tmp to it;
\* S3Storage overwrites the objects of the prefix one by one.
UploadBegin(j) ==
  /\ job[j].pc = "upload"
  /\ dirs' = [dirs EXCEPT ![Pipe(j)][job[j].dst] =
                IF Local THEN AbsentDir ELSE [st |-> "partial", w |-> job[j].out]]
  /\ Goto(j, "uploading")
  /\ UNCHANGED <<registry, manifest, behind>>

UploadEnd(j) ==
  LET p == Pipe(j)  old == dirs[p][job[j].dst]
      mixed == ~Local /\ (old.st = "mixed" \/ old.w # job[j].out)
  IN  /\ job[j].pc = "uploading"
      /\ dirs' = [dirs EXCEPT ![p][job[j].dst] =
                    [st |-> IF mixed THEN "mixed" ELSE "complete", w |-> job[j].out]]
      /\ Goto(j, IF Kind(j) \in {"promote", "prepare"} THEN "write" ELSE "read")
      /\ UNCHANGED <<registry, manifest, behind>>

\* index_db and prepare_artifacts take any failed download for an absent
\* manifest; the others only FileNotFoundError, which S3Storage never raises
\* for a file.
Forgiving(j) == Kind(j) \in {"prepare", "index"}

ReadManifest(j) ==
  /\ job[j].pc = "read"
  /\ Kind(j) # "gguf"
  /\ \E m \in {manifest} \cup (IF LossyReads /\ Forgiving(j) THEN {NoManifest} ELSE {}) :
       /\ m = NoManifest => Local \/ Forgiving(j)
       /\ job' = [job EXCEPT ![j].man = m,
                             ![j].pc = CASE Kind(j) = "promote" -> "load"
                                         [] Kind(j) = "prepare" -> "check"
                                         [] OTHER               -> "write"]
  /\ UNCHANGED <<registry, dirs, manifest, behind>>

\* Mutant of BaseOf: a section that named a whole model has no base yet.
BaseOfLora(s) == s.base

\* promote takes the base from the manifest, from the configuration at last.
BaseOf(s) ==
  CASE s.base # NoRef  -> s.base
    [] s.model # NoRef -> s.model
    [] OTHER           -> Hub

\* What each script puts into its section of the manifest it has in memory.
Edited(j) ==
  LET s == [job[j].man[Pipe(j)] EXCEPT !.there = TRUE]
      Monolith(ref) == [s EXCEPT !.load = "full", !.model = ref,
                                 !.base = NoRef, !.lora = FALSE]
  IN  CASE Kind(j) = "promote" -> [s EXCEPT !.load = "lora", !.base = BaseOf(s),
                                            !.lora = TRUE, !.model = NoRef]
        [] Kind(j) = "merge"   -> Monolith(Merged(job[j].ver))
        [] Kind(j) = "awq"     -> [Monolith(Awq) EXCEPT !.quant = TRUE]
        [] Kind(j) = "prepare" -> [s EXCEPT !.load = "full", !.model = Prepared]
        [] Kind(j) = "gguf"    -> [s EXCEPT !.gguf = TRUE]
        [] OTHER               -> [s EXCEPT !.db = TRUE]

\* Mutant of WriteManifest: the uploaded file holds one section.
WriteOneSection(j) ==
  /\ job[j].pc = "write"
  /\ manifest' = [NoManifest EXCEPT ![Pipe(j)] = Edited(j)]
  /\ Finish(j)
  /\ UNCHANGED <<registry, dirs>>
  /\ Recorded

\* The whole file is replaced.
WriteManifest(j) ==
  /\ job[j].pc = "write"
  /\ manifest' = [job[j].man EXCEPT ![Pipe(j)] = Edited(j)]
  /\ Finish(j)
  /\ UNCHANGED <<registry, dirs>>
  /\ Recorded

Publish(j) == ReadManifest(j) \/ UploadBegin(j) \/ UploadEnd(j) \/ WriteManifest(j)

Next ==
  \E j \in Jobs :
    \/ \E task \in Tasks : Start(j, task)
    \/ Stop(j) \/ Train(j) \/ Promote(j) \/ Derive(j) \/ Publish(j)

Spec == Init /\ [][Next]_vars
-----------------------------------------------------------------------------
(* Properties.                                                             *)

Pcs == {"idle", "resolve", "register", "stage", "tag", "staging", "compare",
        "set", "read", "load", "check", "build", "upload", "uploading", "write"}

Job ==
  [task : Tasks \cup {IdleJob.task}, pc : Pcs, ver : 0..MaxVersion,
   verdict : {"none", "better", "same", "worse"}, man : Manifest,
   dst : Dirs \cup {NoRef}, out : Weights]

Version == [tag : Scores \cup {NoTag}, on : Weights]

\* Every variable has its type, and an alias names a registered version.
TypeOK ==
  /\ versions \in [Pipelines -> Seq(Version)]
  /\ staging \in [Pipelines -> 0..MaxVersion]
  /\ production \in [Pipelines -> 0..MaxVersion]
  /\ \A p \in Pipelines :
       /\ Len(versions[p]) <= MaxVersion
       /\ staging[p] \in 0..Len(versions[p])
       /\ production[p] \in 0..Len(versions[p])
  /\ dirs \in [Pipelines -> [Dirs -> Directory]]
  /\ manifest \in Manifest
  /\ job \in [Jobs -> Job]

\* The registry behaves as ProductionRegistry promises, whatever the order in
\* which trainers stage, promoters compare and processes die: an alias moves
\* only to a tagged version that beats the one it leaves (promote_model).
ValLoss == [p \in Pipelines |-> [v \in DOMAIN versions[p] |-> versions[p][v].tag]]

Registry == INSTANCE ProductionRegistry WITH tags <- ValLoss

RegistrySpec == Registry!Spec

\* Directories that merge_lora and quantize_awq build and never rebuild.
Monoliths == {Awq} \cup {Merged(v) : v \in 1..MaxVersion}

\* A monolith the manifest tells servers and trainers to load, or promote to
\* put an adapter on, is in the storage with all its files.
PublishedMonolithIntact ==
  \A p \in Pipelines :
    {manifest[p].model, manifest[p].base} \cap Monoliths
      \subseteq {d \in Dirs : dirs[p][d].st = "complete"}

\* Once uploaded a monolith never changes or disappears: servers that load
\* merged_models/{name}_prod_v{v} at different times load the same model.
MonolithWriteOnce ==
  [][\A p \in Pipelines, d \in Monoliths :
       dirs[p][d].st = "complete" => dirs'[p][d] = dirs[p][d]]_vars

\* When promote is about to write the manifest, adapters/{name}_prod holds the
\* version that Production names, also when the promotion was refused.
PromotePublishesProduction ==
  \A j \in Jobs : At(j, "promote", "write") =>
    dirs[Pipe(j)][Adapter] = [st |-> "complete", w |-> <<production[Pipe(j)]>>]

\* Whatever sequence of scripts edited it, a section names what the resolver
\* reads for its load_type: a base and an adapter, or a model.
LoadableSections ==
  \A p \in Pipelines :
    LET s == manifest[p]
    IN  /\ s.load = "lora" => s.base # NoRef /\ s.lora
        /\ s.load = "full" => s.model # NoRef

\* The upload of manifest.json replaces the whole file.  Of the sections that
\* are not of the script's pipeline it undoes only edits made after the script
\* read the file; a script that takes a failed download for an absent manifest
\* may drop any.  Nothing is supposed of which scripts overlap.
OnlyOwnSection ==
  [][\A p \in EditedSections :
       \E j \in Jobs :
         /\ job[j].pc = "write" /\ job'[j] = IdleJob
         /\ Pipe(j) = p \/ p \in behind[j] \/ (LossyReads /\ Forgiving(j))]_vars
-----------------------------------------------------------------------------
(* What the documentation says and the code does not keep.                 *)

\* merge_lora: only the section of this pipeline is updated, not the root.
PatchesOwnSection ==
  [][\A p \in Pipelines :
       manifest'[p] # manifest[p] =>
         \E j \in Jobs : job[j].pc = "write" /\ Pipe(j) = p /\ job'[j] = IdleJob]_vars

\* README: a worse Staging cancels the promotion.
WorseStagingCancelsPromotion ==
  [][\A j \in Jobs :
       job[j].verdict = "worse" => manifest'[Pipe(j)] = manifest[Pipe(j)]]_vars

\* llm_retrain: merge_lora merges the Production adapter with its base.
MergedIsProduction ==
  \A p \in Pipelines, v \in 1..MaxVersion :
    LET d == dirs[p][Merged(v)]
    IN  d.st = "complete" => d.w[Len(d.w)] = v

\* promote: the manifest says what base the adapter was trained on.
AdapterOnItsBase ==
  \A j \in Jobs : At(j, "promote", "write") =>
    Contents(Pipe(j), Edited(j).base) = versions[Pipe(j)][production[Pipe(j)]].on

\* README: Production is replaced only by a better Staging.
PromotionImproves ==
  [][\A p \in Pipelines :
       production'[p] # production[p] /\ production[p] # 0
         => Tag(p, production'[p]) < Tag(p, production[p])]_vars
=============================================================================
