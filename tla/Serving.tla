------------------------------ MODULE Serving ------------------------------
(***************************************************************************)
(* The two model servers beside the scripts that write what they serve.    *)
(* serve_vllm takes model, adapter and quantization from the decoder's     *)
(* section of the manifest and starts vLLM; serve_gguf takes the .gguf     *)
(* file prepare_gguf made.  promote, merge_lora, quantize_awq,             *)
(* prepare_gguf and prepare_artifacts edit the section one after another;  *)
(* each adds its keys and removes those it knows of.  A script may be      *)
(* killed at any step, and a server may start at any.                      *)
(*                                                                         *)
(* Scripts that overlap are the subject of module Release.  The weights of *)
(* a directory are abstracted to the newest version merged into them, 0    *)
(* for the pretrained model.                                               *)
(*                                                                         *)
(* The storage is LocalStorage: serve_gguf and prepare_gguf know no other. *)
(* What serve_vllm finds in S3, the default of the configuration, is not   *)
(* modelled here.                                                          *)
(***************************************************************************)
EXTENDS Integers

CONSTANTS
  MaxVersion,   \* bound: versions promoted
  Scripts       \* the scripts that are used

Kinds == {"promote", "merge", "awq", "gguf", "prepare"}

ASSUME ServingAssumption == MaxVersion \in Nat /\ Scripts \subseteq Kinds

VARIABLES
  production,   \* the version alias Production names, 0 for none
  section,      \* the decoder's section of the manifest
  holds,        \* holds[d]: the weights in directory d, Part or Gone
  files,        \* the places where a .gguf file lies
  spoiled,      \* history: prepare_artifacts began to remove the pretrained
                \* model and has not put another in its place yet
  script,       \* the script that runs
  vllm          \* a pod of serve_vllm

storage == <<production, section, holds, files, spoiled>>
vars == <<storage, script, vllm>>
-----------------------------------------------------------------------------
(* Storage and manifest.                                                   *)

Merged(v) == <<"merged", v>>         \* merged_models/{name}_prod_v{v}
Awq == <<"awq", 0>>                  \* awq_models/{name}_w{bits}g{group}
Prepared == <<"prepared", 0>>        \* {pipeline}/{name}
Adapter == <<"adapter", 0>>          \* adapters/{name}_prod
Hub == <<"hub", 0>>                  \* hf://..., not in our storage
NoRef == <<"none", 0>>               \* the key is absent from the section

Dirs == {Awq, Prepared, Adapter} \cup {Merged(v) : v \in 1..MaxVersion}
Models == (Dirs \ {Adapter}) \cup {Hub}
Gone == -1
Part == -2                           \* there, but no model that can be loaded
Weights == 0..MaxVersion

\* A .gguf file lies in the directory of the pretrained model, or in
\* {pipeline}/model when the section has no mlflow_model_name.
Places == {"prepared", "model"}

\* named: only prepare_artifacts writes mlflow_model_name.
Section ==
  [load : {"none", "lora", "full"}, model : Models \cup {NoRef}, base : Models \cup {NoRef},
   lora : BOOLEAN, quant : BOOLEAN, named : BOOLEAN, gguf : Places \cup {"none"}]

NoSection ==
  [load |-> "none", model |-> NoRef, base |-> NoRef,
   lora |-> FALSE, quant |-> FALSE, named |-> FALSE, gguf |-> "none"]

\* The directory is looked for, not what is in it.
Exists(d) == holds[d] # Gone
Found(ref) == ref = Hub \/ (ref \in Dirs /\ Exists(ref))

Loadable(ref) == ref = Hub \/ (ref \in Dirs /\ holds[ref] \in Weights)
Content(ref) == IF ref \in Dirs THEN holds[ref] ELSE 0

\* The model a section has a server or a script load, with the adapter beside.
ModelOf(s) == IF s.load = "lora" THEN s.base ELSE s.model

Loads(s) ==
  /\ s.load # "none"
  /\ Loadable(ModelOf(s))
  /\ s.load = "lora" => s.lora /\ Loadable(Adapter)

\* Weights of the model the section names, its adapter merged into it.
WeightsOf(s) == IF s.load = "lora" THEN holds[Adapter] ELSE Content(s.model)
-----------------------------------------------------------------------------
(* Scripts.                                                                *)

\* kind, pc: what runs and where it is; man: the section in memory; out: the
\* weights on its disk; well: whether the last one ended with exit code 0.
IdleScript ==
  [kind |-> "none", pc |-> "idle", man |-> NoSection, out |-> Gone, well |-> FALSE]

Idle == script.pc = "idle"
At(kind, pc) == script.kind = kind /\ script.pc = pc
Goto(pc) == script' = [script EXCEPT !.pc = pc]

\* The directory a script uploads, and publishes.
Target ==
  CASE script.kind = "promote" -> Adapter
    [] script.kind = "merge"   -> Merged(production)
    [] script.kind = "awq"     -> Awq
    [] OTHER                   -> Prepared

\* What a start of serve_vllm takes from the section, once.
Taken(s) == [model |-> ModelOf(s), adapted |-> s.load = "lora", lora |-> s.lora, quant |-> s.quant]

\* has: what a start has taken; loads: whether what it downloaded can be loaded.
Down == [pc |-> "down", has |-> Taken(NoSection), loads |-> TRUE]

Init ==
  /\ production = 0
  /\ section = NoSection
  /\ holds = [d \in Dirs |-> Gone]
  /\ files = {}
  /\ spoiled = FALSE
  /\ script = IdleScript
  /\ vllm = Down

Start(kind) ==
  /\ Idle
  /\ script' = [IdleScript EXCEPT !.kind = kind,
                  !.pc = CASE kind = "promote"         -> "registry"
                           [] kind \in {"merge", "awq"} -> "check"
                           [] OTHER                    -> "read"]
  /\ UNCHANGED storage

\* Killed, or a call raised, or sys.exit(1).
Stop ==
  /\ ~Idle
  /\ script' = IdleScript
  /\ UNCHANGED storage

\* promote_model moves the alias to a better version, or does not.
MoveAlias ==
  /\ At("promote", "registry")
  /\ production' \in {production, production + 1} \cap 1..MaxVersion
  /\ Goto("read")
  /\ UNCHANGED <<section, holds, files, spoiled>>

\* merge_lora and quantize_awq look whether their directory exists; if not,
\* they build it of what the section names.
Skip ==
  /\ script.pc = "check"
  /\ script.kind \in {"merge", "awq"}
  /\ Exists(Target)
  /\ Goto("read")
  /\ UNCHANGED storage

Build ==
  /\ script.pc = "check"
  /\ \/ script.kind = "merge" /\ section.load = "lora"
     \/ script.kind = "awq" /\ section.load = "full"
  /\ Loads(section)
  /\ ~Exists(Target)
  /\ script' = [script EXCEPT !.pc = "upload", !.out = WeightsOf(section)]
  /\ UNCHANGED storage

MergeNeedsProduction == script.kind = "merge" => production > 0

\* download_manifest, and for promote load_adapter.
Read ==
  /\ script.pc = "read"
  /\ script.kind # "gguf"
  /\ script' = [script EXCEPT !.man = section,
                  !.pc = CASE script.kind = "promote" -> "upload"
                           [] script.kind = "prepare" -> "check"
                           [] OTHER                   -> "write",
                  !.out = CASE script.kind = "promote" -> production
                            [] script.kind = "prepare" -> 0
                            [] OTHER                   -> @]
  /\ UNCHANGED storage

\* prepare_artifacts: without --force an existing directory is taken as it is.
PrepareCheck(force) ==
  /\ At("prepare", "check")
  /\ Goto(IF ~force /\ Exists(Prepared) THEN "write" ELSE "upload")
  /\ UNCHANGED storage

\* prepare_gguf merges and converts what the section names; without weights
\* in the directory llama.cpp's script fails.
Convert ==
  /\ At("gguf", "read")
  /\ Loads(section)
  /\ script' = [script EXCEPT !.pc = "file", !.man = section, !.out = WeightsOf(section)]
  /\ UNCHANGED storage

\* {pipeline}/{mlflow_model_name}, "model" if the section in memory has none.
PlaceOf(s) == IF s.named THEN "prepared" ELSE "model"

\* upload_file makes the directory if need be.
UploadFile ==
  /\ At("gguf", "file")
  /\ files' = files \cup {PlaceOf(script.man)}
  /\ holds' = IF script.man.named /\ ~Exists(Prepared)
                THEN [holds EXCEPT ![Prepared] = Part] ELSE holds
  /\ Goto("write")
  /\ UNCHANGED <<production, section, spoiled>>

\* LocalStorage.upload, the copy beside the target made: what is there is
\* removed file by file ...
Remove ==
  /\ script.pc = "upload"
  /\ Exists(Target)
  /\ holds' = [holds EXCEPT ![Target] = Part]
  /\ files' \in {files} \cup (IF Target = Prepared THEN {files \ {"prepared"}} ELSE {})
  /\ spoiled' = (spoiled \/ Target = Prepared)
  /\ Goto("remove")
  /\ UNCHANGED <<production, section>>

\* ... and the directory last, ...
Removed ==
  /\ script.pc = "remove"
  /\ holds' = [holds EXCEPT ![Target] = Gone]
  /\ files' = IF Target = Prepared THEN files \ {"prepared"} ELSE files
  /\ Goto("rename")
  /\ UNCHANGED <<production, section, spoiled>>

\* ... and the copy renamed to it.
Rename ==
  /\ script.pc = "rename" \/ (script.pc = "upload" /\ ~Exists(Target))
  /\ holds' = [holds EXCEPT ![Target] = script.out]
  /\ spoiled' = (spoiled /\ Target # Prepared)
  /\ Goto(IF script.kind \in {"promote", "prepare"} THEN "write" ELSE "read")
  /\ UNCHANGED <<production, section, files>>

\* Mutant of BaseOf: a section that named a whole model has no base yet.
BaseOfLora(s) == s.base

BaseOf(s) ==
  CASE s.base # NoRef  -> s.base
    [] s.model # NoRef -> s.model
    [] OTHER           -> Hub

\* What each script makes of the section it has in memory.
Edited(s) ==
  LET Monolith == [s EXCEPT !.load = "full", !.model = Target,
                            !.base = NoRef, !.lora = FALSE]
  IN  CASE script.kind = "promote" -> [s EXCEPT !.load = "lora", !.base = BaseOf(s),
                                                !.lora = TRUE, !.model = NoRef]
        [] script.kind = "merge"   -> Monolith
        [] script.kind = "awq"     -> [Monolith EXCEPT !.quant = TRUE]
        [] script.kind = "gguf"    -> [s EXCEPT !.gguf = PlaceOf(s)]
        [] OTHER                   -> [s EXCEPT !.load = "full", !.model = Prepared,
                                                !.named = TRUE]

WriteManifest ==
  /\ script.pc = "write"
  /\ section' = Edited(script.man)
  /\ script' = [IdleScript EXCEPT !.well = TRUE]
  /\ UNCHANGED <<production, holds, files, spoiled>>

ScriptStep ==
  /\ \/ \E kind \in Scripts : Start(kind)
     \/ \E force \in BOOLEAN : PrepareCheck(force)
     \/ Stop \/ MoveAlias \/ Read \/ Convert \/ UploadFile
     \/ MergeNeedsProduction /\ (Skip \/ Build)
     \/ Remove \/ Removed \/ Rename \/ WriteManifest
  /\ UNCHANGED vllm
-----------------------------------------------------------------------------
(* serve_vllm                                                              *)

VllmExit == vllm' = Down

\* The manifest is read once; without a load_type the process exits, and the
\* pod is started again.
ReadSection ==
  /\ vllm.pc = "down"
  /\ section.load # "none"
  /\ vllm' = [pc |-> "model", has |-> Taken(section), loads |-> TRUE]

\* Mutant of DownloadModel: a model of the hub is looked for in the storage.
DownloadModelStored ==
  LET ref == vllm.has.model
  IN  /\ vllm.pc = "model"
      /\ IF ref \in Dirs /\ Exists(ref)
         THEN vllm' = [vllm EXCEPT !.loads = Loadable(ref),
                         !.pc = IF vllm.has.adapted THEN "adapter" ELSE "launch"]
         ELSE VllmExit

\* A model of the hub is left to vLLM; another is downloaded, or the process
\* ends with an exception.
DownloadModel ==
  LET ref == vllm.has.model
  IN  /\ vllm.pc = "model"
      /\ IF Found(ref)
         THEN vllm' = [vllm EXCEPT !.loads = Loadable(ref),
                         !.pc = IF vllm.has.adapted THEN "adapter" ELSE "launch"]
         ELSE VllmExit

DownloadAdapter ==
  /\ vllm.pc = "adapter"
  /\ IF vllm.has.lora /\ Exists(Adapter)
       THEN vllm' = [vllm EXCEPT !.loads = @ /\ Loadable(Adapter), !.pc = "launch"]
       ELSE VllmExit

\* _resolve_quantization: what the section says, when it was read.
Quantization(has) == has.quant

\* vLLM needs weights, and refuses --quantization awq for a model that has no
\* AWQ configuration.  An AWQ model it recognizes by itself.
Accepted(has, loads) == loads /\ (Quantization(has) => has.model = Awq)

Launch ==
  /\ vllm.pc = "launch"
  /\ IF Accepted(vllm.has, vllm.loads) THEN vllm' = [Down EXCEPT !.pc = "up"] ELSE VllmExit

\* The pod is replaced, or its server ends.
Rollout ==
  /\ vllm.pc = "up"
  /\ VllmExit
  /\ UNCHANGED <<storage, script>>

VllmStep ==
  /\ ReadSection \/ DownloadModel \/ DownloadAdapter \/ Launch
  /\ UNCHANGED <<storage, script>>
-----------------------------------------------------------------------------
(* serve_gguf opens the file where it lies; it changes nothing.            *)

Opens == section.gguf \in files

Next == ScriptStep \/ VllmStep \/ Rollout

Spec == Init /\ [][Next]_vars

\* The pod is started again whenever it ended, and each step of a start ends.
FairSpec == Spec /\ WF_vars(VllmStep)
-----------------------------------------------------------------------------
(* Properties.                                                             *)

Takes == [model : Models \cup {NoRef}, adapted : BOOLEAN, lora : BOOLEAN, quant : BOOLEAN]

TypeOK ==
  /\ production \in Weights
  /\ section \in Section
  /\ holds \in [Dirs -> Weights \cup {Gone, Part}]
  /\ files \subseteq Places
  /\ spoiled \in BOOLEAN
  /\ script \in [kind : Kinds \cup {"none"},
                 pc : {"idle", "registry", "check", "read", "upload", "remove", "rename",
                       "file", "write"},
                 man : Section, out : Weights \cup {Gone}, well : BOOLEAN]
  /\ vllm \in [pc : {"down", "model", "adapter", "launch", "up"}, has : Takes, loads : BOOLEAN]

\* What a start of serve_vllm needs of section s and the storage.
Servable(s) == Accepted(Taken(s), Loads(s))

\* The section says awq of a model that is not quantized.
StaleQuantization(s) == s.quant /\ ModelOf(s) # Awq

\* The directory of the pretrained model has no model in it: prepare_artifacts
\* was stopped while it replaced it, and has not replaced it since.
EmptyPrepared(s) == ModelOf(s) = Prepared /\ ~Loadable(Prepared) /\ spoiled

\* After a script that ended well serve_vllm can start from what the section
\* names in a LocalStorage, however many scripts before it were killed, also
\* half way through a removal, and in whatever order they edited the section --
\* except for the two ways named above, which serving_quant.cfg and
\* serving_empty.cfg show.
EndedWellIsServable ==
  Idle /\ script.well =>
    \/ Servable(section)
    \/ StaleQuantization(section)
    \/ EmptyPrepared(section)

\* A pod that was caught between two scripts, or between the removal and the
\* renaming of a directory, comes up in the end: when the scripts are through
\* and the section can be served, the server is not down for good.
VllmComesUp ==
  <>[](Idle /\ Servable(section)) /\ ~[]<><<Rollout>>_vars => <>[](vllm.pc = "up")
-----------------------------------------------------------------------------
(* What the documentation says and the code does not keep.                 *)

\* promote and merge_lora remove the keys of the other way to build a section
\* (promote.py:114, merge_lora.py:156), quantization stays: the section says
\* awq of a model that is not, and serve_vllm passes it on.
QuantizationIsOfTheModel == ~StaleQuantization(section)

\* quantize_awq "quantizes the model from the manifest": the monolith whose
\* section it replaces.  A directory of an earlier release is published again.
AwqIsOfItsModel ==
  [][At("awq", "write") /\ section' # section /\ script.man.load = "full"
       => Content(ModelOf(section')) = Content(ModelOf(script.man))]_vars

\* prepare_gguf leaves a section that serve_gguf can serve from; --force
\* removes the file with the directory and leaves the key.
GgufIsThere == section.gguf # "none" => Opens

\* "Атомарная подмена" of a directory (local.py:45), and "Уже есть в storage
\* [...] пропускаем" (prepare_artifacts.py:199): what prepare_artifacts --force
\* left behind when it was killed counts as the model, and is published.
PreparedIsAModel ==
  Idle /\ script.well /\ ModelOf(section) = Prepared => Loadable(Prepared)
=============================================================================
