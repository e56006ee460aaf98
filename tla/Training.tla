------------------------------ MODULE Training ------------------------------
(***************************************************************************)
(* A training run: run_universal_train, the trainer's loop with the        *)
(* callbacks of configs/training, and what a run leaves behind: last.ckpt, *)
(* the points it put in the vector store, and the adapter it saved.        *)
(*                                                                         *)
(* The run shares more than it owns.  The generation callback of the       *)
(* decoder uses the tokenizer the collator pads with; the retrieval        *)
(* callback of the rag pipeline uses the collection vector_db names, which *)
(* is the one the index pipeline fills; the checkpoint directory outlives  *)
(* the run.  A run can fail or be killed at any step, and is started anew. *)
(*                                                                         *)
(* Weights are named by the run and the step that made them.  A score is a *)
(* number, the greater the better (val_loss with its sign turned), and     *)
(* NotANumber is the worst, as the callbacks take it.                      *)
(***************************************************************************)
EXTENDS Integers, FiniteSets

CONSTANTS
  MaxSteps,   \* max_steps
  ValEvery,   \* val_check_interval, in batches of an epoch
  EpochLen,   \* steps of an epoch
  Patience,   \* patience of EarlyStopping
  Scores,     \* the scores a validation can have
  MaxRuns,    \* bound: runs started
  MaxFails    \* bound: runs that fail or are interrupted

ASSUME TrainingAssumption ==
  /\ MaxSteps \in Nat \ {0} /\ EpochLen \in Nat \ {0}
  /\ ValEvery \in 1..EpochLen /\ ValEvery <= MaxSteps
  /\ Patience \in Nat \ {0}
  /\ Scores \subseteq Nat \ {0}
  /\ MaxRuns \in Nat /\ MaxFails \in Nat

NotANumber == 0
NoScore == -1

VARIABLES
  cfg,    \* the pipeline, whether a modifier made it a PEFT model, how the data
          \* loaders work, whether runs are resumed, and where vector_db keeps its points
  store,  \* the collection: whether the knowledge base is in it, and the
          \* evaluations whose points are
  last,   \* last.ckpt
  job,    \* the local state of the run
  saved,  \* the adapters saved to the registry
  runs,   \* runs started
  fails   \* runs that failed or were interrupted

vars == <<cfg, store, last, job, saved, runs, fails>>

Configs ==
  [pipeline : {"decoder"}, peft : BOOLEAN, resume : BOOLEAN,
   loader : {"main", "forked", "persistent"}, db : {"own"}]
  \cup
  [pipeline : {"rag"}, peft : BOOLEAN, resume : BOOLEAN,
   loader : {"persistent"}, db : {"own", "collection"}]

Sides == {"right", "left"}
Weights == [run : 0..MaxRuns, step : 0..MaxSteps]
Outcomes == Scores \cup {NotANumber}

\* what ModelCheckpoint and EarlyStopping remember
Best == [score : Outcomes \cup {NoScore}, of : Weights]
Watch == [best : Best, wait : Nat]
-----------------------------------------------------------------------------
(* The names of the parameters, <<name, adapter>>.                         *)

LoraKeys == {<<"lora", "default">>}
ModelKeys == {<<"base", "">>} \cup IF cfg.peft THEN LoraKeys ELSE {}

\* on_save_checkpoint keeps the adapter's weights alone, under names from which
\* get_peft_model_state_dict has cut the adapter.
SavedKeys == IF cfg.peft THEN {<<"lora", "">>} ELSE ModelKeys

\* the trainer loads a checkpoint strictly,
Restorable == SavedKeys = ModelKeys

\* and the final test loads of the best one what has "lora_" in its name and a
\* parameter of that name.
Loaded == {k \in SavedKeys : k[1] = "lora"} \cap ModelKeys
-----------------------------------------------------------------------------
NoWeights == [run |-> 0, step |-> 0]
NoBest == [score |-> NoScore, of |-> NoWeights]
NoWatch == [best |-> NoBest, wait |-> 0]
NoLast == [there |-> FALSE, weights |-> NoWeights, watch |-> NoWatch]

NoJob ==
  [pc |-> "idle", weights |-> NoWeights, watch |-> NoWatch, seen |-> {}, score |-> NoScore,
   tok |-> "right", train |-> "right", val |-> "right", sides |-> {},
   owned |-> FALSE, evals |-> 0, mixed |-> {}, tested |-> NoWeights, stage |-> "val"]

At(pc) == job.pc = pc
Goto(pc) == job' = [job EXCEPT !.pc = pc]

Init ==
  /\ cfg \in Configs
  /\ store = [kb |-> FALSE, evals |-> {}]
  /\ last = NoLast
  /\ job = NoJob
  /\ saved = {}
  /\ runs = 0
  /\ fails = 0

\* The index pipeline fills the collection.
Index ==
  /\ cfg.db = "collection" /\ ~store.kb
  /\ store' = [store EXCEPT !.kb = TRUE]
  /\ UNCHANGED <<cfg, last, job, saved, runs, fails>>
-----------------------------------------------------------------------------
(* From the start of the process to the first step.                        *)

\* resume_training is given with each run.
Start(resume) ==
  /\ At("idle") /\ runs < MaxRuns
  /\ resume => cfg.resume
  /\ runs' = runs + 1
  /\ job' = [NoJob EXCEPT !.pc = IF resume /\ last.there THEN "restore" ELSE "sanity",
                          !.weights = [run |-> runs', step |-> 0]]
  /\ UNCHANGED <<cfg, store, last, saved, fails>>

\* trainer.fit(ckpt_path = last.ckpt), which raises on other names.
Restore ==
  /\ At("restore")
  /\ IF Restorable
       THEN job' = [job EXCEPT !.pc = IF last.weights.step = MaxSteps THEN "load" ELSE "sanity",
                               !.weights.step = last.weights.step,
                               !.watch = last.watch, !.owned = TRUE,
                               !.seen = {last.watch.best.score}]
       ELSE job' = NoJob
  /\ UNCHANGED <<cfg, store, last, saved, runs, fails>>

\* Mutant of Side: the workers share the tokenizer of the process.
SideShared(worker) == job.tok

\* The side the next batch of a loader is padded at: its workers copied the
\* collator with its tokenizer when they were forked, which without
\* persistent_workers is at each epoch and at each validation.
Side(worker) == IF cfg.loader = "main" THEN job.tok ELSE worker

\* The two sanity batches fork the workers of the validation loader, and the
\* first batch those of the training loader.
Sanity ==
  /\ At("sanity")
  /\ job' = [job EXCEPT !.pc = "train", !.train = job.tok, !.val = job.tok]
  /\ UNCHANGED <<cfg, store, last, saved, runs, fails>>
-----------------------------------------------------------------------------
(* The loop of the trainer.                                                *)

\* The batches of each epoch are counted anew.
Checks(step) == (((step - 1) % EpochLen) + 1) % ValEvery = 0

\* Mutant of Train: only a validation looks at max_steps.
TrainOn ==
  /\ At("train")
  /\ LET step == job.weights.step + 1 IN
     job' = [job EXCEPT !.weights.step = step,
                        !.pc = IF Checks(step) THEN "validate" ELSE "train"]
  /\ UNCHANGED <<cfg, store, last, saved, runs, fails>>

Train ==
  /\ At("train")
  /\ LET step == job.weights.step + 1
         side == Side(IF cfg.loader = "forked" /\ step % EpochLen = 1 % EpochLen
                        THEN job.tok ELSE job.train)
     IN job' = [job EXCEPT
          !.weights.step = step, !.train = side, !.sides = @ \cup {side},
          !.pc = CASE Checks(step)    -> "validate"
                   [] step = MaxSteps -> "load"
                   [] OTHER           -> "train"]
  /\ UNCHANGED <<cfg, store, last, saved, runs, fails>>

\* validation_step on every batch.  The score of the rag pipeline is not the
\* loss but what its callback measures.
Validate ==
  /\ At("validate")
  /\ LET side == Side(IF cfg.loader = "forked" THEN job.tok ELSE job.val)
         next == [job EXCEPT !.stage = "val", !.val = side, !.sides = @ \cup {side}]
     IN IF cfg.pipeline = "rag"
          THEN job' = [next EXCEPT !.pc = "prepare"]
          ELSE \E s \in Outcomes : job' = [next EXCEPT !.pc = "generate", !.score = s]
  /\ UNCHANGED <<cfg, store, last, saved, runs, fails>>

\* The next state after an evaluation.
Evaluated == IF job.stage = "val" THEN "checkpoint" ELSE "save"

\* GenerationEvaluationCallback: the generator it makes pads on the left with
\* the tokenizer it is given.  Without raw texts to generate from it is off.
Generate ==
  /\ At("generate")
  /\ \E ready \in BOOLEAN :
       job' = [job EXCEPT !.pc = Evaluated, !.tok = IF ready THEN "left" ELSE @]
  /\ UNCHANGED <<cfg, store, last, saved, runs, fails>>
-----------------------------------------------------------------------------
(* RetrievalEvaluationCallback                                             *)

Shared == cfg.db = "collection"

\* Mutant of Prepare: the store is never reset.
PrepareNever ==
  /\ At("prepare")
  /\ store' = IF job.evals = 0 /\ ~Shared THEN [kb |-> FALSE, evals |-> {}] ELSE store
  /\ job' = [job EXCEPT !.pc = "insert", !.evals = @ + 1]
  /\ UNCHANGED <<cfg, last, saved, runs, fails>>

\* The first batch: the store is made when there is none, which connects to the
\* collection as it is, and reset, collection and all, when there is one.
Prepare ==
  /\ At("prepare")
  /\ store' = IF job.evals = 0 /\ Shared THEN store ELSE [kb |-> FALSE, evals |-> {}]
  /\ job' = [job EXCEPT !.pc = "insert", !.evals = @ + 1]
  /\ UNCHANGED <<cfg, last, saved, runs, fails>>

Own == [run |-> job.weights.run, eval |-> job.evals]

InsertEval ==
  /\ At("insert")
  /\ store' = [store EXCEPT !.evals = @ \cup {Own}]
  /\ Goto("measure")
  /\ UNCHANGED <<cfg, last, saved, runs, fails>>

\* Every point of the store is a candidate.
Measure ==
  /\ At("measure")
  /\ \E s \in Scores :
       job' = [job EXCEPT !.pc = Evaluated,
                          !.score = IF job.stage = "val" THEN s ELSE @,
                          !.mixed = IF store.evals = {Own} THEN @ ELSE @ \cup {job.evals}]
  /\ UNCHANGED <<cfg, store, last, saved, runs, fails>>
-----------------------------------------------------------------------------
(* EarlyStopping and ModelCheckpoint, in this order.                       *)

\* The score is watched: NaN is worse than all and stops the run.
Watched(w, score, weights) ==
  IF score > w.best.score
    THEN [best |-> [score |-> score, of |-> weights], wait |-> 0]
    ELSE [w EXCEPT !.wait = @ + 1]

Stops(watch) == watch.wait >= Patience \/ job.score = NotANumber

\* Mutant of Checkpoint: the last score takes the place of the best.
CheckpointLast ==
  /\ At("checkpoint")
  /\ LET watch == [Watched(job.watch, job.score, job.weights) EXCEPT
                     !.best = [score |-> job.score, of |-> job.weights]]
     IN
     /\ last' = IF job.owned \/ ~last.there
                  THEN [there |-> TRUE, weights |-> job.weights, watch |-> watch] ELSE last
     /\ job' = [job EXCEPT
          !.watch = watch, !.seen = @ \cup {job.score}, !.owned = @ \/ ~last.there,
          !.pc = IF Stops(watch) \/ job.weights.step = MaxSteps THEN "load" ELSE "train"]
  /\ UNCHANGED <<cfg, store, saved, runs, fails>>

\* last.ckpt of an earlier run is not written over: the file gets another name,
\* which no resume looks for.
Checkpoint ==
  /\ At("checkpoint")
  /\ LET watch == Watched(job.watch, job.score, job.weights) IN
     /\ last' = IF job.owned \/ ~last.there
                  THEN [there |-> TRUE, weights |-> job.weights, watch |-> watch] ELSE last
     /\ job' = [job EXCEPT
          !.watch = watch, !.seen = @ \cup {job.score}, !.owned = @ \/ ~last.there,
          !.pc = IF Stops(watch) \/ job.weights.step = MaxSteps THEN "load" ELSE "train"]
  /\ UNCHANGED <<cfg, store, saved, runs, fails>>
-----------------------------------------------------------------------------
(* The end of a run.                                                       *)

\* Mutant of Load: the names have to match, as in a resume.
LoadStrict ==
  /\ At("load")
  /\ job' = IF job.watch.best # NoBest /\ Loaded # ModelKeys THEN NoJob
            ELSE [job EXCEPT !.pc = "test"]
  /\ UNCHANGED <<cfg, store, last, saved, runs, fails>>

\* The weights of the best checkpoint are loaded for the test, if there is one.
Load ==
  /\ At("load")
  /\ job' = [job EXCEPT
       !.pc = "test",
       !.weights = IF job.watch.best # NoBest /\ Loaded # {} THEN job.watch.best.of ELSE @]
  /\ UNCHANGED <<cfg, store, last, saved, runs, fails>>

\* trainer.test with a loader of its own, and the same callback.
Test ==
  /\ At("test")
  /\ job' = [job EXCEPT !.pc = IF cfg.pipeline = "rag" THEN "prepare" ELSE "generate",
                        !.stage = "test", !.tested = job.weights]
  /\ UNCHANGED <<cfg, store, last, saved, runs, fails>>

\* Mutant of SaveAdapter: the best weights are put back after the test.
SaveAdapterBest ==
  /\ At("save")
  /\ saved' = IF cfg.peft /\ job.watch.best # NoBest
       THEN saved \cup {[weights |-> job.watch.best.of, best |-> job.watch.best,
                         seen |-> job.seen, tested |-> job.tested]}
       ELSE saved
  /\ job' = NoJob
  /\ UNCHANGED <<cfg, store, last, runs, fails>>

\* save_adapter, for a PEFT model with a best score.
SaveAdapter ==
  /\ At("save")
  /\ saved' = IF cfg.peft /\ job.watch.best # NoBest
       THEN saved \cup {[weights |-> job.weights, best |-> job.watch.best,
                         seen |-> job.seen, tested |-> job.tested]}
       ELSE saved
  /\ job' = NoJob
  /\ UNCHANGED <<cfg, store, last, runs, fails>>

\* Ctrl+C in fit: some versions of the trainer return, others end the process.
Interrupt ==
  /\ job.pc \in {"sanity", "train", "validate", "generate", "prepare", "insert", "measure",
                 "checkpoint"}
  /\ job.stage = "val"
  /\ fails < MaxFails /\ fails' = fails + 1
  /\ Goto("load")
  /\ UNCHANGED <<cfg, store, last, saved, runs>>

\* An exception in fit or in the test, or the end of the process.
Fail ==
  /\ job.pc # "idle"
  /\ fails < MaxFails /\ fails' = fails + 1
  /\ job' = NoJob
  /\ UNCHANGED <<cfg, store, last, saved, runs>>

Step ==
  \/ \E resume \in BOOLEAN : Start(resume)
  \/ Restore \/ Sanity \/ Train \/ Validate \/ Generate
  \/ Prepare \/ InsertEval \/ Measure \/ Checkpoint
  \/ Load \/ Test \/ SaveAdapter

Next == Step \/ Index \/ Interrupt \/ Fail

Spec == Init /\ [][Next]_vars

(* A run goes on unless it fails, and the retraining is started again.     *)
FairSpec == Spec /\ WF_vars(Step)
-----------------------------------------------------------------------------
(* Properties                                                              *)

Jobs ==
  [pc : {"idle", "restore", "sanity", "train", "validate", "generate", "prepare", "insert",
         "measure", "checkpoint", "load", "test", "save"},
   weights : Weights, watch : Watch, seen : SUBSET (Outcomes \cup {NoScore}),
   score : Outcomes \cup {NoScore}, tok : Sides, train : Sides, val : Sides,
   sides : SUBSET Sides, owned : BOOLEAN, evals : 0..MaxSteps + 1,
   mixed : SUBSET (1..MaxSteps + 1), tested : Weights, stage : {"val", "test"}]

Saves ==
  [weights : Weights, best : Best, seen : SUBSET (Outcomes \cup {NoScore}), tested : Weights]

TypeOK ==
  /\ cfg \in Configs
  /\ store \in [kb : BOOLEAN, evals : SUBSET [run : 1..MaxRuns, eval : 1..MaxSteps + 1]]
  /\ last \in [there : BOOLEAN, weights : Weights, watch : Watch]
  /\ job \in Jobs
  /\ saved \subseteq Saves
  /\ runs \in 0..MaxRuns
  /\ fails \in 0..MaxFails

(* What is saved was tested: the adapter of the registry has the weights   *)
(* the run's test was about, and the score it is saved with is the best of *)
(* the scores its run saw, whatever stopped the run.                       *)
SavedAsTested ==
  \A s \in saved :
    /\ s.weights = s.tested
    /\ s.best.score \in s.seen
    /\ \A score \in s.seen : score <= s.best.score

(* The prompts of a batch are masked from the left, so the collator must   *)
(* pad on the right.  With persistent workers it does so in every training *)
(* and validation batch of a run, although the generation callback turns   *)
(* the tokenizer around after the first validation.                        *)
PersistentKeepsSide == cfg.loader = "persistent" => job.sides \subseteq {"right"}

(* An evaluation of the retrieval measures its own points: those of an     *)
(* earlier one are gone.  Only the first of a run may meet what another    *)
(* run left in a collection they share.                                    *)
FreshEval == job.mixed \subseteq IF Shared THEN {1} ELSE {}

(* A PEFT run that is not resumed and does not fail saves an adapter in    *)
(* the end.                                                                *)
SavesInTheEnd == cfg.peft /\ ~cfg.resume => <>(saved # {})
-----------------------------------------------------------------------------
(* What the documentation says and the code does not keep.                 *)

(* "Loading the best LoRA weights for the test" (train.py): an adapter is  *)
(* saved with the weights its score was measured on.                       *)
SavedIsBest == \A s \in saved : s.weights = s.best.of

(* retrieval_eval.yaml: the callback builds an ephemeral vector_db for     *)
(* each validation; so no training takes the knowledge base away.          *)
KnowledgeBaseKept == [][store.kb => store'.kb]_store
=============================================================================
