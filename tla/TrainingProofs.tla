--------------------------- MODULE TrainingProofs ---------------------------
(***************************************************************************)
(* Proofs about Training for every length, interval, patience and number   *)
(* of runs: types, what is saved, the side batches are padded at, and what *)
(* an evaluation measures.                                                 *)
(***************************************************************************)
EXTENDS Training, TLAPS

\* The best score is the greatest of those seen, or none has been seen.
BestOf(best, seen) ==
  \/ best = NoBest /\ seen = {}
  \/ /\ best.score \in seen /\ best.of.run >= 1
     /\ \A s \in seen : s <= best.score

\* Which part of a run a program counter belongs to.
Phase ==
  /\ job.pc \in {"idle", "restore", "sanity", "train", "validate", "checkpoint", "load", "test"}
       => job.stage = "val"
  /\ job.pc = "save" => job.stage = "test"
  /\ job.stage = "test" => job.tested = job.weights

\* What holds from the start, and where the steps end.
Begun ==
  /\ job.pc # "idle" => job.weights.run >= 1
  /\ job.pc \in {"restore", "sanity"} => job.tok = "right"
  /\ job.pc \in {"restore", "sanity"} => job.evals = 0
  /\ job.pc = "restore" => last.there
  /\ job.pc \in {"sanity", "train"} => job.weights.step < MaxSteps

\* What the checkpoints remember, of this run and in last.ckpt.
Remembered ==
  /\ BestOf(job.watch.best, job.seen)
  /\ last.there => last.watch.best.score \in Outcomes /\ last.watch.best.of.run >= 1
  /\ job.pc = "checkpoint" => job.score \in Outcomes
  /\ job.pc = "generate" /\ job.stage = "val" => job.score \in Outcomes

\* A run evaluates at most once a step, and once more in the test.
Counted ==
  /\ job.stage = "val" => job.evals <= MaxSteps
  /\ job.pc = "prepare" => job.evals <= MaxSteps
  /\ job.stage = "val" /\ job.pc \in {"train", "generate", "insert", "measure", "checkpoint"}
       => job.evals <= job.weights.step
  /\ job.stage = "val" /\ job.pc \in {"validate", "prepare"} => job.evals < job.weights.step

\* What is in the store when an evaluation measures.
Measured ==
  /\ job.pc = "insert" => job.evals >= 1 /\ (store.evals = {} \/ (job.evals = 1 /\ Shared))
  /\ job.pc = "measure" => job.evals >= 1 /\ (store.evals = {Own} \/ (job.evals = 1 /\ Shared))

\* With persistent workers nothing follows the tokenizer.
Persistent ==
  cfg.loader = "persistent" =>
    job.train = "right" /\ job.val = "right" /\ job.sides \subseteq {"right"}

RunInv ==
  /\ TypeOK
  /\ Phase
  /\ Begun
  /\ Remembered
  /\ Counted
  /\ Measured
  /\ Persistent
  /\ SavedAsTested
  /\ FreshEval

LEMMA ScoresAreNumbers == Outcomes \subseteq Nat /\ NoScore = -1 /\ NoScore \in Int
  BY TrainingAssumption DEF Outcomes, NotANumber, NoScore

LEMMA NoJobTyped == NoJob \in Jobs
  BY TrainingAssumption
  DEF NoJob, Jobs, NoWeights, Weights, NoWatch, Watch, NoBest, Best, NoScore, Sides

LEMMA NoJobInv ==
  ASSUME RunInv, job' = NoJob, UNCHANGED <<cfg, store, last, saved>>,
         runs' \in 0..MaxRuns, fails' \in 0..MaxFails
  PROVE  RunInv'
  <1>2. TypeOK'
    BY NoJobTyped DEF RunInv, TypeOK
  <1>3. Phase' /\ Begun' /\ Counted' /\ Measured' /\ Persistent' /\ Remembered'
    BY TrainingAssumption DEF RunInv, Phase, Begun, Counted, Measured, Persistent, Remembered,
       BestOf, NoJob, NoWatch, NoWeights
  <1>4. SavedAsTested' /\ FreshEval'
    BY DEF RunInv, SavedAsTested, FreshEval, NoJob
  <1> QED
    BY <1>2, <1>3, <1>4 DEF RunInv

LEMMA StartInv ==
  ASSUME RunInv, NEW resume \in BOOLEAN, Start(resume)
  PROVE  RunInv'
  <1> USE DEF Start, At
  <1>0. runs \in Nat /\ runs + 1 \in 1..MaxRuns
    BY TrainingAssumption DEF RunInv, TypeOK
  <1>1. TypeOK'
    <2>1. runs' = runs + 1 /\ [run |-> runs', step |-> 0] \in Weights
      BY <1>0, TrainingAssumption DEF Weights
    <2>2. job' = [NoJob EXCEPT !.pc = job'.pc, !.weights = [run |-> runs', step |-> 0]]
          /\ job'.pc \in {"restore", "sanity"}
      BY NoJobTyped DEF Jobs
    <2>3. job' \in Jobs
      BY <2>1, <2>2, NoJobTyped DEF Jobs
    <2> QED
      BY <1>0, <2>3 DEF RunInv, TypeOK
  <1>2. Phase' /\ Begun' /\ Counted' /\ Measured' /\ Persistent'
    BY <1>0, TrainingAssumption
    DEF RunInv, Phase, Begun, Counted, Measured, Persistent, NoJob
  <1>3. Remembered'
    BY <1>0 DEF RunInv, Remembered, BestOf, NoJob, NoWatch
  <1>4. SavedAsTested' /\ FreshEval'
    BY DEF RunInv, SavedAsTested, FreshEval, NoJob
  <1> QED
    BY <1>1, <1>2, <1>3, <1>4 DEF RunInv

LEMMA TrainInv == RunInv /\ Train => RunInv'
  <1> SUFFICES ASSUME RunInv, Train PROVE RunInv'
    OBVIOUS
  <1> DEFINE step == job.weights.step + 1
             side == Side(IF cfg.loader = "forked" /\ step % EpochLen = 1 % EpochLen
                            THEN job.tok ELSE job.train)
             pc == CASE Checks(step)    -> "validate"
                     [] step = MaxSteps -> "load"
                     [] OTHER           -> "train"
  <1>1. job' = [job EXCEPT !.weights.step = step, !.train = side, !.sides = @ \cup {side},
                           !.pc = pc]
    BY DEF Train
  <1>2. job.pc = "train" /\ UNCHANGED <<cfg, store, last, saved, runs, fails>>
    BY DEF Train, At
  <1>3. job \in Jobs /\ job.weights \in Weights
    BY DEF RunInv, TypeOK, Jobs
  <1>4. step \in 1..MaxSteps /\ step = job.weights.step + 1
    BY <1>2, <1>3, TrainingAssumption DEF RunInv, Begun, Weights
  <1>5. side \in Sides /\ (cfg.loader = "persistent" => side = job.train)
    BY <1>3 DEF Jobs, Side
  <1>6. pc \in {"validate", "load", "train"} /\ (pc = "train" => step # MaxSteps)
    OBVIOUS
  <1> HIDE DEF step, side, pc
  <1>7. job' \in Jobs
    <2>1. [job.weights EXCEPT !.step = step] \in Weights
      BY <1>3, <1>4, TrainingAssumption DEF Weights
    <2>2. job' = [job EXCEPT !.weights = [job.weights EXCEPT !.step = step], !.train = side,
                             !.sides = job.sides \cup {side}, !.pc = pc]
      BY <1>1, <1>3 DEF Jobs
    <2> QED
      BY <1>3, <1>5, <1>6, <2>1, <2>2 DEF Jobs
  <1>8. /\ job'.pc = pc /\ job'.weights = [job.weights EXCEPT !.step = step]
        /\ job'.train = side /\ job'.sides = job.sides \cup {side}
        /\ job'.watch = job.watch /\ job'.seen = job.seen /\ job'.score = job.score
        /\ job'.val = job.val /\ job'.evals = job.evals /\ job'.mixed = job.mixed
        /\ job'.stage = job.stage
    BY <1>1, <1>3 DEF Jobs
  <1> job'.weights.step = step /\ job'.weights.run = job.weights.run
    BY <1>3, <1>8 DEF Weights
  <1>9. TypeOK'
    BY <1>2, <1>7 DEF RunInv, TypeOK
  <1>10. Phase' /\ Begun' /\ Counted' /\ Measured'
    <2>1. Phase' /\ Measured'
      BY <1>2, <1>6, <1>8 DEF RunInv, Phase, Measured
    <2>2. Begun'
      BY <1>2, <1>4, <1>6, <1>8, TrainingAssumption DEF RunInv, Begun
    <2>3. Counted'
      BY <1>2, <1>3, <1>4, <1>6, <1>8, TrainingAssumption DEF RunInv, Counted, Jobs, Weights
    <2> QED
      BY <2>1, <2>2, <2>3
  <1>11. Persistent'
    BY <1>2, <1>5, <1>8 DEF RunInv, Persistent
  <1>12. Remembered' /\ SavedAsTested' /\ FreshEval'
    BY <1>2, <1>6, <1>8 DEF RunInv, Remembered, SavedAsTested, FreshEval, Shared
  <1> QED
    BY <1>9, <1>10, <1>11, <1>12 DEF RunInv

LEMMA SanityInv == RunInv /\ Sanity => RunInv'
  <1> SUFFICES ASSUME RunInv, Sanity PROVE RunInv'
    OBVIOUS
  <1> USE DEF Sanity, At, Goto
  <1>1. job \in Jobs /\ store.evals \in SUBSET [run : 1..MaxRuns, eval : 1..MaxSteps + 1]
        /\ store \in [kb : BOOLEAN, evals : SUBSET [run : 1..MaxRuns, eval : 1..MaxSteps + 1]]
    BY DEF RunInv, TypeOK
  <1>2. job' \in Jobs
    BY <1>1, TrainingAssumption DEF Jobs, Outcomes, Sides, Evaluated
  <1>3. TypeOK'
    BY <1>1, <1>2, TrainingAssumption DEF RunInv, TypeOK, Own
  <1>4. Phase'
    BY <1>1 DEF RunInv, Phase, Jobs, Evaluated
  <1>5. Begun'
    BY <1>1 DEF RunInv, Begun, Jobs, Evaluated
  <1>6. Remembered'
    BY <1>1 DEF RunInv, Remembered, Jobs, Evaluated, Phase, Outcomes
  <1>7. Counted'
    BY <1>1, TrainingAssumption DEF RunInv, Begun, Counted, Jobs, Weights
  <1>8. Measured'
    BY <1>1 DEF RunInv, Measured, Jobs, Evaluated, Own, Shared
  <1>9. Persistent'
    BY <1>1 DEF RunInv, Persistent, Jobs, Side, Begun
  <1>10. SavedAsTested' /\ FreshEval'
    BY <1>1 DEF RunInv, SavedAsTested, FreshEval, Jobs, Shared
  <1> QED
    BY <1>3, <1>4, <1>5, <1>6, <1>7, <1>8, <1>9, <1>10 DEF RunInv

LEMMA ValidateInv == RunInv /\ Validate => RunInv'
  <1> SUFFICES ASSUME RunInv, Validate PROVE RunInv'
    OBVIOUS
  <1> DEFINE side == Side(IF cfg.loader = "forked" THEN job.tok ELSE job.val)
  <1>1. job \in Jobs /\ job.weights \in Weights
    BY DEF RunInv, TypeOK, Jobs
  <1>2. side \in Sides /\ (cfg.loader = "persistent" => side = job.val)
    BY <1>1 DEF Jobs, Side
  <1>3. \E s \in Outcomes \cup {NoScore}, pc \in {"prepare", "generate"} :
          /\ pc = "generate" => s \in Outcomes
          /\ job' = [job EXCEPT !.stage = "val", !.val = side, !.sides = @ \cup {side},
                                !.pc = pc, !.score = s]
    <2> DEFINE next == [job EXCEPT !.stage = "val", !.val = side, !.sides = @ \cup {side}]
    <2>1. CASE cfg.pipeline = "rag"
      <3>1. job' = [next EXCEPT !.pc = "prepare"] /\ job.score \in Outcomes \cup {NoScore}
        BY <1>1, <2>1 DEF Validate, Jobs
      <3>2. job' = [job EXCEPT !.stage = "val", !.val = side, !.sides = @ \cup {side},
                                !.pc = "prepare", !.score = job.score]
        BY <1>1, <3>1 DEF Jobs
      <3> QED
        BY <3>1, <3>2
    <2>2. CASE cfg.pipeline # "rag"
      BY <2>2 DEF Validate
    <2> QED
      BY <2>1, <2>2
  <1> HIDE DEF side
  <1>4. job.pc = "validate" /\ UNCHANGED <<cfg, store, last, saved, runs, fails>>
    BY DEF Validate, At
  <1>5. job' \in Jobs
    <2>1. PICK s \in Outcomes \cup {NoScore}, pc \in {"prepare", "generate"} :
            job' = [job EXCEPT !.stage = "val", !.val = side, !.sides = job.sides \cup {side},
                               !.pc = pc, !.score = s]
      BY <1>1, <1>3 DEF Jobs
    <2> QED
      BY <1>1, <1>2, <2>1 DEF Jobs
  <1>6. /\ job'.pc \in {"prepare", "generate"} /\ job'.stage = "val"
        /\ job'.val = side /\ job'.sides = job.sides \cup {side} /\ job'.train = job.train
        /\ job'.watch = job.watch /\ job'.seen = job.seen /\ job'.evals = job.evals
        /\ job'.mixed = job.mixed /\ job'.weights = job.weights
        /\ job'.pc = "generate" => job'.score \in Outcomes
    BY <1>1, <1>3 DEF Jobs
  <1>7. TypeOK'
    BY <1>4, <1>5 DEF RunInv, TypeOK
  <1>8. Phase' /\ Begun' /\ Remembered' /\ Measured'
    BY <1>4, <1>6 DEF RunInv, Phase, Begun, Remembered, Measured
  <1>9. Counted'
    BY <1>1, <1>4, <1>6, TrainingAssumption DEF RunInv, Counted, Phase, Jobs, Weights
  <1>10. Persistent'
    BY <1>2, <1>4, <1>6 DEF RunInv, Persistent
  <1>11. SavedAsTested' /\ FreshEval'
    BY <1>4, <1>6 DEF RunInv, SavedAsTested, FreshEval, Shared
  <1> QED
    BY <1>7, <1>8, <1>9, <1>10, <1>11 DEF RunInv

LEMMA GenerateInv == RunInv /\ Generate => RunInv'
  <1> SUFFICES ASSUME RunInv, Generate PROVE RunInv'
    OBVIOUS
  <1> USE DEF Generate, At, Goto
  <1>1. job \in Jobs /\ store.evals \in SUBSET [run : 1..MaxRuns, eval : 1..MaxSteps + 1]
        /\ store \in [kb : BOOLEAN, evals : SUBSET [run : 1..MaxRuns, eval : 1..MaxSteps + 1]]
    BY DEF RunInv, TypeOK
  <1>2. job' \in Jobs
    BY <1>1, TrainingAssumption DEF Jobs, Outcomes, Sides, Evaluated
  <1>3. TypeOK'
    BY <1>1, <1>2, TrainingAssumption DEF RunInv, TypeOK, Own
  <1>4. Phase'
    BY <1>1 DEF RunInv, Phase, Jobs, Evaluated
  <1>5. Begun'
    BY <1>1 DEF RunInv, Begun, Jobs, Evaluated
  <1>6. Remembered'
    BY <1>1 DEF RunInv, Remembered, Jobs, Evaluated, Phase, Outcomes
  <1>7. Counted'
    BY <1>1, TrainingAssumption DEF RunInv, Counted, Jobs, Weights, Evaluated, Phase
  <1>8. Measured'
    BY <1>1 DEF RunInv, Measured, Jobs, Evaluated, Own, Shared
  <1>9. Persistent'
    BY <1>1 DEF RunInv, Persistent, Jobs, Side, Begun
  <1>10. SavedAsTested' /\ FreshEval'
    BY <1>1 DEF RunInv, SavedAsTested, FreshEval, Jobs, Shared
  <1> QED
    BY <1>3, <1>4, <1>5, <1>6, <1>7, <1>8, <1>9, <1>10 DEF RunInv

LEMMA PrepareInv == RunInv /\ Prepare => RunInv'
  <1> SUFFICES ASSUME RunInv, Prepare PROVE RunInv'
    OBVIOUS
  <1> USE DEF Prepare, At, Goto
  <1>1. job \in Jobs /\ store.evals \in SUBSET [run : 1..MaxRuns, eval : 1..MaxSteps + 1]
        /\ store \in [kb : BOOLEAN, evals : SUBSET [run : 1..MaxRuns, eval : 1..MaxSteps + 1]]
    BY DEF RunInv, TypeOK
  <1>2. job' \in Jobs
    <2>1. job.evals + 1 \in 0..MaxSteps + 1
      BY <1>1, TrainingAssumption DEF RunInv, Counted, Jobs
    <2> QED
      BY <1>1, <2>1 DEF Jobs
  <1>3. TypeOK'
    BY <1>1, <1>2, TrainingAssumption DEF RunInv, TypeOK, Own
  <1>4. Phase'
    BY <1>1 DEF RunInv, Phase, Jobs, Evaluated
  <1>5. Begun'
    BY <1>1 DEF RunInv, Begun, Jobs, Evaluated
  <1>6. Remembered'
    BY <1>1 DEF RunInv, Remembered, Jobs, Evaluated, Phase, Outcomes
  <1>7. Counted'
    BY <1>1, TrainingAssumption DEF RunInv, Counted, Jobs, Weights, Evaluated, Phase
  <1>8. Measured'
    BY <1>1 DEF RunInv, Measured, Jobs, Evaluated, Own, Shared
  <1>9. Persistent'
    BY <1>1 DEF RunInv, Persistent, Jobs, Side, Begun
  <1>10. SavedAsTested' /\ FreshEval'
    BY <1>1 DEF RunInv, SavedAsTested, FreshEval, Jobs, Shared
  <1> QED
    BY <1>3, <1>4, <1>5, <1>6, <1>7, <1>8, <1>9, <1>10 DEF RunInv

LEMMA InsertEvalInv == RunInv /\ InsertEval => RunInv'
  <1> SUFFICES ASSUME RunInv, InsertEval PROVE RunInv'
    OBVIOUS
  <1> USE DEF InsertEval, At, Goto
  <1>1. job \in Jobs /\ store.evals \in SUBSET [run : 1..MaxRuns, eval : 1..MaxSteps + 1]
        /\ store \in [kb : BOOLEAN, evals : SUBSET [run : 1..MaxRuns, eval : 1..MaxSteps + 1]]
    BY DEF RunInv, TypeOK
  <1>2. job' \in Jobs
    BY <1>1, TrainingAssumption DEF Jobs, Outcomes, Sides, Evaluated
  <1>3. TypeOK'
    <2>1. Own \in [run : 1..MaxRuns, eval : 1..MaxSteps + 1]
      BY <1>1, TrainingAssumption DEF RunInv, Begun, Measured, Jobs, Weights, Own
    <2> QED
      BY <1>1, <1>2, <2>1 DEF RunInv, TypeOK
  <1>4. Phase'
    BY <1>1 DEF RunInv, Phase, Jobs, Evaluated
  <1>5. Begun'
    BY <1>1 DEF RunInv, Begun, Jobs, Evaluated
  <1>6. Remembered'
    BY <1>1 DEF RunInv, Remembered, Jobs, Evaluated, Phase, Outcomes
  <1>7. Counted'
    BY <1>1, TrainingAssumption DEF RunInv, Counted, Jobs, Weights, Evaluated, Phase
  <1>8. Measured'
    BY <1>1 DEF RunInv, Measured, Jobs, Evaluated, Own, Shared
  <1>9. Persistent'
    BY <1>1 DEF RunInv, Persistent, Jobs, Side, Begun
  <1>10. SavedAsTested' /\ FreshEval'
    BY <1>1 DEF RunInv, SavedAsTested, FreshEval, Jobs, Shared
  <1> QED
    BY <1>3, <1>4, <1>5, <1>6, <1>7, <1>8, <1>9, <1>10 DEF RunInv

LEMMA MeasureInv == RunInv /\ Measure => RunInv'
  <1> SUFFICES ASSUME RunInv, Measure PROVE RunInv'
    OBVIOUS
  <1> USE DEF Measure, At, Goto
  <1>1. job \in Jobs /\ store.evals \in SUBSET [run : 1..MaxRuns, eval : 1..MaxSteps + 1]
        /\ store \in [kb : BOOLEAN, evals : SUBSET [run : 1..MaxRuns, eval : 1..MaxSteps + 1]]
    BY DEF RunInv, TypeOK
  <1>2. job' \in Jobs
    <2>1. job.mixed \cup {job.evals} \in SUBSET (1..MaxSteps + 1)
      BY <1>1, TrainingAssumption DEF RunInv, Measured, Jobs
    <2> QED
      BY <1>1, <2>1 DEF Jobs, Outcomes, Evaluated
  <1>3. TypeOK'
    BY <1>1, <1>2, TrainingAssumption DEF RunInv, TypeOK, Own
  <1>4. Phase'
    BY <1>1 DEF RunInv, Phase, Jobs, Evaluated
  <1>5. Begun'
    BY <1>1 DEF RunInv, Begun, Jobs, Evaluated
  <1>6. Remembered'
    BY <1>1 DEF RunInv, Remembered, Jobs, Evaluated, Phase, Outcomes
  <1>7. Counted'
    BY <1>1, TrainingAssumption DEF RunInv, Counted, Jobs, Weights, Evaluated, Phase
  <1>8. Measured'
    BY <1>1 DEF RunInv, Measured, Jobs, Evaluated, Own, Shared
  <1>9. Persistent'
    BY <1>1 DEF RunInv, Persistent, Jobs, Side, Begun
  <1>10. SavedAsTested' /\ FreshEval'
    <2>1. job'.mixed \in {job.mixed, job.mixed \cup {job.evals}}
          /\ (job'.mixed # job.mixed => job.evals = 1 /\ Shared)
      BY <1>1 DEF RunInv, Measured, Jobs
    <2> QED
      BY <1>1, <2>1 DEF RunInv, SavedAsTested, FreshEval, Shared
  <1> QED
    BY <1>3, <1>4, <1>5, <1>6, <1>7, <1>8, <1>9, <1>10 DEF RunInv

LEMMA TestInv == RunInv /\ Test => RunInv'
  <1> SUFFICES ASSUME RunInv, Test PROVE RunInv'
    OBVIOUS
  <1> USE DEF Test, At, Goto
  <1>1. job \in Jobs /\ store.evals \in SUBSET [run : 1..MaxRuns, eval : 1..MaxSteps + 1]
        /\ store \in [kb : BOOLEAN, evals : SUBSET [run : 1..MaxRuns, eval : 1..MaxSteps + 1]]
    BY DEF RunInv, TypeOK
  <1>2. job' \in Jobs
    BY <1>1, TrainingAssumption DEF Jobs, Outcomes, Sides, Evaluated
  <1>3. TypeOK'
    BY <1>1, <1>2, TrainingAssumption DEF RunInv, TypeOK, Own
  <1>4. Phase'
    BY <1>1 DEF RunInv, Phase, Jobs, Evaluated
  <1>5. Begun'
    BY <1>1 DEF RunInv, Begun, Jobs, Evaluated
  <1>6. Remembered'
    BY <1>1 DEF RunInv, Remembered, Jobs, Evaluated, Phase, Outcomes
  <1>7. Counted'
    BY <1>1, TrainingAssumption DEF RunInv, Counted, Jobs, Weights, Evaluated, Phase
  <1>8. Measured'
    BY <1>1 DEF RunInv, Measured, Jobs, Evaluated, Own, Shared
  <1>9. Persistent'
    BY <1>1 DEF RunInv, Persistent, Jobs, Side, Begun
  <1>10. SavedAsTested' /\ FreshEval'
    BY <1>1 DEF RunInv, SavedAsTested, FreshEval, Jobs, Shared
  <1> QED
    BY <1>3, <1>4, <1>5, <1>6, <1>7, <1>8, <1>9, <1>10 DEF RunInv

LEMMA InterruptInv == RunInv /\ Interrupt => RunInv'
  <1> SUFFICES ASSUME RunInv, Interrupt PROVE RunInv'
    OBVIOUS
  <1> USE DEF Interrupt, At, Goto
  <1>1. job \in Jobs /\ store.evals \in SUBSET [run : 1..MaxRuns, eval : 1..MaxSteps + 1]
        /\ store \in [kb : BOOLEAN, evals : SUBSET [run : 1..MaxRuns, eval : 1..MaxSteps + 1]]
    BY DEF RunInv, TypeOK
  <1>2. job' \in Jobs
    BY <1>1, TrainingAssumption DEF Jobs, Outcomes, Sides, Evaluated
  <1>3. TypeOK'
    BY <1>1, <1>2, TrainingAssumption DEF RunInv, TypeOK, Own
  <1>4. Phase'
    BY <1>1 DEF RunInv, Phase, Jobs, Evaluated
  <1>5. Begun'
    BY <1>1 DEF RunInv, Begun, Jobs, Evaluated
  <1>6. Remembered'
    BY <1>1 DEF RunInv, Remembered, Jobs, Evaluated, Phase, Outcomes
  <1>7. Counted'
    BY <1>1, TrainingAssumption DEF RunInv, Counted, Jobs, Weights, Evaluated, Phase
  <1>8. Measured'
    BY <1>1 DEF RunInv, Measured, Jobs, Evaluated, Own, Shared
  <1>9. Persistent'
    BY <1>1 DEF RunInv, Persistent, Jobs, Side, Begun
  <1>10. SavedAsTested' /\ FreshEval'
    BY <1>1 DEF RunInv, SavedAsTested, FreshEval, Jobs, Shared
  <1> QED
    BY <1>3, <1>4, <1>5, <1>6, <1>7, <1>8, <1>9, <1>10 DEF RunInv

LEMMA LoadInv == RunInv /\ Load => RunInv'
  <1> SUFFICES ASSUME RunInv, Load PROVE RunInv'
    OBVIOUS
  <1> USE DEF Load, At, Goto
  <1>1. job \in Jobs /\ store.evals \in SUBSET [run : 1..MaxRuns, eval : 1..MaxSteps + 1]
        /\ store \in [kb : BOOLEAN, evals : SUBSET [run : 1..MaxRuns, eval : 1..MaxSteps + 1]]
    BY DEF RunInv, TypeOK
  <1>2. job' \in Jobs
    <2>1. job.watch.best.of \in Weights /\ job.weights \in Weights
      BY <1>1 DEF Jobs, Watch, Best
    <2>2. PICK w \in Weights : job' = [job EXCEPT !.pc = "test", !.weights = w]
      BY <2>1
    <2> QED
      BY <1>1, <2>2 DEF Jobs
  <1>3. TypeOK'
    BY <1>1, <1>2, TrainingAssumption DEF RunInv, TypeOK, Own
  <1>4. Phase'
    BY <1>1 DEF RunInv, Phase, Jobs, Evaluated
  <1>5. Begun'
    <2>1. job.watch.best # NoBest => job.watch.best.of.run >= 1
      BY DEF RunInv, Remembered, BestOf
    <2> QED
      BY <1>1, <2>1 DEF RunInv, Begun, Jobs
  <1>6. Remembered'
    BY <1>1 DEF RunInv, Remembered, Jobs, Evaluated, Phase, Outcomes
  <1>7. Counted'
    BY <1>1, TrainingAssumption DEF RunInv, Counted, Jobs, Weights, Evaluated, Phase
  <1>8. Measured'
    BY <1>1 DEF RunInv, Measured, Jobs, Evaluated, Own, Shared
  <1>9. Persistent'
    BY <1>1 DEF RunInv, Persistent, Jobs, Side, Begun
  <1>10. SavedAsTested' /\ FreshEval'
    BY <1>1 DEF RunInv, SavedAsTested, FreshEval, Jobs, Shared
  <1> QED
    BY <1>3, <1>4, <1>5, <1>6, <1>7, <1>8, <1>9, <1>10 DEF RunInv

LEMMA RestoreInv == RunInv /\ Restore => RunInv'
  <1> SUFFICES ASSUME RunInv, Restore PROVE RunInv'
    OBVIOUS
  <1>1. job.pc = "restore" /\ UNCHANGED <<cfg, store, last, saved, runs, fails>>
    BY DEF Restore, At
  <1>2. CASE Restorable
    <2> DEFINE pc == IF last.weights.step = MaxSteps THEN "load" ELSE "sanity"
               best == last.watch.best
    <2>1. job' = [job EXCEPT !.pc = pc, !.weights.step = last.weights.step,
                            !.watch = last.watch, !.owned = TRUE, !.seen = {best.score}]
      BY <1>2 DEF Restore
    <2>2. job \in Jobs /\ job.weights \in Weights /\ last.weights \in Weights
          /\ last.watch \in Watch
      BY DEF RunInv, TypeOK, Jobs
    <2>3. best \in Best /\ best.score \in Outcomes /\ best.of.run >= 1
      BY <1>1, <2>2 DEF RunInv, Remembered, Begun, Watch
    <2>4. pc \in {"load", "sanity"} /\ (pc = "sanity" => last.weights.step < MaxSteps)
      BY <2>2, TrainingAssumption DEF Weights
    <2>5. [job.weights EXCEPT !.step = last.weights.step] \in Weights
          /\ best = last.watch.best
      BY <2>2 DEF Weights
    <2> HIDE DEF pc, best
    <2>6. job' = [job EXCEPT !.pc = pc, !.weights = [job.weights EXCEPT !.step = last.weights.step],
                            !.watch = last.watch, !.owned = TRUE, !.seen = {best.score}]
      BY <2>1, <2>2 DEF Jobs
    <2>7. job' \in Jobs
      BY <2>2, <2>3, <2>4, <2>5, <2>6 DEF Jobs
    <2>8. /\ job'.pc = pc /\ job'.stage = job.stage /\ job'.tok = job.tok
          /\ job'.weights = [job.weights EXCEPT !.step = last.weights.step]
          /\ job'.watch = last.watch /\ job'.seen = {best.score} /\ job'.evals = job.evals
          /\ job'.sides = job.sides /\ job'.train = job.train /\ job'.val = job.val
          /\ job'.mixed = job.mixed
      BY <2>2, <2>6 DEF Jobs
    <2>9. job'.weights.run = job.weights.run /\ job'.weights.step = last.weights.step
      BY <2>2, <2>8 DEF Weights
    <2>10. TypeOK'
      BY <1>1, <2>7 DEF RunInv, TypeOK
    <2>11. Phase' /\ Begun' /\ Measured'
      BY <1>1, <2>4, <2>8, <2>9 DEF RunInv, Phase, Begun, Measured
    <2>12. Remembered'
      <3>1. BestOf(best, {best.score})
        <4>1. best.score \in Nat
          BY <2>3, ScoresAreNumbers
        <4> QED
          BY <2>3, <4>1 DEF BestOf
      <3> QED
        BY <1>1, <2>4, <2>5, <2>8, <3>1 DEF RunInv, Remembered
    <2>13. Counted' /\ Persistent' /\ SavedAsTested' /\ FreshEval'
      BY <1>1, <2>2, <2>4, <2>8, TrainingAssumption
      DEF RunInv, Begun, Phase, Counted, Persistent, SavedAsTested, FreshEval, Shared, Jobs
    <2> QED
      BY <2>10, <2>11, <2>12, <2>13 DEF RunInv
  <1>3. CASE ~Restorable
    BY <1>1, <1>3, NoJobInv DEF Restore, RunInv, TypeOK
  <1> QED
    BY <1>2, <1>3

\* The best score after a validation is the greatest of those seen.
LEMMA WatchedBest ==
  ASSUME NEW w \in Watch, NEW score \in Outcomes, NEW weights \in Weights, NEW seen,
         seen \subseteq Outcomes \cup {NoScore}, BestOf(w.best, seen), weights.run >= 1
  PROVE  /\ Watched(w, score, weights) \in Watch
         /\ BestOf(Watched(w, score, weights).best, seen \cup {score})
         /\ Watched(w, score, weights).best.score \in Outcomes
         /\ Watched(w, score, weights).best.of.run >= 1
  <1>1. Outcomes \subseteq Nat /\ NoScore = -1 /\ NoScore \in Int /\ score \in Nat
    BY ScoresAreNumbers
  <1>2. w.best \in Best /\ w.best.score \in Int /\ w.wait \in Nat
    <2>1. w.best \in Best /\ w.wait \in Nat
      BY DEF Watch
    <2>2. w.best.score \in Outcomes \cup {NoScore}
      BY <2>1 DEF Best
    <2> QED
      <3>1. CASE w.best.score \in Outcomes
        <4>1. w.best.score \in Nat
          BY <1>1, <3>1
        <4> QED
          BY <2>1, <4>1
      <3>2. CASE w.best.score = NoScore
        BY <1>1, <2>1, <3>2
      <3> QED
        BY <2>2, <3>1, <3>2
  <1>3. CASE score > w.best.score
    <2>1. Watched(w, score, weights) = [best |-> [score |-> score, of |-> weights], wait |-> 0]
      BY <1>3 DEF Watched
    <2>2. \A s \in seen : s \in Int /\ s <= score
      BY <1>1, <1>2, <1>3 DEF BestOf
    <2>3. BestOf(Watched(w, score, weights).best, seen \cup {score})
      BY <1>1, <2>1, <2>2 DEF BestOf
    <2>4. Watched(w, score, weights) \in Watch
      BY <2>1 DEF Watch, Best
    <2> QED
      BY <2>1, <2>3, <2>4
  <1>4. CASE ~(score > w.best.score)
    <2>1. Watched(w, score, weights) = [w EXCEPT !.wait = w.wait + 1]
      BY <1>4 DEF Watched, Watch
    <2>2. w.best # NoBest /\ w.best.score \in Outcomes
      BY <1>1, <1>2, <1>4 DEF NoBest, Best
    <2>3. Watched(w, score, weights) \in Watch /\ Watched(w, score, weights).best = w.best
      BY <1>2, <2>1 DEF Watch
    <2>4. score <= w.best.score
      BY <1>1, <1>2, <1>4
    <2> QED
      BY <2>2, <2>3, <2>4 DEF BestOf
  <1> QED
    BY <1>3, <1>4

LEMMA CheckpointInv == RunInv /\ Checkpoint => RunInv'
  <1> SUFFICES ASSUME RunInv, Checkpoint PROVE RunInv'
    OBVIOUS
  <1> DEFINE watch == Watched(job.watch, job.score, job.weights)
             pc == IF Stops(watch) \/ job.weights.step = MaxSteps THEN "load" ELSE "train"
             owned == job.owned \/ ~last.there
  <1>1. job.pc = "checkpoint" /\ UNCHANGED <<cfg, store, saved, runs, fails>>
    BY DEF Checkpoint, At
  <1>2. job' = [job EXCEPT !.watch = watch, !.seen = job.seen \cup {job.score},
                           !.owned = owned, !.pc = pc]
    BY DEF Checkpoint, RunInv, TypeOK, Jobs
  <1>3. last' \in {last, [there |-> TRUE, weights |-> job.weights, watch |-> watch]}
    BY DEF Checkpoint
  <1>4. /\ job \in Jobs /\ job.weights \in Weights /\ job.watch \in Watch
        /\ job.score \in Outcomes /\ job.weights.run >= 1
        /\ job.seen \subseteq Outcomes \cup {NoScore} /\ BestOf(job.watch.best, job.seen)
    BY <1>1 DEF RunInv, TypeOK, Jobs, Remembered, Begun
  <1>5. /\ watch \in Watch /\ BestOf(watch.best, job.seen \cup {job.score})
        /\ watch.best.score \in Outcomes /\ watch.best.of.run >= 1
    BY <1>4, WatchedBest
  <1>6. pc \in {"load", "train"} /\ (pc = "train" => job.weights.step # MaxSteps)
        /\ owned \in BOOLEAN
    BY <1>4 DEF RunInv, TypeOK, Jobs
  <1> HIDE DEF watch, pc, owned
  <1>7. job' \in Jobs
    BY <1>2, <1>4, <1>5, <1>6 DEF Jobs
  <1>8. /\ job'.pc = pc /\ job'.watch = watch /\ job'.seen = job.seen \cup {job.score}
        /\ job'.weights = job.weights /\ job'.stage = job.stage /\ job'.evals = job.evals
        /\ job'.sides = job.sides /\ job'.train = job.train /\ job'.val = job.val
        /\ job'.mixed = job.mixed
    BY <1>2, <1>4 DEF Jobs
  <1>9. TypeOK'
    <2>1. last' \in [there : BOOLEAN, weights : Weights, watch : Watch]
      <3>1. last \in [there : BOOLEAN, weights : Weights, watch : Watch]
        BY DEF RunInv, TypeOK
      <3>2. [there |-> TRUE, weights |-> job.weights, watch |-> watch]
              \in [there : BOOLEAN, weights : Weights, watch : Watch]
        BY <1>4, <1>5
      <3> QED
        BY <1>3, <3>1, <3>2
    <2> QED
      BY <1>1, <1>7, <2>1 DEF RunInv, TypeOK
  <1>10. Phase' /\ Measured' /\ Persistent' /\ SavedAsTested' /\ FreshEval'
    BY <1>1, <1>6, <1>8
    DEF RunInv, Phase, Measured, Persistent, SavedAsTested, FreshEval, Shared
  <1>11. Begun'
    BY <1>1, <1>4, <1>6, <1>8, TrainingAssumption DEF RunInv, Begun, Weights
  <1>12. Remembered'
    BY <1>3, <1>5, <1>6, <1>8 DEF RunInv, Remembered
  <1>13. Counted'
    BY <1>1, <1>6, <1>8 DEF RunInv, Counted, Phase
  <1> QED
    BY <1>9, <1>10, <1>11, <1>12, <1>13 DEF RunInv

LEMMA SaveAdapterInv == RunInv /\ SaveAdapter => RunInv'
  <1> SUFFICES ASSUME RunInv, SaveAdapter PROVE RunInv'
    OBVIOUS
  <1> DEFINE new == [weights |-> job.weights, best |-> job.watch.best, seen |-> job.seen,
                     tested |-> job.tested]
  <1>1. job.pc = "save" /\ job' = NoJob /\ UNCHANGED <<cfg, store, last, runs, fails>>
    BY DEF SaveAdapter, At
  <1>2. saved' \subseteq saved \cup {new} /\ (job.watch.best # NoBest \/ saved' = saved)
    BY DEF SaveAdapter
  <1>3. new \in Saves
    BY DEF RunInv, TypeOK, Jobs, Saves, Watch
  <1>4. new.weights = new.tested
    BY <1>1 DEF RunInv, Phase
  <1>5. job.watch.best # NoBest =>
          new.best.score \in new.seen /\ \A score \in new.seen : score <= new.best.score
    BY DEF RunInv, Remembered, BestOf
  <1> HIDE DEF new
  <1>6. TypeOK'
    BY <1>1, <1>2, <1>3, NoJobTyped DEF RunInv, TypeOK
  <1>7. Phase' /\ Begun' /\ Counted' /\ Measured' /\ Persistent' /\ Remembered' /\ FreshEval'
    BY <1>1, TrainingAssumption DEF RunInv, Phase, Begun, Counted, Measured, Persistent,
       Remembered, FreshEval, BestOf, NoJob, NoWatch, NoWeights
  <1>8. SavedAsTested'
    BY <1>2, <1>4, <1>5 DEF RunInv, SavedAsTested
  <1> QED
    BY <1>6, <1>7, <1>8 DEF RunInv

LEMMA FailInv == RunInv /\ Fail => RunInv'
  <1>1. RunInv /\ Fail => fails + 1 \in 0..MaxFails /\ runs \in 0..MaxRuns
    BY TrainingAssumption DEF RunInv, TypeOK, Fail
  <1> QED
    BY <1>1, NoJobInv DEF Fail

LEMMA IndexInv == RunInv /\ Index => RunInv'
  <1> SUFFICES ASSUME RunInv, Index PROVE RunInv'
    OBVIOUS
  <1>1. store' = [store EXCEPT !.kb = TRUE] /\ UNCHANGED <<cfg, last, job, saved, runs, fails>>
    BY DEF Index
  <1>2. TypeOK' /\ store'.evals = store.evals
    BY <1>1 DEF RunInv, TypeOK
  <1>3. Phase' /\ Begun' /\ Remembered' /\ Counted' /\ Persistent'
    BY <1>1 DEF RunInv, Phase, Begun, Remembered, Counted, Persistent
  <1>4. Measured' /\ SavedAsTested' /\ FreshEval'
    BY <1>1, <1>2 DEF RunInv, Measured, SavedAsTested, FreshEval, Own, Shared
  <1> QED
    BY <1>2, <1>3, <1>4 DEF RunInv

LEMMA StutterInv == RunInv /\ UNCHANGED vars => RunInv'
  BY DEF vars, RunInv, TypeOK, Phase, Begun, Remembered, Counted, Measured, Persistent,
     SavedAsTested, FreshEval, Own, Shared

LEMMA RunInit == Init => RunInv
  <1> SUFFICES ASSUME Init PROVE RunInv
    OBVIOUS
  <1>1. NoJob.watch = NoWatch /\ NoJob.seen = {} /\ NoJob.weights = NoWeights
        /\ NoJob.pc = "idle" /\ NoJob.stage = "val" /\ NoJob.evals = 0
        /\ NoJob.train = "right" /\ NoJob.val = "right" /\ NoJob.sides = {}
        /\ NoJob.mixed = {} /\ NoLast.there = FALSE /\ NoWatch.best = NoBest
    BY DEF NoJob, NoLast, NoWatch
  <1>2. NoLast \in [there : BOOLEAN, weights : Weights, watch : Watch]
    BY TrainingAssumption
    DEF NoLast, NoWeights, Weights, NoWatch, Watch, NoBest, Best, NoScore
  <1>3. TypeOK
    BY <1>2, NoJobTyped, TrainingAssumption DEF Init, TypeOK
  <1>4. Phase /\ Begun /\ Remembered /\ Counted /\ Measured /\ Persistent
    BY <1>1, TrainingAssumption
    DEF Init, Phase, Begun, Remembered, Counted, Measured, Persistent, BestOf
  <1>5. SavedAsTested /\ FreshEval
    BY <1>1 DEF Init, SavedAsTested, FreshEval
  <1> QED
    BY <1>3, <1>4, <1>5 DEF RunInv

LEMMA RunNext == RunInv /\ [Next]_vars => RunInv'
  BY StartInv, RestoreInv, SanityInv, TrainInv, ValidateInv, GenerateInv, PrepareInv,
     InsertEvalInv, MeasureInv, CheckpointInv, LoadInv, TestInv, SaveAdapterInv,
     IndexInv, InterruptInv, FailInv, StutterInv DEF Next, Step

\* The invariant holds in every state of every run, started again, resumed or failed.
THEOREM RunInvariant == Spec => []RunInv
  BY RunInit, RunNext, PTL DEF Spec

\* Every variable keeps its type: no run goes on past max_steps, and it
\* evaluates at most once a step and once in the test.
THEOREM TrainingTypeCorrect == Spec => []TypeOK
  <1>1. RunInv => TypeOK
    BY DEF RunInv
  <1> QED
    BY RunInvariant, <1>1, PTL

\* run_universal_train saves the weights it tested, and with the best of the
\* scores its callbacks saw, across resumes, failures and interrupts.
THEOREM SavesWhatItTested == Spec => []SavedAsTested
  <1>1. RunInv => SavedAsTested
    BY DEF RunInv
  <1> QED
    BY RunInvariant, <1>1, PTL

\* With persistent workers every batch of a run is padded on the right.
THEOREM SideKept == Spec => []PersistentKeepsSide
  <1>1. RunInv => PersistentKeepsSide
    BY DEF RunInv, Persistent, PersistentKeepsSide
  <1> QED
    BY RunInvariant, <1>1, PTL

\* RetrievalEvaluationCallback measures the points of its own evaluation; only
\* the first of a run may meet others, in a collection that is shared.
THEOREM EvaluationsFresh == Spec => []FreshEval
  <1>1. RunInv => FreshEval
    BY DEF RunInv
  <1> QED
    BY RunInvariant, <1>1, PTL
=============================================================================
