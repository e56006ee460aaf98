------------------------------ MODULE Evaluation ------------------------------
(***************************************************************************)
(* How a deployment is judged.  build_benchmark asks a generator for a     *)
(* question on each chunk of the shuffled texts and keeps the pairs that   *)
(* an NLI judge finds entailed; the jobs that read its file are the DAG's  *)
(* drift check of the retriever and of the decoder (run_universal_eval,    *)
(* tried twice), the end-to-end run through the gateway (e2e_eval), and,   *)
(* with documents of its own, the retrieval evaluation of a training run.  *)
(*                                                                         *)
(* A job reads the storage in its first step and never writes it, and only *)
(* the builder's two uploads write it: what remains of every interleaving  *)
(* is that jobs begin before, between and after the two uploads (Quiet).   *)
(* Scores are integers: rouge in 0..Best, nDCG and MRR in parts of Unit.   *)
(***************************************************************************)
EXTENDS Integers, SequencesExt

CONSTANTS
  Chunks,      \* the chunks of the source's texts
  Short,       \* those below min_chunk_length
  Indexed,     \* those in the index: near duplicates are not
  BenchSize,   \* benchmark_size
  Attempts,    \* retry_attempts of the API generator
  Judgements,  \* what the NLI pipeline may return: scores of labels
  NliMin,      \* nli_threshold
  Decoder,     \* the decoder pipeline's benchmarks: sequences of records
  MaxBuilds,   \* bound: runs of build_benchmark
  MaxSamples,  \* MAX_SAMPLES
  Best,        \* the best rouge
  RougeMin,    \* ROUGE_THRESHOLD
  LatencyMax,  \* LATENCY_P95_MAX_S
  RetrievalK,  \* top_k of the search
  RerankK,     \* rerank_top_k: what the user sees
  Unit,        \* the scale of MRR and nDCG
  Discount,    \* Discount[i]: 1 / log2(i + 1) in parts of Unit
  DriftMin     \* drift_threshold, in percent

ASSUME EvaluationAssumption ==
  /\ Short \subseteq Chunks /\ Indexed \subseteq Chunks
  /\ IsFiniteSet(Chunks)
  /\ {BenchSize, Attempts, MaxSamples, RetrievalK, RerankK, Unit, Best} \subseteq Nat \ {0}
  /\ {MaxBuilds, RougeMin, LatencyMax, DriftMin} \subseteq Nat
  /\ \A d \in Decoder : \A i \in DOMAIN d : d[i].full \in BOOLEAN
  /\ Discount[1] = Unit
  /\ \A i, j \in 1..RetrievalK : i < j => Discount[j] < Discount[i]
  /\ \A i \in 1..RetrievalK : Discount[i] \in Nat \ {0} /\ Unit % i = 0

VARIABLES
  build,     \* the local state of build_benchmark
  builds,    \* runs of it
  manifest,  \* the RAG sections: load_type of nli_pipeline, benchmark_uri, benchmark_size
  file,      \* the RAG benchmark in the storage
  decoder,   \* the decoder's benchmark
  job        \* the local state of the evaluation job

evaluation == <<build, builds, manifest, file, decoder, job>>
storage == <<manifest, file, decoder>>

NotRunning == [pc |-> "idle"]

EvaluationInit ==
  /\ build = NotRunning /\ builds = 0
  /\ manifest \in [nli : {"full_model", "adapter"}, uri : {FALSE}, size : {0}]
  /\ file = <<>>
  /\ decoder \in Decoder
  /\ job = NotRunning
-----------------------------------------------------------------------------
(* The benchmark.                                                          *)

Unseen == [c \in Chunks |-> "unseen"]

\* With generator_type "local" a failing pipeline is not called again.
BuildStart ==
  /\ build = NotRunning /\ builds < MaxBuilds
  /\ manifest.nli = "full_model"
  /\ builds' = builds + 1
  /\ \E attempts \in {1, Attempts} :
       build' = [pc |-> "next", attempts |-> attempts, tries |-> 0, chunk |-> <<>>,
                 seen |-> Unseen, records |-> <<>>]
  /\ UNCHANGED <<storage, job>>

Left == {c \in Chunks : build.seen[c] = "unseen"}

\* The loop's next chunk in the shuffled order, or its end.
NextChunk ==
  /\ build.pc = "next"
  /\ \/ /\ Len(build.records) >= BenchSize \/ Left = {}
        /\ build' = [build EXCEPT !.pc = "upload"]
     \/ /\ Len(build.records) < BenchSize
        /\ \E c \in Left :
             build' = IF c \in Short
                        THEN [build EXCEPT !.seen[c] = "short"]
                        ELSE [build EXCEPT !.pc = "generate", !.chunk = c, !.tries = 0]
  /\ UNCHANGED <<builds, storage, job>>

Skipped(why) == [build EXCEPT !.pc = "next", !.seen[build.chunk] = why]

CallFails ==
  /\ build.pc = "generate"
  /\ build' = IF build.tries + 1 < build.attempts
                THEN [build EXCEPT !.tries = @ + 1]
                ELSE Skipped("unanswered")
  /\ UNCHANGED <<builds, storage, job>>

\* A pair in JSON, fenced or not, of a question and an answer; anything else
\* is no pair.
Parsed(reply) == reply \in {"pair", "fenced pair"}

Generate ==
  /\ build.pc = "generate"
  /\ \E reply \in {"pair", "fenced pair", "blank answer", "prose"} :
       build' = IF Parsed(reply) THEN [build EXCEPT !.pc = "judge"] ELSE Skipped("unanswered")
  /\ UNCHANGED <<builds, storage, job>>

LabelWeight == [entailment |-> 2, neutral |-> 1, contradiction |-> 0]

\* The score of the entailment label; without one the highest score of a label
\* the map knows, by its weight.
EntailmentScore(scores) ==
  LET known == DOMAIN scores \cap DOMAIN LabelWeight
  IN  IF "entailment" \in known THEN 2 * scores["entailment"]
      ELSE IF known = {} THEN 0
      ELSE LET first == CHOOSE l \in known : \A m \in known : scores[l] >= scores[m]
           IN  LabelWeight[first] * scores[first]

\* The pair is kept if the verdict is true.
Judge ==
  /\ build.pc = "judge"
  /\ \E scores \in Judgements :
       build' = IF EntailmentScore(scores) >= 2 * NliMin
                  THEN [Skipped("entailed") EXCEPT
                          !.records = Append(@, [chunk |-> build.chunk, full |-> TRUE])]
                  ELSE Skipped("refuted")
  /\ UNCHANGED <<builds, storage, job>>

\* Mutant of JudgeFails: what could not be judged is kept.
JudgeFailsKeeps ==
  /\ build.pc = "judge"
  /\ build' = [Skipped("not judged") EXCEPT
                 !.records = Append(@, [chunk |-> build.chunk, full |-> TRUE])]
  /\ UNCHANGED <<builds, storage, job>>

\* A pipeline that raises leaves the verdict None, which is not true.
JudgeFails ==
  /\ build.pc = "judge"
  /\ build' = Skipped("not judged")
  /\ UNCHANGED <<builds, storage, job>>

Upload ==
  /\ build.pc = "upload"
  /\ file' = build.records
  /\ build' = [pc |-> "manifest", size |-> Len(build.records)]
  /\ UNCHANGED <<builds, manifest, decoder, job>>

\* A manifest that cannot be read is replaced by one with this section only.
WriteManifest ==
  /\ build.pc = "manifest"
  /\ \E read \in BOOLEAN :
       manifest' = [nli |-> IF read THEN manifest.nli ELSE "none",
                    uri |-> TRUE, size |-> build.size]
  /\ build' = NotRunning
  /\ UNCHANGED <<builds, file, decoder, job>>

Kill ==
  /\ build # NotRunning
  /\ build' = NotRunning
  /\ UNCHANGED <<builds, storage, job>>
-----------------------------------------------------------------------------
(* RetrieverMetrics: the metrics of one query.                             *)

\* compute_chunk_id of build_benchmark hashes the text, _generate_doc_id of the
\* indexer the text with its url and title.
ChunkId(c) == <<c>>
DocId(c) == <<c, "url", "title">>

\* What a search can return: documents in the final order, high if their dense
\* score reaches similarity_threshold.  A document may come twice.
Results == SeqOf([doc : {DocId(c) : c \in Indexed}, high : BOOLEAN], RetrievalK)

\* Mutant of Hits: a relevant document counts each time it comes.
HitsAll(results, final, truth) == {i \in final : results[i].doc \in truth}

\* The positions of relevant documents, of each the first.
Hits(results, final, truth) ==
  {i \in final : /\ results[i].doc \in truth
                 /\ \A j \in final : results[j].doc = results[i].doc => i <= j}

\* The discounts of some ranks, summed up.
Gain(ranks) ==
  LET dcg[i \in 0..RetrievalK] ==
        IF i = 0 THEN 0 ELSE dcg[i - 1] + (IF i \in ranks THEN Discount[i] ELSE 0)
  IN  dcg[RetrievalK]

Nothing == [n |-> 1, bi |-> 0, final |-> 0, mrr |-> 0, ndcg |-> 0, hits |-> 0, empty |-> 1]

Measured(results, truth, k) ==
  LET kept == {i \in DOMAIN results : results[i].high}
      Rank(i) == Cardinality({j \in kept : j <= i})
      final == {i \in kept : Rank(i) <= k}
      hits == {Rank(i) : i \in Hits(results, final, truth)}
      ideal == 1..Min({Cardinality(truth), Cardinality(final)})
  IN  IF kept = {} THEN Nothing
      ELSE [n     |-> 1,
            bi    |-> IF \E i \in kept : results[i].doc \in truth THEN 1 ELSE 0,
            final |-> IF hits # {} THEN 1 ELSE 0,
            mrr   |-> IF hits = {} THEN 0 ELSE Unit \div Min(hits),
            ndcg  |-> (Gain(hits) * Unit) \div Gain(ideal),
            hits  |-> Cardinality(hits),
            empty |-> 0]

NoSums == [Nothing EXCEPT !.n = 0, !.empty = 0]
Added(s, t) == [f \in DOMAIN s |-> s[f] + t[f]]
-----------------------------------------------------------------------------
(* The drift check and the retrieval evaluation of a training run.         *)

Quiet == job = NotRunning /\ (build = NotRunning \/ build.pc = "manifest")

JobAt(pc) == job # NotRunning /\ job.pc = pc
Exits(code) == job' = [job EXCEPT !.pc = "exit", !.code = code]

\* gate: the configuration sets drift_threshold; rouge: the quality of the
\* decoder in Staging.
StartDrift ==
  /\ Quiet
  /\ \E kind \in {"rag", "decoder"}, gate \in BOOLEAN, rouge \in 0..Best :
       /\ kind = "rag" => rouge = 0
       /\ job' = [kind |-> kind, pc |-> "resolve", gate |-> gate, rouge |-> rouge,
                  attempt |-> 1, code |-> 0, todo |-> <<>>, sums |-> NoSums,
                  metrics |-> <<>>, exported |-> FALSE, alert |-> FALSE]
  /\ UNCHANGED <<build, builds, storage>>

Benchmark == IF job.kind = "rag" THEN file ELSE decoder

\* Whatever fails while artifacts are resolved, a manifest without vector_db_uri
\* and a benchmark that is absent or empty end the job with 1.
Resolve ==
  /\ JobAt("resolve")
  /\ \/ Exits(1)
     \/ /\ job.kind = "rag" => manifest.uri
        /\ Benchmark # <<>>
        /\ job' = [job EXCEPT !.pc = "evaluate", !.todo = Benchmark]
  /\ UNCHANGED <<build, builds, storage>>

\* An exception of the search, of a model or of a generation is not caught.
Crash ==
  /\ JobAt("evaluate") /\ job.kind # "val"
  /\ Exits(1)
  /\ UNCHANGED <<build, builds, storage>>

\* The callback indexes the documents of the validation set and searches each
\* query's own; the job searches the index with the benchmark's questions.
StartVal ==
  /\ Quiet /\ build = NotRunning /\ builds = 0
  /\ \E queries \in SeqOf({[chunk |-> c, full |-> TRUE] : c \in Indexed}, BenchSize) :
       /\ queries # <<>> /\ IsInjective(queries)
       /\ job' = [kind |-> "val", pc |-> "evaluate", code |-> 0, sums |-> NoSums,
                  todo |-> queries]
  /\ UNCHANGED <<build, builds, storage>>

Truth(kind, c) == IF kind = "val" THEN {DocId(c)} ELSE {ChunkId(c)}

Search ==
  /\ JobAt("evaluate") /\ job.kind \in {"rag", "val"} /\ job.todo # <<>>
  /\ LET truth == Truth(job.kind, Head(job.todo).chunk)
         k == IF job.kind = "val" THEN RetrievalK ELSE RerankK
     IN  \E results \in Results :
           job' = [job EXCEPT !.todo = Tail(@), !.sums = Added(@, Measured(results, truth, k))]
  /\ UNCHANGED <<build, builds, storage>>

Searched ==
  /\ JobAt("evaluate") /\ job.kind \in {"rag", "val"} /\ job.todo = <<>>
  /\ IF job.kind = "val" THEN Exits(0)
     ELSE job' = [job EXCEPT !.pc = "export",
                    !.metrics = [recall_biencoder |-> (100 * job.sums.bi) \div job.sums.n,
                                 mrr |-> (100 * job.sums.mrr) \div (Unit * job.sums.n)]]
  /\ UNCHANGED <<build, builds, storage>>

\* The metrics of GeneratorMetricsPipeline: each is computed from all the
\* answers or, if it raises, left out.
StatisticalMetrics == {"rouge1", "rougeL", "bleu"}
TextQualityMetrics == {"repetition_rate", "length_ratio_mean"}
GenerationSpeedMetrics == {"latency_p95_s", "throughput_tokens_per_s"}
Classes == {StatisticalMetrics, TextQualityMetrics, GenerationSpeedMetrics}

Computed(failed, rouge) ==
  [key \in UNION (Classes \ failed) |-> IF key = "rouge1" THEN (100 * rouge) \div Best ELSE 1]

\* num_random of the records are generated and measured; a result without
\* metrics is neither exported nor checked.
Evaluate ==
  /\ JobAt("evaluate") /\ job.kind = "decoder"
  /\ \E failed \in SUBSET Classes :
       IF failed = Classes THEN Exits(0)
       ELSE job' = [job EXCEPT !.pc = "export", !.metrics = Computed(failed, job.rouge)]
  /\ UNCHANGED <<build, builds, storage>>

Export ==
  /\ JobAt("export")
  /\ job' = [job EXCEPT !.pc = "gate", !.exported = TRUE]
  /\ UNCHANGED <<build, builds, storage>>

DriftKey == IF job.kind = "rag" THEN "recall_biencoder" ELSE "rouge1"

\* A key that is not among the metrics is a warning.
CheckDrift ==
  /\ JobAt("gate")
  /\ IF job.gate /\ DriftKey \in DOMAIN job.metrics /\ job.metrics[DriftKey] < DriftMin
       THEN Exits(1) ELSE Exits(0)
  /\ UNCHANGED <<build, builds, storage>>

\* retries: 1; a task that failed twice alerts.
Retry ==
  /\ JobAt("exit") /\ job.kind \in {"rag", "decoder"}
  /\ IF job.code = 1 /\ job.attempt = 1
       THEN job' = [job EXCEPT !.pc = "resolve", !.attempt = 2, !.code = 0, !.todo = <<>>,
                      !.sums = NoSums, !.metrics = <<>>, !.exported = FALSE]
       ELSE job' = [job EXCEPT !.pc = "done", !.alert = (job.code = 1)]
  /\ UNCHANGED <<build, builds, storage>>
-----------------------------------------------------------------------------
(* e2e_eval.                                                               *)

StartE2e ==
  /\ Quiet
  /\ \E pipeline \in {"rag", "decoder"}, healthy \in BOOLEAN :
       LET records == IF pipeline = "rag" THEN file ELSE decoder
           asks == healthy /\ records # <<>> /\ (pipeline = "rag" => manifest.uri)
           samples == Min({MaxSamples, Len(records)})
       IN  job' = [kind |-> "e2e", pc |-> IF asks THEN "ask" ELSE "exit",
                   code |-> IF asks THEN 0 ELSE 1, errors |-> 0, answers |-> <<>>,
                   samples |-> samples, todo |-> SubSeq(records, 1, samples)]
  /\ UNCHANGED <<build, builds, storage>>

Skip ==
  /\ JobAt("ask") /\ job.todo # <<>> /\ ~Head(job.todo).full
  /\ job' = [job EXCEPT !.todo = Tail(@)]
  /\ UNCHANGED <<build, builds, storage>>

\* The text of the stream is the answer, also the text of an error that the
\* gateway sends in it.
Answer ==
  /\ JobAt("ask") /\ job.todo # <<>> /\ Head(job.todo).full
  /\ \E rouge \in 0..Best, latency \in {LatencyMax, LatencyMax + 1} :
       job' = [job EXCEPT !.todo = Tail(@),
                          !.answers = Append(@, [rouge |-> rouge, latency |-> latency])]
  /\ UNCHANGED <<build, builds, storage>>

Refuse ==
  /\ JobAt("ask") /\ job.todo # <<>> /\ Head(job.todo).full
  /\ job' = [job EXCEPT !.todo = Tail(@), !.errors = @ + 1]
  /\ UNCHANGED <<build, builds, storage>>

\* The latency at index k of the sorted latencies: the least that more than k
\* of them do not exceed.
SortedAt(answers, k) ==
  Min({l \in {answers[i].latency : i \in DOMAIN answers} :
         Cardinality({i \in DOMAIN answers : answers[i].latency <= l}) > k})

\* Mutant of P95: the index of GenerationSpeedMetrics, one below.
P95Below(answers) == SortedAt(answers, Max({0, (95 * Len(answers)) \div 100 - 1}))

P95(answers) == SortedAt(answers, Min({(95 * Len(answers)) \div 100, Len(answers) - 1}))

RougeOf(answers) == MapThenSumSet(LAMBDA i : answers[i].rouge, DOMAIN answers)

Conclude ==
  /\ JobAt("ask") /\ job.todo = <<>>
  /\ Exits(IF /\ job.answers # <<>>
              /\ RougeOf(job.answers) >= RougeMin * Len(job.answers)
              /\ P95(job.answers) <= LatencyMax
              /\ 10 * job.errors <= job.samples
           THEN 0 ELSE 1)
  /\ UNCHANGED <<build, builds, storage>>

\* The pod is deleted.
Finish ==
  /\ JobAt("done") \/ (JobAt("exit") /\ job.kind \in {"e2e", "val"})
  /\ job' = NotRunning
  /\ UNCHANGED <<build, builds, storage>>

EvaluationNext ==
  \/ BuildStart \/ NextChunk \/ CallFails \/ Generate \/ Judge \/ JudgeFails
  \/ Upload \/ WriteManifest \/ Kill
  \/ StartDrift \/ Resolve \/ Crash \/ StartVal \/ Search \/ Searched
  \/ Evaluate \/ Export \/ CheckDrift \/ Retry
  \/ StartE2e \/ Skip \/ Answer \/ Refuse \/ Conclude \/ Finish

EvaluationSpec == EvaluationInit /\ [][EvaluationNext]_evaluation
-----------------------------------------------------------------------------
(* Properties.                                                             *)

Chunked(records) == {records[i].chunk : i \in DOMAIN records}

\* A finished benchmark holds exactly the chunks whose pair the judge found
\* entailed, each once, none too short, at most benchmark_size of them; and
\* if they are fewer, every chunk was tried.  (A judgement or an answer that
\* failed, and a reply that is no pair, must leave no record.)
RecordsEntailed ==
  build # NotRunning /\ build.pc = "upload" =>
    /\ Chunked(build.records) = {c \in Chunks \ Short : build.seen[c] = "entailed"}
    /\ Len(build.records) = Cardinality(Chunked(build.records))
    /\ Len(build.records) <= BenchSize
    /\ Len(build.records) < BenchSize => Left = {}

\* The metrics of a set of queries agree with each other whatever the search
\* returned: what the user sees was found, MRR and nDCG are positive exactly
\* as often as something was found and never above it (a document that the
\* store returns twice must not raise nDCG over 1), and an empty result counts
\* as a miss.
RanksAgree ==
  job # NotRunning /\ job.kind \in {"rag", "val"} =>
    LET s == job.sums
    IN  /\ s.final <= s.bi /\ s.bi + s.empty <= s.n
        /\ s.mrr <= Unit * s.final /\ RetrievalK * s.mrr >= Unit * s.final
        /\ s.ndcg <= Unit * s.final /\ (s.final > 0 => s.ndcg > 0)
        /\ s.final <= s.hits

E2ePassed == job # NotRunning /\ job.kind = "e2e" /\ job.pc = "exit" /\ job.code = 0

\* A passed end-to-end run has answers, good ones on the mean, at most one in
\* twenty of them slow, and at most one request in ten failed.  A drift check
\* that ended well under a threshold measured no less than it, if it measured
\* at all, and one that alerts for drift has written the metrics it judged.
GateSound ==
  /\ E2ePassed =>
       LET slow == {i \in DOMAIN job.answers : job.answers[i].latency > LatencyMax}
       IN  /\ Len(job.answers) > 0
           /\ RougeOf(job.answers) >= RougeMin * Len(job.answers)
           /\ 20 * Cardinality(slow) <= Len(job.answers)
           /\ job.errors * 10 <= job.samples
  /\ job # NotRunning /\ job.kind \in {"rag", "decoder"} /\ job.pc \in {"exit", "done"} =>
       /\ job.code = 0 /\ job.gate /\ DriftKey \in DOMAIN job.metrics =>
            job.metrics[DriftKey] >= DriftMin
       /\ job.metrics # <<>> => job.exported
       /\ job.alert => job.attempt = 2 /\ job.code = 1
-----------------------------------------------------------------------------
(* What the documentation says and the code does not keep.                 *)

\* llm_quality_control.py: the job must end with 1 when the metric is below
\* its threshold, or nobody is alerted.
DegradedIsAlerted ==
  job # NotRunning /\ job.kind = "decoder" /\ job.pc = "done" =>
    (job.gate /\ 100 * job.rouge < DriftMin * Best => job.alert)

\* build_benchmark_rag.yaml: the chunk ids agree with those of the index.
TruthIsIndexed ==
  job # NotRunning /\ job.kind = "rag" /\ job.pc = "evaluate" /\ job.todo # <<>> =>
    Truth("rag", Head(job.todo).chunk) \subseteq {DocId(c) : c \in Chunks}
=============================================================================
