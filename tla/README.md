# A verification model of the RAG/LLM template

The repository is a template for a retrieval-augmented chat service and for the
life of its models: LoRA adapters are trained, promoted, merged and quantized by
scripts that Airflow or an operator starts; documents are embedded into a vector
database; a gateway answers chat requests with the help of a RAG API and an LLM
server. This directory holds TLA+ models of the parts whose difficulty is order,
overlap and failure, TLC runs over small instances of them, and TLAPS proofs.

    tlc -workers 2 -config release.cfg MCRelease.tla      # a run
    tlapm IndexingProofs.tla                              # proofs

## 1. The system

| Component | State it keeps | Operations | Talks to | Hard because |
|---|---|---|---|---|
| Model registry, `src/src/utils/logging/mlflow_logger.py` | versions with a `val_loss` tag, aliases Staging and Production | `save_adapter`, `promote_model`, `load_adapter`, `get_production_version` | MLflow server, one call per alias and tag | no transaction, compare-then-set, a retry after an unknown outcome |
| Release scripts, `src/src/tools/{promote,merge_lora,quantize_awq}.py`, `src/scripts/prepare_{gguf,artifacts}.py` | none of their own | publish an adapter, a merged, quantized or pretrained model | registry, storage, manifest | each is a chain of remote calls, no locks, killed or retried by Airflow |
| Storage and resolver, `src/src/tools/storage/` | directories of artifacts, one `manifest.json` with a section per pipeline | `upload`, `upload_file`, `exists`, `download`, `resolve_and_patch` | local disk, S3, HF Hub | the manifest is read, edited and replaced as a whole; directories are removed and renamed, or overwritten object by object |
| Training, `src/src/endpoints/train.py`, callbacks and modules under `src/src/pipelines/*/training/` | weights, tokenizer, `last.ckpt`, what the callbacks remember | resolve, fit with validation, checkpoints and early stopping, test, `save_adapter` | manifest, registry, vector store | callbacks share the tokenizer, the weights and a collection with what they watch; a run ends by exhaustion, early stop, interrupt or failure |
| Index pipeline, `index_db.py`, `indexer.py`, `qdrant_store.py`, `lsh.py` | the collection; per run: known ids, LSH index, buffer | scroll ids, deduplicate, encode, upsert in chunks, write the manifest | Qdrant or FAISS, storage | nightly and by hand, retried after a kill, fresh uuids for every point |
| API gateway, `src/src/api_gateway/` | gauge of requests in flight, two circuit breakers, semaphore | `POST /stream`, health, metrics | RAG API, LLM server, client | everything is cancelled when a client leaves; slots, gauge and breaker counters must survive that |
| Orchestrator and LLM client, `src/src/application/orchestrator.py`, `src/src/pipelines/decoder/inference/inference.py` | the semaphore | `build_prompt` with a fallback, `generate_stream` | RAG API, LLM server | degraded answers, errors before and during a stream |
| RAG API, `src/src/pipelines/rag/api/rest/` | the loaded stack, readiness | startup in a thread with a timeout, search | retriever, manifest, Qdrant | the thread goes on after the server gave up; startups race index runs for the collection |
| Retriever and reranker, `src/src/pipelines/rag/inference/{retriever,reranker}.py` | timing and degradation of the last batch | `batch_search` with fallbacks, rerank in place | vector store, embedder | one object for all threads, partial failure |
| FAISS store, `src/src/vector_store/faiss_store.py` | index and metadata, side by side | insert with rollback, filtered search, save, load | disk | two structures and two files that must agree |
| Data module and fetchers, `src/src/pipelines/base/core/data/` | cache directories | `prepare_data`, `setup`, splits, exclusion of benchmark rows | disk, sources, `build_benchmark` | a cache that is half written looks like one that is whole; data and benchmark move while runs use them |
| Transforms and collators, `src/src/pipelines/*/core/data/` | the rows | clean, deduplicate, chunk, exclude, validate, tokenize, collate | data module, indexer | each drops or rewrites rows knowing nothing of the others |
| Model servers, `src/scripts/serve_{vllm,gguf}.py` | the server process | read the manifest, resolve, exec | storage | keys of the section written by one script and stale after another |
| Evaluation, `src/src/endpoints/eval.py`, `src/src/evaluation/`, `src/scripts/{e2e_eval,rag_pipeline/build_benchmark}.py` | benchmark, metrics | build and judge records, measure, check drift, end-to-end run | storage, index, gateway, Airflow | a gate is as good as its missing values, ties and retries |
| Decoder generator, analytics and maintenance DAGs, deployment | - | - | - | text cleaning, configuration |

### What makes each component correct

* **Registry.** Production names a tagged version and moves only to a strictly
  better one, whatever the order of trainers, promoters and crashes.
* **Release scripts.** What the manifest names is in the storage, whole; merged
  and quantized models never change after they were published; a section always
  has the keys its `load_type` needs; in other sections a script undoes at most what
  was edited since it read the manifest;
  `adapters/{name}_prod` holds what Production names when the manifest says so.
* **Index pipeline.** A run that ends well leaves no document of its data
  unsearchable; killed and repeated runs leave no duplicates.
* **Gateway.** Slots are neither lost nor handed out twice, the gauge returns to
  where it was, and every request ends, also when clients leave and breakers open.
* **FAISS store.** Whoever loads a database gets every vector with its own
  metadata; what is published is only extended; a filtered search returns the
  nearest of the matching documents.
* **Retriever, RAG API.** A reranked answer is the best of what matched; an empty one has
  a reason; a call that no other overlapped is reported as it was; every call ends, and
  a server that gave up ends its process.
* **Data module.** What a run trains, validates and tests on is of one piece, whatever half
  written directories an earlier one left; whoever forces reprocessing gets to train.
* **Transforms.** A row that is gone has a reason; chunks cover their document; the loss is
  about the answer.
* **Training.** What is registered was tested, with the best score seen; evaluating
  does not change the training beside it.
* **Evaluation.** A benchmark holds what the judge found entailed, metrics of one result agree,
  and a gate passes nothing bad that was measured.
* **Model servers.** What a script that ended well leaves can be served, and a pod caught
  between two scripts comes up in the end.

## 2. Modules

| Module | What it is |
|---|---|
| `ProductionRegistry` | What the registry promises: an abstract specification of tags and the Production alias only |
| `Release` | Registry, storage, manifest and all scripts that use them, call by call; implements `ProductionRegistry` |
| `Indexing` | Overlapping, dying, repeated index runs over one Qdrant collection |
| `Gateway` | Concurrent chat requests through breakers, semaphore and stream |
| `FaissStore` | A FAISS database of two objects in S3: index runs that extend it, readers that load it meanwhile |
| `FaissSearch` | The filtered and the plain search of `FAISSVectorStore`, over the stores of `FaissStore` |
| `RagServer` | The RAG API: loader thread, startup timeout, and concurrent calls of one retriever over a collection that fills |
| `DataPrep` | `prepare_data`, `setup` and the test's data across kills, with a source and a benchmark that change |
| `Transforms` | The transforms and collators of the three pipelines, applied one after another |
| `Training` | The training loop with its callbacks, checkpoints, early stopping, and what runs leave to each other |
| `Evaluation` | Benchmark building, drift checks with Airflow's retry, retrieval metrics, the end-to-end gate |
| `Serving` | `serve_vllm` and `serve_gguf` against five scripts that edit the section they read |
| `MC*` | Model values, task sets and symmetry for TLC, one per module that a run is about; `Serving` needs none |
| `ReleaseProofs`, `IndexingProofs`, `TrainingProofs`, `ServingProofs`, `RagServerProofs` | Theorems about the module of the name; those about `ProductionRegistry` are in `ReleaseProofs` |
| `FaissProofs` | Theorems about `FaissStore` and `FaissSearch` |
| `GatewayEvaluationProofs` | Theorems about `Gateway` and `Evaluation` |
| `DataPrepProofs` | Theorems about `DataPrep` and `Transforms` |

`Release` composes registry, storage, manifest, training and publishing; `FaissSearch` is
over the stores of `FaissStore`. `Serving` and `Evaluation` take up the storage again with the part of it
their readers see: a product with the state space of `Release` would be out of TLC's
reach, and what `Release` adds (overlapping scripts) is asked there.

### Release

State: `versions`, `staging`, `production` are the registry; `dirs[p][d]` is the
storage of pipeline `p`, `manifest[p]` its section; `job[j]` is a running script
with its program counter, the version it works on, the manifest it has in memory
and what it has on disk. A section keeps which keys are there and what they name.
The content of a directory is a sequence of adapters: `<<>>` is the pretrained model,
`<<1, 2>>` version 1 merged into it and 2 into the result, 0 quantization. That is
enough to tell which adapter was merged into what, and whether two uploads mixed.

Every remote call is an action: `Register`, `SetStaging`, `SetTag` (training);
`ReadStaging`, `Compare`, `SetProduction`, `ReadManifest`, `LoadAdapter`,
`UploadBegin`, `UploadEnd`, `WriteManifest` (promote); `MergeCheck`, `Merge`,
`Quantize`, `GgufRead`, `PrepareCheck`, `IndexResolve` for the others, which share
reading, uploading and writing with promote. `Stop` is a kill, an exception or
`sys.exit` at any point; a retry is `Stop` then `Start`. `resolve_and_patch` is one
step: what it reads are files of its own pipeline, and a change between two of
its reads is possible only where scripts that publish for one pipeline overlap, which
`ReleaseAssumption` excludes. `prepare_artifacts` is modelled with `--pipeline`; without it
the script repeats the same steps for one section after another. S3 differs from
the local disk in `UploadBegin`/`UploadEnd` (objects overwritten one at a time,
against remove and rename) and in what a missing manifest raises.

Which scripts overlap is the constant `Concurrent`, since nothing in the code
forbids it: Airflow runs the tasks of one DAG in order, different DAGs and
operators side by side. `llm_retrain` and `rag_retrain` start at the same minute of the
week, so scripts of two pipelines do overlap.

`behind[j]` is a history variable: the sections edited since job `j` downloaded the manifest it
will upload (`Recorded`, when a script ends). It guards nothing; it is what `OnlyOwnSection` needs to say what an
upload may undo.

### Indexing

`points[d]` has one entry per point with `doc_id` `d`: the adapter that embedded it.
`job[j]` is a run: the documents still to come from the shuffled loader, the ids it
scrolled, its own new ids, the buffer. The scroll has a begin and an end, between
which other runs upsert: each new point may or may not be seen. `Upsert` is one
chunk; dying after it is a call whose answer was lost. MinHash is the relation `Near`;
the LSH index starts empty in every run (it is built, never loaded, by `index_db`).
`Promote` is the step by which module `Release` changes the encoder's adapter.

### Gateway

One action per piece of code between two awaits of one event loop. `req[r].pc` is
where a request waits; `free` and `queue` are the semaphore, first come first
served; `llm` and `rag` are the two pybreaker automata, with their counter and
a half-open state in which a concurrent call may be let through or refused. The
semaphore is released when the connection stands, before the stream, as the comment in
`generate_stream` says it should be. `Leave` cancels the generator at any of its awaits:
`CancelledError` is no `Exception`, so the status stays "success". Definitions of
pybreaker and asyncio are marked external: they are modelled from the calls and the
comments in `resilience.py` and `inference.py`.

### FaissStore and FaissSearch

`remote[f]` are the objects `index.faiss` and `metadata.json` under `{pipeline}/vector_db`,
`uri` tells whether the manifest names them. `client[c]` is an index run or a
reader (RAG API, evaluation) with the store in its memory: two sequences of documents, a
vector standing for the document it was made of. `Get` and `Put` transfer one object,
in any order, as the thread pools of `S3Storage` do (S3 is the default storage of the
configuration); `Load` compares the lengths and nothing else, as
`_check_consistency` does. Insertion is one document per step, because nothing but the
final `Save` leaves the process. Deduplication of near duplicates is in `Indexing`.

`FaissSearch` adds no state. `SearchWithFilter` is the loop of `_search_with_filter` as a
function of the number of rounds, with the pending queries of a batch and their
positions; `SearchExact` compares it with a definition that sorts, cuts and filters. Both order a set by
counting, for each place, how many are greater (`Descending`); `SearchAssumption` supposes that no two documents
score alike for one query, since the order of equals is up to the library. The index
is the flat one (the configured type): HNSW answers are approximate.

### RagServer

`server` is the event loop, `loader` the thread that `lifespan` starts for
`_load_rag_stack_sync`, `ml` the entry `app.state.ml_models` gets as the thread's last
act. `Refuse` is the startup timeout (or the thread's exception): it does not stop the
thread, which goes on to create the collection and to publish a stack nobody will use; the interpreter
ends (`Exit`) only when that thread has. `Connect` and `Create` are the two
requests of `QdrantVectorStore.connect`, between which `Index`, a step of the index
pipeline, may create the same collection.

`threads` is the number of workers the default executor of the process has, which depends on the
machine (`min(32, cores + 4)`, or what a deployment sets): any member of `Threads`, chosen again by `Restart`.
`call[r]` is one `batch_search` in a thread of that executor, which waits until one is free: `Begin` clears
`report` (`last_batch_degradation`) for everybody, then `Count`, `Encode`, `SearchHybrid`, one
`RerankNext` per query, `Reranked`; `SearchFails` and `RerankFails` are the
fallbacks. The fallback searches `search_dense` and `search_sparse` are
methods no store defines (the docstring at retriever.py:26 promises them), so `SearchFails`
covers all three. `report` and `timing` are the attributes of the shared
retriever; `found`, `seen` and `alone` remember the call's own history for the properties.
Qdrant's fusion is external: any order that respects what both lists agree on. `Sorted` is the stable sort
in place, by the number of those that come before, `Place` the place a document has in a list of the store.

### DataPrep

`raw`, `rawval` and `proc` are the three directories a run leaves to the next, each absent,
part of a dataset, or whole; `bcache` the cached benchmark. Each run chooses `force` and `small` (`force_reprocess`,
`max_samples`) for itself, since the hash that names the cache covers neither, and finds the directories the others
left. The seeded split permutes the positions of a dataset: `ValRows` gives each set of rows its validation rows, and those of
two versions may cross. `torn` is a history variable: the raw validation rows were replaced, the processed
splits beside them not yet. `job` goes through
`prepare_data` (`FetchLocal`, `FetchHf`/`SaveHf`, `FetchS3`, `ResolveBench`, `SaveVal`/`ValSaved`,
`Transform`, `Save`/`Saved`) and `setup` (`SetupFit`, `SetupTest`). Meanwhile `Publish` changes
the source and `Sample`, `UploadBench`, `WriteManifest` are `build_benchmark`, whose upload
and manifest are two steps. `Kill` leaves whatever was being written as part of itself, or, in
the steps that first remove, absent. `Excluded` is empty when the configured columns are
not those of a benchmark record (the constant `Matching`), since all of them then hash to the empty text.

### Transforms

A text is a sequence of words, and a word a token, so that cleaning, chunk sizes in
characters, prompts in tokens, truncation and masks are all about the same rows.
`pipe` is the pipeline with what its configuration and its tokenizer do,
`Order` the order of the configuration files; `todo` is what is left of it and each
transform is one action over all rows (`TransformsSpec`). `src`, `from` and `to` of a row remember what it was
made from. `Deduplicated` compares with the rows that were kept, exact or by the relation
`Near` (`Originals`); `Cuts` is the loop of `OverlappingChunkingTransform`, `AddWord` what it does with one word, `Repeated`
the words that the next chunk repeats, and `Chunks` adds the tail; `Joined` puts the chunks of all documents into one list;
filters keep the rows of a set of positions (`Such`, `Kept`);
`Ids` and `PromptLen` are the two tokenizations whose difference the mask is made of, with and
without BOS and a separator the tokenizer merges; `Trained` is what the collator leaves unmasked, for
both padding sides.

### Training

`job` is a run of `run_universal_train`: its weights (named by run and step), the side each
loader pads on, what `ModelCheckpoint` and `EarlyStopping` remember (`watch`), and how
many evaluations it made. `Train`, `Validate`, `Generate`, `Prepare`/`InsertEval`/`Measure` and
`Checkpoint` are the trainer's loop with the callbacks in the order of `configs/training`; `Load`,
`Test`, `SaveAdapter` the end of the entry point; `Restore` a resume from `last.ckpt`, `Interrupt` Ctrl+C,
`Fail` any exception or kill. Names of parameters are modelled (`ModelKeys`, `SavedKeys`, `Loaded`) because
what a checkpoint restores depends on them: `on_save_checkpoint` writes the adapter's names
without the adapter, a resume loads strictly and raises, the final load matches
nothing and is silent. `store` is the collection the retrieval callback evaluates in,
its own or the one `vector_db` names.

### Evaluation

`build` is `build_benchmark` with its generator, retries, parser and NLI judge; `job` is one of
`run_universal_eval` for either pipeline (with Airflow's retry and alert), the retrieval evaluation of
a training run, and `e2e_eval`. `Measured` is `RetrieverMetrics` on any list a search could
return, duplicates and low scores included; `CheckDrift`, `Conclude` and `P95` are the gates. A
job reads the storage in its first step only, so it need not be interleaved with the builder
further than its beginning (`Quiet`). The specification is `EvaluationSpec`.

### Serving

`section` and `holds` are the decoder's section and the directories of a `LocalStorage`, the only one `serve_gguf` and
`prepare_gguf` know; S3, the default of the configuration, is not modelled here. `script` is one of `promote`,
`merge_lora`, `quantize_awq`, `prepare_gguf`, `prepare_artifacts`, from `Start` to `WriteManifest`; `Stop` kills it.
An upload is three steps: `Remove` makes the directory a part of itself (`rmtree` goes file by file, and `exists` looks
for the directory only), `Removed` ends that, and `Rename` puts the copy in its place; `spoiled` remembers that the pretrained
model is being replaced. `Edited` is what each script adds to and removes from the section. `files` are the places where a
.gguf file lies: `prepare_gguf` puts it beside the model when the section has `mlflow_model_name`, which only
`prepare_artifacts` writes, and into a directory `model` otherwise (`PlaceOf`). `vllm` is a pod of `serve_vllm` (`ReadSection`,
`DownloadModel`, `DownloadAdapter`, `Launch`): a failure ends the process and Kubernetes starts
it again. `Opens` is whether `serve_gguf`, which opens the file where it lies, finds it. What vLLM accepts
(`Accepted`) is external.

## 3. Runs

The deadlock check is on, but in `training` and `transforms`, whose runs and pipelines end.

| Run | Question | Instance |
|---|---|---|
| `release` | Does the registry keep its promises, and does what the manifest names exist? | one model, a trainer beside one publishing script, all scripts but gguf and index, 2 versions, 2 scores, local disk; 2.7 million states |
| `release_sections` | Do scripts of every kind, in any order and those of two pipelines at the same time, keep sections loadable, and what do they undo of each other? | two sections, FAISS, 1 version; 3.6 million states |
| `indexing` | Is anything lost or doubled by overlap and kills? | 3 documents, 2 near duplicates, yesterday's and today's data, 2 overlapping runs, batches of 2, chunks of 1, 2 adapters; 1.5 million states |
| `gateway` | Are slots, gauge and requests accounted for, does every request end? | 3 requests, 1 slot, breakers that open after 2 failures, 1 stream that never starts; 250 thousand states, liveness checked |
| `faiss` | Do vectors keep their metadata across kills and concurrent downloads, and are searches right? | 4 documents in 3 data sets, 1 run at a time, 1 reader, 2 queries, `top_k` 1, multipliers 1 to 3; 19 thousand states |
| `rag` | Are concurrent answers right, empty ones explained, does every call end, and does startup? | 2 calls on 1 thread and on 2, 3 documents ordered differently by each score, 1 query, `top_k` 1, factor 2; 270 thousand states, liveness checked |
| `data` | Does a run train on one consistent state of data, whatever ran or was killed before it? | 3 rows, 2 versions whose splits cross, a benchmark of 1 or 2, every source, forced and unforced runs, 2 kills; 5.1 million states, liveness checked |
| `training` | Is what is saved what was tested, and is training undisturbed by evaluation? | 2 runs of 9 steps in epochs of 3, validation after the 2nd step of each, patience 2, 2 scores and NaN, 1 failure; 270 thousand states, liveness checked |
| `transforms` | What becomes of each row, and what is trained? | up to 3 rows for the retriever, 2 for the decoder, 2 documents of up to 4 words for the index; 210 thousand states |
| `evaluation` | Do benchmarks, metrics and gates mean what they say? | 4 chunks (one short, one not indexed), a benchmark of 2, top 3 and 2, four kinds of judgement; 590 thousand states |
| `serving` | Can a server start from what scripts leave? | five scripts, 1 promotion, with and without `--force`; 2.1 million states, liveness checked |

Why these bounds. Two versions suffice for a better, a worse and an equal
candidate, for a monolith on a monolith and for a promotion while another version
is being trained. Two pipelines are what it takes for one section to
be overwritten by another's script. Two index runs and chunks of one document
give every way a buffer can be cut, and batches of 2 over 3 documents leave a
rest. Three requests on one slot give one that connects, one at the head of the queue and one
behind it, and failures enough for both breakers to open. Three data sets give three generations of a FAISS database, so
that a reader can hold an object of the first and one of the third; its multipliers stop
before the whole index is seen, and one query is still pending when the other is not. Two calls
on two threads are what it takes for one to clear the report of another, on one thread for one to wait for
the other; three documents with a factor of 2 are what it takes for the prefetch to leave one out. Two versions of data whose
splits cross make raw rows of one a leak into the training rows of the other; a benchmark of one or two
records can be replaced by one of its size, which looks valid in the cache, and by one of another; a second kill
can fall into the repair after the first. Nine steps in epochs of three put an epoch's end between two validations,
`max_steps` after the last one, and let the patience run out before it. Decoder inputs of
two rows make a batch with two lengths, so that padding shows. Four chunks give the builder a short one, a
rejected one and still a full benchmark. In `serving` a second promotion adds no new way a section
can be edited, and is left to the counterexamples. The bounds `MaxVersion`, `MaxAdapter`, `MaxLost`,
`MaxKills`, `MaxRuns`, `MaxFails` and `MaxBuilds` cap counters the code does not; the proofs do not depend on their
values.

What the properties say:

* `RegistrySpec` - `Release` implements `ProductionRegistry`.
* `PublishedMonolithIntact`, `MonolithWriteOnce` - a merged or quantized model that
  the manifest names is whole; once uploaded it never changes, so servers that load at
  different times load the same weights.
* `PromotePublishesProduction` - also after a refused promotion and after restarts.
* `LoadableSections` - the manifest under all scripts. `OnlyOwnSection` - nothing locks it, and scripts of two
  pipelines undo each other's edits (`release_overlap`); the property bounds the damage: outside
  its own section an upload changes only sections that were edited after the script downloaded the manifest.
* `FinishedSearchable`, `OnePointPerRun` - no document lost, duplicates bounded by the
  number of runs that overlap, so none with one run at a time.
* `PairsMatch` - a loaded store never answers with another document's metadata. It holds
  because incremental runs only append; with two overlapping runs it is false (set `Runs` to
  two values): each uploads a list of the same length, and a reader may get one of each.
* `PublishedKept` - what servers can find, later runs keep, at its place.
* `SearchExact` - also the measure of what a filtered search misses: it looks at `top_k` times
  the largest multiplier tried (5 * 2^3 = 40 as configured) neighbours and no further.
* `SlotsConserved`, `GaugeBalanced`, `EveryRequestEnds`.
* `BestAnswered` - where the candidates can hold everything that matches, a reranked answer is the best
  of it; `SkippedKeepsOrder` - where reranking failed, the order is the search's (for one query);
  `EmptyExplained`, `LoneCallReported` - when an empty answer and the shared attributes
  can be trusted; `EveryCallEnds`, `GivesUp`.
* `PairFits`, `WholeData` - training rows, validation rows and raw rows to generate from belong together. The exception of
  `PairFits` (`torn`) is real: a forced run that is killed between the raw rows and the processed splits leaves a pair that
  does not fit, and unforced runs use it without a word (`data_claims`); another forced run ends that.
  `SameSizeSameBenchmark` - with the same size in the manifest when the data was processed and when the test begins, the
  rows tested on are the rows excluded, whatever was uploaded meanwhile. With another size they are not: `data_claims` again.
  `FailsOnlyOnPart` - of what a run finds on its disk, only a directory that a kill left half written makes it fail (a source
  or network that fails ends it as a kill does); `TrainsInTheEnd` - `force_reprocess` repairs it.
* `DropsExplained`, `ChunksCover`, `LossOnAnswer` - each states its exceptions: an original that is
  rejected takes its duplicates with it, and a merged separator costs the first token of the answer.
* `SavedAsTested`, `FreshEval`, `PersistentKeepsSide`, `SavesInTheEnd`.
* `RecordsEntailed`, `RanksAgree`, `GateSound`.
* `EndedWellIsServable`, `VllmComesUp` - for a `LocalStorage`. The exceptions are part of the statement, and
  `serving_quant` (`StaleQuantization`) and `serving_empty` (`EmptyPrepared`) show them to be reachable.

**Fairness.** `Gateway`: weak fairness of each request's own next step. The event loop runs every
task that can go on, httpx and the OpenAI client have timeouts, so a call that hangs turns
into a failure. `Leave`, `NeverStarts`, new requests and the breakers' timers are not fair. `EveryRequestEnds`
needs the queue to be first come first served, as `asyncio.Semaphore` is. `RagServer`: the steps of the
loader and of a call in its thread, for the same reason, and strong fairness of `Begin`: with fewer threads than calls
`Begin` is not always enabled, but the executor's queue is served in order, so that a call which can begin again and again
does (with weak fairness alone `rag` refutes `EveryCallEnds`). Index runs, kills and restarts are not fair.
`DataPrep`, `Training`: a process that is not killed goes on, and Airflow or an operator starts
the next. `Serving`: the steps of a pod, which Kubernetes starts again whenever it
ended; `VllmComesUp` supposes that scripts come to rest and that pods are replaced finitely often.
`Evaluation` and `Transforms` claim no liveness.

### Disagreements between code and documentation

Each is refuted by TLC. `training_best` is one of the listed runs; the others are kept as configurations, each
run as `tlc -workers 2 -config X.cfg M.tla` with the module named. A configuration `*_claims` holds several claims of
one module, one of them active: TLC stops at the first it refutes, so the others are commented out and take their turn.

| Configuration | What the repository says | What the code does |
|---|---|---|
| `release_overlap`, `MCRelease` | merge_lora.py:144: only the section of the pipeline is updated | the whole file is replaced: scripts of two DAGs undo each other's section |
| `release_claims` (`WorseStagingCancelsPromotion`), `MCRelease` | README:386: a worse Staging cancels the promotion | `promote.main` ignores the answer and publishes Production's adapter again, over a merged or quantized model |
| `release_claims` (`MergedIsProduction`), `MCRelease` | llm_retrain.py:74: merge_lora merges the Production adapter | the name comes from the registry, the adapter from the manifest: after a promote that died half way they differ, and the directory is never rebuilt |
| `release_claims` (`AdapterOnItsBase`), `MCRelease` | promote.py:71: the manifest records the base the adapter was trained on | it names the base of the moment: after merge_lora a second promote puts the adapter on the monolith that contains it |
| `release_flaky`, `MCRelease` | README:386: Production does not change for a worse Staging | any MlflowException while reading Production counts as "no Production" |
| `indexing_adapter`, `MCIndexing` | README:502: after training the index is built anew | runs are incremental: what is there keeps the old adapter's embedding |
| `gateway_log`, `MCGateway` | chat.py:143: nothing is logged with circuit_breaker_open | a degraded request that is refused is logged with an empty answer |
| `training_best`, `MCTraining` | train.py:136: the best LoRA weights are loaded for the test | no name in the checkpoint is a name of the model: the last weights are tested and registered under the best score |
| `training_kb`, `MCTraining` | retrieval_eval.yaml:1: an ephemeral vector_db for each validation | with the shipped Qdrant configuration the second validation resets the collection of the knowledge base |
| `rag_batch`, `MCRagServer` | retriever.py:243: on an error the candidates by their original score | reranking sorts in place: queries before the failing one are cut from a sorted list |
| `data_leak`, `MCDataPrep` | exclusion.py:1: benchmark rows are kept out of training | with the shipped columns every benchmark record hashes to the empty text, and nothing is excluded |
| `data_claims` (`NothingLeaks`), `MCDataPrep` | exclusion.py:1: benchmark rows are kept out of training | also with columns that match: a benchmark of another size that is published while a run trains is tested on, and nobody excluded it |
| `data_claims` (`RawIsOfTheCache`), `MCDataPrep` | builder.py:16: the raw rows beside the cache are its validation rows before the transforms | a forced run killed between the two leaves new raw rows beside old splits, and later runs use both |
| `evaluation_claims` (`DegradedIsAlerted`), `MCEvaluation` | llm_quality_control.py:41: eval ends with 1 below the threshold | a metric that could not be computed is a warning, and the task succeeds |
| `evaluation_claims` (`TruthIsIndexed`), `MCEvaluation` | build_benchmark_rag.yaml:7: chunk ids agree with the index | the benchmark hashes the text, the index text, url and title: no truth is ever found |
| `serving_quant`, `Serving` | promote.py:114: keys of the monolithic build are removed | `quantization` stays, and `serve_vllm` passes awq on for a model that is not |
| `serving_awq`, `Serving` | quantize_awq.py:110: quantizes the model from the manifest | the directory has no version in its name: the one of an earlier release is published again |
| `serving_gguf`, `Serving` | a section that `prepare_gguf` finished can be served by `serve_gguf` | `prepare_artifacts --force` removes the file and leaves the key |
| `serving_empty`, `Serving` | local.py:45: a directory is replaced atomically; prepare_artifacts.py:199: what is there is skipped | a directory that `--force` was killed in the middle of removing is there, is skipped, and is published without a model |
| `transforms_claims` (`SeparatorNotTrained`), `MCTransforms` | tokenization.py:20: the separator is not trained | with BOS the prompt is measured one token short |
| `transforms_claims` (`NegativeDiffers`), `MCTransforms` | schemas.py:114: the negative must not be the positive | a cleaned positive is compared with a raw negative |

Noticed in passing, without a configuration:

* Gateway: `record_error("circuit_breaker_open")` and the fallback reason `"circuit_breaker"` are two labels for one
  thing; a client that leaves is recorded as "success"; a generator that never starts leaves the gauge up (`lost` in
  `GaugeBalanced`); `ReadError` of the RAG API is not degraded but a 500.
* FAISS: the class comment promises `top_k` documents, which `SearchExact` bounds by the
  multiplier; `upload_dir_to_uri` is called atomic, which only `LocalStorage` is: after a run that
  dies between the two objects every load fails, that of the next run included, until somebody
  repairs the prefix.
* RAG API: after a startup timeout the process ends only when the loader thread does;
  `QdrantVectorStore.connect` "connects to an existing collection" (qdrant_store.py:506) and creates
  the one it does not find; the fallbacks `search_dense` and `search_sparse` that retriever.py:26 promises
  exist in no store, so every failed search answers with nothing.
* Training: resuming a PEFT run always raises; a second run without resume writes `last-v1.ckpt`,
  and a resume goes back to the first run's `last.ckpt`; without persistent workers batches are padded on the
  left from the first validation on.
* Transforms: no collator makes the mask `has_negative` that the training module takes from it (module.py:74), so a
  batch with and without negatives fails; the length filter runs
  after truncation and drops nothing.
* Evaluation: the DAGs pass `metric_thresholds.*` overrides that no configuration defines, so no drift
  threshold is set unless somebody does; after reranking the out-of-domain score is that of
  the first document, not of the best dense match.
* Release: `prepare_gguf` always writes a `local://` address; the name vLLM gets for the LoRA equals the
  served model name; the weekly cleanup deletes artifacts by age, and the adapter Production names
  may be among them (maintenance.py:46, mlflow.yaml:9).

## 4. Proofs

tlapm checks the following for every value of the constants.

* `ReleaseProofs!TypeCorrect`: `Spec => []TypeOK`. The typing of the variables is not
  inductive: `SetTag` writes the tag of version `job[j].ver`, which must exist, and `SetStaging` moves
  the alias to it. The inductive invariant `TypeInv` adds for every program counter
  what its job knows (`JobOK`): its version is registered while it is in flight, its directory is one
  of `Dirs` while it uploads. One lemma per group of actions, `JobStep` for
  what all steps have in common.
* `ReleaseProofs!SectionsLoadable`: for any schedule. `LoadInv` says the same of the manifests that scripts
  have in memory: `EditedLoadable` shows that an edit keeps it, `MemoryStep` that no other step changes
  what a script has read.
* `ReleaseProofs!OneSectionChanged`: `Spec => OnlyOwnSection`, for any schedule and any storage; nothing is
  supposed of which scripts overlap. `HistInv` says that a section in the memory of a script differs from the stored one only if it
  is the script's own, was edited since (`behind`), or was lost by a failed read that the script took for an
  absent file.
* `ReleaseProofs!MonolithsWhole`, `MonolithsFixed`: `PublishedMonolithIntact` and `MonolithWriteOnce` for storage that
  renames a finished upload into place (`Local`), whether reads fail or not. `MonoInv` says that a directory a script
  is building is still not there, that a script about to name one has it, and that manifests in memory, which may
  be older than the stored one, name whole monoliths too. It rests on `ReleaseAssumption`: no two
  publishing scripts of one pipeline overlap.
* `ReleaseProofs!PromotedIsProduction`: `PromotePublishesProduction`, also for `Local`. `PromInv` follows a
  promoter from its second read of the alias to the manifest; `PromOther` is that nobody else moves the alias or the
  directories of its pipeline.
* `ReleaseProofs!RegistryImplemented`: under `PromotersExclude` (no two promotions of
  a pipeline overlap, and registry reads do not fail), `Release` implements `ProductionRegistry`. The
  invariant `RegInv` says of a promoter between its comparison and its write that
  the version it is going to set is tagged and still better than Production:
  tags are written once, by the trainer that registered the version, and nobody else moves the
  alias. Then every action maps to `Register`, `Tag`, `Promote` or a stutter. Without
  `PromotersExclude` the statement is false: two overlapping promoters can leave the worse version.
* `ReleaseProofs!ProductionTagged`: what Production names has a `val_loss`.
* `IndexingProofs!IndexingTypeCorrect`, `IndexingProofs!NothingLost`: the invariant `IndexInv` relates a
  run to the collection: the ids it skips are present, and every document it has examined is present,
  buffered, or near one of its new documents, each of which is present or
  buffered. It survives other runs because points are never removed.
* `IndexingProofs!PointsBounded`: `OnePointPerRun`. `OnceInv` counts, with the points of a document, the runs that
  can still insert it without another scroll (`Inserters`): an insert takes its run out of them, since a buffer holds
  a document once, and a run that begins its scroll when the document is there never gets in.
* `FaissProofs!FaissTypeCorrect`: for any number of overlapping runs; what is downloaded is there
  because the manifest is written after the uploads.
* `FaissProofs!MetadataMatch`, `FaissProofs!OnlyExtended`: under `RunsExclude` (one index run at a time). The
  invariant `PairInv` says that one of the two stored lists begins the other, that a reader's
  copy begins what is stored now, and that the store of a run begins with it. Lemma `SameBeginning` is why
  comparing lengths is then enough: two beginnings of one list, equally long, are equal.
* `FaissProofs!SearchesExact`: `SearchExact`, under `RunsExclude`, for any number of documents, queries, rounds and
  any filter. `OnceInv` adds to `PairInv` that a store holds no document twice; so the positions of the index ordered
  by score are the documents ordered by score. Then the loop: `RoundOK` says that after each round a query that is not
  pending any more has what the largest multiplier would give it, and one that is pending what the last round found.
  `FilteredPrefix` is why a query may be left alone once it has `top_k` matching documents: looking at more neighbours
  only appends to what the filter lets through.
* `GatewayEvaluationProofs!GatewayTypeCorrect`, `SlotsNeverLost`, `GaugeTrue`: one invariant, `GateInv`, since the
  semaphore stays within its slots only because none is handed out twice. To the two conservation laws it
  adds `QueueOK`: the queue holds each waiting request once and nobody else. Lemma `Moved` says
  what a cardinality does when one request changes its place; each action is then one application per law.
* `TrainingProofs!TrainingTypeCorrect`, `SavesWhatItTested`, `SideKept`, `EvaluationsFresh`: `RunInv` follows
  a run through its phases. `Phase` and `Begun` bound what it counts, `Remembered` relates the best checkpoint
  and early stopping's counter to the scores seen, `Measured` a retrieval evaluation to the points it
  inserted, `Persistent` the side each loader pads on to when its workers were started.
* `ServingProofs!ServingTypeCorrect`, `WellEndedServable`: `ScriptInv` says of a script at each of its steps
  what it knows of the storage (that the directory it is about to name is there, that the one it uploads was not), and
  `RefOK` that a model a section names is there, or in one of the two states the property excepts.
* `RagServerProofs!RagServerTypeCorrect`, `AnswersAreBest`, `EmptyHasReason`, `LoneCallsReported`, `SkippedInOrder`: one
  invariant, `RagInv`, for any number of calls, threads, kills and restarts. `CallOK` says of a call at each of its awaits what
  its candidates are: nothing yet (`FreshOK`), a prefix of an order that both lists of the store agree with, or an empty
  list with its reason (`FoundOK`), and with the queries before the current one reranked in place (`RerankOK`).
  `AloneOK` says that the shared attributes are the call's own as long as no other overlapped it; every other step either
  leaves them or ends that (`BeginClears`). `RerankSorts` proves that sorting by counting is a permutation in
  order, `BestOfAll` that the best candidate is the best match when the prefetch had room for everything. `SkippedInOrder` is
  stated for `Queries = 1`, which is what the endpoint asks; with more it is false (run `rag_batch`).
* `GatewayEvaluationProofs!BenchmarkEntailed`: `BuildInv` relates the records to the verdicts given so far and the
  index of the next chunk, so that a full benchmark and an exhausted corpus are the only ends.
* `GatewayEvaluationProofs!MetricsAgree`, `GatesSound`: `JobInv` says what is measured at each step of a job. `MeasuredSound`
  compares the four metrics for one query: a hit is a gain, and a gain of several documents in the ideal order is never
  less (`GainOfOne`, by induction over the ranks). `FewSlow` counts: more answers than the tested index do not exceed the latency
  at it, so at most one in twenty does.
* `DataPrepProofs!DataTypeCorrect`, `EvaluatesItsSplit`, `TrainsOnWholeData`, `TestsOnItsBenchmark`, `FailsOnParts`: `DataInv` relates
  the directories to the run that wrote them, whichever runs were forced: `PairInv` (raw rows and validation rows were split from one
  another, unless `torn`), `Whole1` (what a forced run has downloaded is one version, all of it), `Excludes` (from its
  transforms to its test the cached benchmark is the one a run excluded, and none of it is among its training rows). The types need `BuilderInv` besides, for the size in the manifest.
* `DataPrepProofs!TransformsTyped`, `DropsHaveReasons`, `ChunksCoverText`, `LossIsOnAnswer`: `TransformsInv` says what
  is so between two transforms, whichever are done (`After`). The rows are in the order of their documents and of the chunks
  in them (`Ordered`), which gives each row a name of its own, so that a row can be found again after it was rewritten
  (`OwnPlace`). `DocumentsInv` follows the words of a document from the raw rows to the chunks with their metadata. `DropsInv`
  says that there is a choice of rows which the deduplication made (`Chosen`: a row is chosen if it is like none
  chosen before it), of which those that are left are some (`From`) and those that are missing were rejected
  (`Missing`); `FilterKeeps` and `RewritingKeeps` are the two kinds of transforms after it, whose order therefore does not
  matter. `TokensInv` is the loss. Below it `CutsAre` unfolds the chunking loop and `CutOK`, an invariant of the
  loop, is kept by a word that fits (`CutGrows`) and by one that does not (`CutEnds`).

**Induction over data.** The library's induction theorems take an operator as a parameter, which the provers cannot
instantiate. Lemma `NatSetInduction` states induction over a *set* of numbers instead and follows from the theorem that `<` is well
founded. A recursive function is then met in two steps: a function that takes the recursion's steps exists (`Iterated`), so the one that
`CHOOSE` picks for the definition takes them too (`Unfolded`). What remains out of reach are operators that are
parameters of operators of the community modules, folds and sorting among them: the definitions that the theorems are
about are written without them, lists that are filtered or sorted by counting (`Kept`, `Descending`, `Sorted`), and the runs
check the same definitions.

**Assumptions.** Besides those on constants (`SearchAssumption`, `TransformsAssumption` and their like,
which TLC evaluates on every run), the theorems that suppose something of the schedule, the storage or the calls
say so. `Local` is a choice of configuration and `Queries = 1` what the REST endpoint sends. `PromotersExclude` (no two
promotions of one pipeline), `RunsExclude` (one FAISS index run at a time) and `ReleaseAssumption` (one script at a time
publishes for one pipeline) are *not* enforced by the repository: within one run of a DAG the tasks are in order, but there is no
pool, lock or `max_active_runs` against a second run or an operator's script beside it. They are what whoever
operates the system must see to; sections 3 and 4 say what happens without them. No theorem supposes that scripts of
different pipelines exclude each other.

Every safety property of the runs is proved. Only model-checked are the liveness properties (`EveryRequestEnds`,
`EveryCallEnds`, `GivesUp`, `TrainsInTheEnd`, `SavesInTheEnd`, `VllmComesUp`), which rest on fairness and ENABLED and are out of the
prover's reach.

## 5. Plan

Done: the release (`ProductionRegistry`, `Release`), the data paths (`Indexing`, `FaissStore`, `FaissSearch`,
`DataPrep`, `Transforms`), the services (`Gateway`, `RagServer`, `Serving`), training and evaluation (`Training`,
`Evaluation`), and the proofs of section 4.

Left, in this order:

1. Proofs: what `PublishedMonolithIntact` becomes for S3, where an upload overwrites object by object, and the safety
   half of the liveness properties (that a measure falls with every step of a request, a call, a run).
2. Downloads from S3: prefixes without a trailing slash, objects that are left over from an earlier upload, and
   `Release` with `Local = FALSE` on an instance of its own.
3. `Release` together with `Indexing`: when the adapter changes while an index run goes on.

## 6. Not modelled

* Optimisation, losses and metrics over texts are numerical code of libraries; in `Training` and
  `Evaluation` they are scores with an order.
* The decoder generator keeps no state between calls, and its streaming thread has no caller in the gateway.
* Prompt rendering and response cleaning are string formatting, the chat collator's template included.
* `HFHubStorage`, `LLMJudge`, `BenchmarkBuilder` and `_check_drift` of the retriever's evaluator are called by tests only,
  or never configured.
* The analytics DAGs run the evaluation that `Evaluation` models once more, without consequences; the maintenance DAG
  runs one cleanup, and what it may delete is noted in section 3.
* The Telegram and LlamaIndex front ends pass requests on. Telemetry, middlewares, health checks and deployment files
  keep no state that another component's behaviour depends on.
* `fetch_data.py` is a stub that makes a directory; the fetchers that runs use are in `DataPrep`.
