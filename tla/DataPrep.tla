------------------------------ MODULE DataPrep ------------------------------
(***************************************************************************)
(* The data of a training run: DataModule.prepare_data fetches the raw     *)
(* rows, splits them, keeps the benchmark's rows out of training, and      *)
(* writes two directories that later runs take for a cache; setup reads    *)
(* them, and the test reads the benchmark.  Beside it the source publishes *)
(* new data and build_benchmark draws a new benchmark from them.  Either   *)
(* process can be killed between any two steps.                            *)
(*                                                                         *)
(* A directory is absent, whole, or part of one: save_to_disk and rmtree   *)
(* work on the directory itself.  Objects in the storage are replaced at   *)
(* once (S3), and the benchmark has one object.                            *)
(*                                                                         *)
(* All runs here share one cache: its name is a hash of the source, the    *)
(* splitter, the transforms and the seed.  force_reprocess and max_samples *)
(* are not part of it and differ from run to run.                          *)
(***************************************************************************)
EXTENDS Naturals, Sequences, FiniteSets

CONSTANTS
  Rows,       \* rows of the raw dataset
  Data,       \* Data[v]: the rows of its version v
  ValRows,    \* ValRows[d]: the rows the seeded split of dataset d sends to validation
  Good,       \* the rows that validation and the length filter keep
  Matching,   \* whether the columns hashed of a benchmark record hold what is
              \* hashed of a row
  BenchSize,  \* bound: records of a benchmark
  MaxKills    \* bound: processes killed

ASSUME DataPrepAssumption ==
  /\ IsFiniteSet(Rows)
  /\ Data \in Seq(SUBSET Rows \ {{}}) /\ Data # <<>>
  /\ ValRows \in [SUBSET Rows -> SUBSET Rows]
  /\ \A d \in SUBSET Rows : ValRows[d] \subseteq d
  /\ Good \subseteq Rows
  /\ Matching \in BOOLEAN
  /\ BenchSize \in Nat \ {0}
  /\ MaxKills \in Nat

VARIABLES
  source,   \* the kind of source
  version,  \* the version of the source's data
  bench,    \* the benchmark in the storage
  size,     \* benchmark_size in the manifest; 0 without a benchmark_uri
  builder,  \* the local state of build_benchmark
  bcache,   \* benchmark.jsonl in the loader's cache directory, {} if absent
  raw,      \* the fetcher's cache directory
  rawval,   \* raw_val_dir
  proc,     \* processed_dir
  torn,     \* history: the raw validation rows were replaced beside processed
            \* splits that were not replaced yet
  job,      \* the local state of the training run
  kills

vars == <<source, version, bench, size, builder, bcache, raw, rawval, proc, torn, job, kills>>
storage == <<source, version, bench, size>>
cache == <<rawval, proc, torn>>
disk == <<bcache, raw, cache>>

Sources == {"local", "hf", "s3"}
-----------------------------------------------------------------------------
(* The pipeline on rows.                                                   *)

\* RandomDatasetSplitter permutes the positions of a dataset with a seed: the
\* same rows are split alike, and the splits of two versions may cross.
Split(rows) == [train |-> rows \ ValRows[rows], val |-> ValRows[rows]]

\* The rows whose hash is a hash of the benchmark.  With columns that a
\* benchmark record lacks, every record hashes to that of empty strings.
Excluded(b) == IF Matching THEN b ELSE {}

\* max_samples takes some of the rows, at least one.
Subsamples(rows, small) ==
  IF small THEN {s \in SUBSET rows : Cardinality(s) = 1 \/ s = rows} ELSE {rows}

\* cleaning, exclusion, validation and length filter of one split
Transformed(rows, excluded) == (rows \ excluded) \cap Good
-----------------------------------------------------------------------------
Absent == [st |-> "absent", rows |-> {}]
Part(rows) == [st |-> "part", rows |-> rows]
Whole(rows) == [st |-> "whole", rows |-> rows]

NoSplit == [train |-> {}, val |-> {}]
NoProc == [st |-> "absent", split |-> NoSplit]
NoJob ==
  [pc |-> "idle", small |-> FALSE, force |-> FALSE, split |-> NoSplit,
   size |-> 0, excluded |-> {}, eval |-> {}, tested |-> {}]
NoBuilder == [pc |-> "idle", sample |-> {}]

At(pc) == job.pc = pc
Goto(pc) == job' = [job EXCEPT !.pc = pc]

Init ==
  /\ source \in Sources
  /\ version = 1
  /\ bench = {} /\ size = 0
  /\ builder = NoBuilder
  /\ bcache = {}
  /\ raw = Absent /\ rawval = Absent /\ proc = NoProc /\ torn = FALSE
  /\ job = NoJob
  /\ kills = 0
-----------------------------------------------------------------------------
(* The source and build_benchmark.                                         *)

Publish ==
  /\ version < Len(Data)
  /\ version' = version + 1
  /\ UNCHANGED <<source, bench, size, builder, disk, job, kills>>

\* benchmark_size is given to each build; all rows are taken if it is more.
Sample ==
  /\ builder.pc = "idle"
  /\ \E s \in SUBSET Data[version] :
       /\ Cardinality(s) \in 1..BenchSize
       /\ builder' = [pc |-> "upload", sample |-> s]
  /\ UNCHANGED <<storage, disk, job, kills>>

\* benchmarks/latest/benchmark.jsonl is replaced ...
UploadBench ==
  /\ builder.pc = "upload"
  /\ bench' = builder.sample
  /\ builder' = [builder EXCEPT !.pc = "manifest"]
  /\ UNCHANGED <<source, version, size, disk, job, kills>>

\* ... before the manifest names its size.
WriteManifest ==
  /\ builder.pc = "manifest"
  /\ size' = Cardinality(builder.sample)
  /\ builder' = NoBuilder
  /\ UNCHANGED <<source, version, bench, disk, job, kills>>
-----------------------------------------------------------------------------
(* BenchmarkLoader                                                         *)

\* Mutant of Resolved: the benchmark is downloaded whenever it is asked for.
ResolvedAfresh ==
  IF size = 0 THEN [file |-> bcache, rows |-> {}] ELSE [file |-> bench, rows |-> bench]

\* The cached file is valid when it has as many lines as the manifest says.
Resolved ==
  CASE size = 0                    -> [file |-> bcache, rows |-> {}]
    [] Cardinality(bcache) = size  -> [file |-> bcache, rows |-> bcache]
    [] OTHER                       -> [file |-> bench, rows |-> bench]
-----------------------------------------------------------------------------
(* DataModule.prepare_data                                                 *)

\* Mutant of Cached: force_reprocess is not looked at.
CachedAlways(force) == proc.st # "absent"

\* A directory that exists is a cache.
Cached(force) == proc.st # "absent" /\ ~force

Start(small, force) ==
  /\ At("idle")
  /\ job' = [NoJob EXCEPT !.pc = IF Cached(force) THEN "setup" ELSE "fetch",
                          !.small = small, !.force = force]
  /\ UNCHANGED <<storage, builder, disk, kills>>

\* The rows are read and split.
Fetched(rows) ==
  job' = [job EXCEPT !.pc = "resolve", !.split = Split(rows)]

FetchLocal ==
  /\ At("fetch")
  /\ source = "local"
  /\ Fetched(Data[version])
  /\ UNCHANGED <<storage, builder, disk, kills>>

\* Mutant of FetchHf: what is in the directory is taken as it is.
FetchHfLenient ==
  /\ At("fetch")
  /\ source = "hf"
  /\ IF raw.st = "absent"
       THEN /\ raw' = Part(Data[version]) /\ Goto("hfsave")
       ELSE /\ \E rows \in SUBSET raw.rows : Fetched(rows)
            /\ UNCHANGED raw
  /\ UNCHANGED <<storage, builder, bcache, cache, kills>>

\* load_dataset, then save_to_disk; load_from_disk fails on part of a dataset.
FetchHf ==
  /\ At("fetch")
  /\ source = "hf"
  /\ CASE raw.st = "absent" -> raw' = Part(Data[version]) /\ Goto("hfsave")
       [] raw.st = "part"   -> Goto("failed") /\ UNCHANGED raw
       [] raw.st = "whole"  -> Fetched(raw.rows) /\ UNCHANGED raw
  /\ UNCHANGED <<storage, builder, bcache, cache, kills>>

SaveHf ==
  /\ At("hfsave")
  /\ raw' = Whole(raw.rows)
  /\ Fetched(raw.rows)
  /\ UNCHANGED <<storage, builder, bcache, cache, kills>>

\* Objects are downloaded one by one, unless some are there already.
FetchS3 ==
  /\ At("fetch") \/ At("s3get")
  /\ source = "s3"
  /\ \/ /\ \E row \in Data[version] \ raw.rows :
             raw' = Part(raw.rows \cup {row}) /\ Goto("s3get")
        /\ At("s3get") \/ raw.rows = {}
     \/ /\ raw.rows # {}
        /\ At("fetch") \/ Data[version] \subseteq raw.rows
        /\ raw' = Whole(raw.rows) /\ Fetched(raw.rows)
  /\ UNCHANGED <<storage, builder, bcache, cache, kills>>

\* prepare_data resolves the benchmark, for its download alone.
ResolveBench ==
  /\ At("resolve")
  /\ bcache' = Resolved.file
  /\ Goto("valsave")
  /\ UNCHANGED <<storage, builder, raw, cache, kills>>

\* Mutant of SaveVal: a raw validation set that is there is kept.
SaveValOnce ==
  /\ At("valsave")
  /\ IF rawval.st = "absent"
       THEN rawval' = Part(job.split.val) /\ torn' = (proc.st # "absent")
       ELSE UNCHANGED <<rawval, torn>>
  /\ Goto("valsaved")
  /\ UNCHANGED <<storage, builder, bcache, raw, proc, kills>>

\* The raw validation rows replace the old ones before anything is processed.
SaveVal ==
  /\ At("valsave")
  /\ rawval' = Part(job.split.val)
  /\ torn' = (proc.st # "absent")
  /\ Goto("valsaved")
  /\ UNCHANGED <<storage, builder, bcache, raw, proc, kills>>

ValSaved ==
  /\ At("valsaved")
  /\ rawval' = Whole(rawval.rows)
  /\ Goto("transform")
  /\ UNCHANGED <<storage, builder, bcache, raw, proc, torn, kills>>

\* The exclusion transform resolves the benchmark again, once for both splits.
Transform ==
  /\ At("transform")
  /\ bcache' = Resolved.file
  /\ \E train \in Subsamples(job.split.train, job.small),
        val \in Subsamples(job.split.val, job.small) :
       LET excluded == Excluded(Resolved.rows)
       IN  job' = [job EXCEPT !.pc = "save", !.excluded = Resolved.rows, !.size = size,
                     !.split = [train |-> Transformed(train, excluded),
                                val |-> Transformed(val, excluded)]]
  /\ UNCHANGED <<storage, builder, raw, cache, kills>>

\* Mutant of Save: an old directory is not removed, and cannot be written to.
SaveOver ==
  /\ At("save")
  /\ IF proc.st = "absent"
       THEN proc' = [st |-> "part", split |-> job.split] /\ torn' = FALSE /\ Goto("saved")
       ELSE Goto("failed") /\ UNCHANGED <<proc, torn>>
  /\ UNCHANGED <<storage, builder, bcache, raw, rawval, kills>>

\* The old directory is removed, the new one written in its place.
Save ==
  /\ At("save")
  /\ proc' = [st |-> "part", split |-> job.split]
  /\ torn' = FALSE
  /\ Goto("saved")
  /\ UNCHANGED <<storage, builder, bcache, raw, rawval, kills>>

Saved ==
  /\ At("saved")
  /\ proc' = [proc EXCEPT !.st = "whole"]
  /\ Goto("setup")
  /\ UNCHANGED <<storage, builder, bcache, raw, rawval, torn, kills>>
-----------------------------------------------------------------------------
(* DataModule.setup                                                        *)

\* load_from_disk of both directories; without raw_val_dir there is a warning.
SetupFit ==
  /\ At("setup")
  /\ job' = IF proc.st # "whole" \/ rawval.st = "part"
              THEN [job EXCEPT !.pc = "failed"]
              ELSE [job EXCEPT !.pc = "fit", !.split = proc.split, !.eval = rawval.rows]
  /\ UNCHANGED <<storage, builder, disk, kills>>

\* trainer.fit, then trainer.test, which reads the benchmark of that moment.
SetupTest ==
  /\ At("fit")
  /\ bcache' = Resolved.file
  /\ job' = [job EXCEPT !.pc = "done", !.tested = Resolved.rows]
  /\ UNCHANGED <<storage, builder, raw, cache, kills>>

\* The process ends, and the next run starts.
Finish ==
  /\ At("done") \/ At("failed")
  /\ job' = NoJob
  /\ UNCHANGED <<storage, builder, disk, kills>>

\* A killed process may leave a directory it was writing removed.
Killed(dir, pc, gone) == {dir} \cup (IF At(pc) THEN {gone} ELSE {})

Kill ==
  /\ kills < MaxKills
  /\ kills' = kills + 1
  /\ \/ /\ ~At("idle")
        /\ job' = NoJob
        /\ rawval' \in Killed(rawval, "valsaved", Absent)
        /\ proc' \in Killed(proc, "saved", NoProc)
        /\ UNCHANGED builder
     \/ /\ builder' = NoBuilder
        /\ UNCHANGED <<job, rawval, proc>>
  /\ UNCHANGED <<storage, bcache, raw, torn>>

Prepare ==
  \/ FetchLocal \/ FetchHf \/ SaveHf \/ FetchS3
  \/ ResolveBench \/ SaveVal \/ ValSaved \/ Transform \/ Save \/ Saved
  \/ SetupFit \/ SetupTest \/ Finish

Next ==
  \/ Publish \/ Sample \/ UploadBench \/ WriteManifest
  \/ \E small, force \in BOOLEAN : Start(small, force)
  \/ Prepare
  \/ Kill

Spec == Init /\ [][Next]_vars

\* A process that is not killed goes on.
FairSpec == Spec /\ WF_vars(Prepare)
-----------------------------------------------------------------------------
(* Properties.                                                             *)

Splits == [train : SUBSET Rows, val : SUBSET Rows]
Jobs ==
  [pc : {"idle", "fetch", "hfsave", "s3get", "resolve", "valsave", "valsaved", "transform",
         "save", "saved", "setup", "fit", "done", "failed"},
   small : BOOLEAN, force : BOOLEAN, split : Splits, size : 0..BenchSize,
   excluded : SUBSET Rows, eval : SUBSET Rows, tested : SUBSET Rows]
Dirs == [st : {"absent", "part", "whole"}, rows : SUBSET Rows]

\* The types; a row is never in both processed splits.
TypeOK ==
  /\ source \in Sources
  /\ version \in DOMAIN Data
  /\ bench \subseteq Rows /\ bcache \subseteq Rows
  /\ size \in 0..BenchSize
  /\ builder \in [pc : {"idle", "upload", "manifest"}, sample : SUBSET Rows]
  /\ raw \in Dirs /\ rawval \in Dirs
  /\ proc \in [st : {"absent", "part", "whole"}, split : Splits]
  /\ proc.split.train \cap proc.split.val = {}
  /\ torn \in BOOLEAN
  /\ job \in Jobs
  /\ kills \in 0..MaxKills

Trains == At("fit") \/ At("done")

\* The validation loss and the generation metrics of a run are about the same
\* data: the raw rows it evaluates on contain every row it validates on, and no
\* row that it trains on.  Forced and unforced runs, runs on a sample, new data
\* and kills in between may come in any order; the one exception is a run that
\* replaced the raw rows and ended before it replaced the processed splits.
PairFits ==
  Trains /\ job.eval # {} /\ ~torn =>
    /\ job.split.val \subseteq job.eval
    /\ job.split.train \cap job.eval = {}

\* A run that processes its data anew, without max_samples, trains on a whole
\* version of them, less the benchmark it excluded; a Hugging Face cache that
\* was half written never counts as one.  (Objects of a half finished S3
\* download do.)
WholeData ==
  Trains /\ job.force /\ ~job.small /\ source \in {"local", "hf"} =>
    \E v \in 1..version :
      job.split.train \cup job.split.val = Transformed(Data[v], Excluded(job.excluded))

\* The cached benchmark is judged by its number of lines alone.  A run that
\* processed its data with a benchmark of the size in the manifest, and finds
\* the same size there when it tests, hours later, tests on what it excluded
\* from training, although the storage may hold another benchmark by then.
SameSizeSameBenchmark ==
  [][At("fit") /\ job'.pc = "done"
     /\ job.size # 0 /\ size = job.size /\ Cardinality(job.excluded) = size
     => /\ job'.tested = job.excluded
        /\ Matching => job.split.train \cap job'.tested = {}]_vars

\* Of the directories a run finds, only one that a killed run left half written
\* makes it fail.  (Errors of the source or the network end it as a kill does.)
FailsOnlyOnPart ==
  At("failed") => \/ source = "hf" /\ raw.st = "part"
                  \/ proc.st = "part"
                  \/ rawval.st = "part"

\* With a source whose cache is not a saved dataset, runs with force_reprocess
\* that are started again and again get to train, whatever was killed.
TrainsInTheEnd == source # "hf" /\ []<>job.force => []<>(At("done") /\ job.force)
-----------------------------------------------------------------------------
(* What the documentation says and the code does not keep.                 *)

\* "Исключает из обучающей выборки примеры, попавшие в эталонный бенчмарк"
\* (exclusion.py:1-4): no run tests on rows it was trained on.
NothingLeaks == At("done") => job.split.train \cap job.tested = {}

\* "val_dataset_raw — сырой val до трансформаций [...] Сохраняется на диск рядом
\* с токенизированным кэшем" (builder.py:16-18): the raw rows beside the
\* processed splits are those that validation was made of.
RawIsOfTheCache == Trains /\ job.eval # {} => job.split.val \subseteq job.eval
=============================================================================
