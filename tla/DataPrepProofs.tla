--------------------------- MODULE DataPrepProofs ---------------------------
(***************************************************************************)
(* Proofs about DataPrep for any data, benchmark and number of kills: what *)
(* a run trains, validates and tests on, and when a run can fail.  And     *)
(* about Transforms for any dataset, sizes and tokenizer: why a row is     *)
(* dropped, what the chunks of a document hold, and which tokens the loss  *)
(* is about.                                                               *)
(***************************************************************************)
EXTENDS DataPrep, Transforms, Integers, FiniteSetTheorems, SequenceTheorems,
        WellFoundedInduction, NaturalsInduction, TLAPS

\* Before the processed splits are written, and while they are.
Fetching == {"fetch", "hfsave", "s3get"}
Owning == {"save", "saved", "setup", "fit", "done"}

Typed ==
  /\ source \in Sources
  /\ version \in DOMAIN Data
  /\ bench \subseteq Rows /\ bcache \subseteq Rows
  /\ size \in 0..BenchSize
  /\ builder \in [pc : {"idle", "upload", "manifest"}, sample : SUBSET Rows]
  /\ Cardinality(builder.sample) <= BenchSize
  /\ raw \in Dirs /\ rawval \in Dirs
  /\ proc \in [st : {"absent", "part", "whole"}, split : Splits]
  /\ torn \in BOOLEAN
  /\ job \in Jobs
  /\ kills \in 0..MaxKills

\* No row is in both splits.
Disjoint(split) == split.train \cap split.val = {}

\* The raw rows beside a split contain what it validates on, and no row that it
\* trains on.
Pairs(split, with) == split.val \subseteq with /\ split.train \cap with = {}

\* Which state of the two directories a step finds.  Between the two, the raw
\* rows are those of the run's own split; they stay beside splits of another
\* run only when they are torn.
PairInv ==
  /\ Disjoint(job.split) /\ Disjoint(proc.split)
  /\ job.pc \in {"valsaved", "transform", "save", "saved"} => Pairs(job.split, rawval.rows)
  /\ job.pc \in {"valsaved", "transform", "save"} /\ ~torn => proc.st = "absent"
  /\ job.pc = "saved" => proc.split = job.split
  /\ job.pc = "setup" => proc.st # "absent"
  /\ proc.st # "absent" /\ ~torn => Pairs(proc.split, rawval.rows)
  /\ Trains /\ ~torn /\ job.eval # {} => Pairs(job.split, job.eval)

\* A run that processed its data trains on what it processed itself, without
\* what it excluded, and that is the benchmark in the cache until it tests.
OwnSplit == IF job.pc = "setup" THEN proc.split ELSE job.split

Excludes ==
  /\ job.size # 0 => job.pc \in Owning \cup {"failed"}
  /\ job.size # 0 /\ job.pc \in Owning /\ Matching => OwnSplit.train \cap job.excluded = {}
  /\ job.size # 0 /\ job.pc \in Owning \ {"done"} => bcache = job.excluded

\* It is the whole of one version.
Versions == {Data[v] : v \in 1..version}

Whole1 ==
  /\ job.pc = "hfsave" => source = "hf"
  /\ source = "hf" /\ (raw.st = "whole" \/ job.pc = "hfsave") => raw.rows \in Versions
  /\ source \in {"local", "hf"} /\ job.pc \in {"resolve", "valsave", "valsaved", "transform"}
       => \E data \in Versions : job.split = Split(data)
  /\ job.force /\ ~job.small /\ source \in {"local", "hf"} /\ job.pc \in Owning
       => \E data \in Versions :
            OwnSplit.train \cup OwnSplit.val = Transformed(data, Excluded(job.excluded))

DataInv ==
  /\ Typed
  /\ PairInv
  /\ Excludes
  /\ Whole1
  /\ FailsOnlyOnPart
-----------------------------------------------------------------------------
LEMMA VersionRows ==
  ASSUME Typed
  PROVE  /\ Data[version] \in Versions /\ Data[version] \subseteq Rows
         /\ version \in Nat /\ version \in 1..Len(Data)
  BY DataPrepAssumption DEF Typed, Versions

LEMMA VersionsAreRows ==
  ASSUME Typed, NEW data \in Versions
  PROVE  data \subseteq Rows
  BY DataPrepAssumption DEF Typed, Versions

LEMMA SplitDisjoint ==
  ASSUME NEW data, data \subseteq Rows
  PROVE  Split(data) \in Splits /\ Disjoint(Split(data))
         /\ Split(data).train \cup Split(data).val = data
  <1>1. ValRows[data] \subseteq data
    BY DataPrepAssumption
  <1> QED
    BY <1>1 DEF Split, Splits, Disjoint

LEMMA SubsamplesOf ==
  ASSUME NEW data, NEW small, NEW s \in Subsamples(data, small)
  PROVE  s \subseteq data /\ (~small => s = data)
  BY DEF Subsamples

LEMMA ResolvedRows ==
  ASSUME Typed
  PROVE  Resolved.rows \subseteq Rows /\ Resolved.file \subseteq Rows
         /\ (size # 0 => Resolved.file = Resolved.rows)
  BY DEF Resolved, Typed

LEMMA NoJobTyped ==
  /\ NoJob \in Jobs /\ NoJob.pc = "idle" /\ NoJob.split = NoSplit /\ NoJob.eval = {}
  /\ NoJob.small = FALSE /\ NoJob.force = FALSE /\ NoJob.size = 0
  /\ NoSplit \in Splits /\ Disjoint(NoSplit)
  BY DataPrepAssumption DEF NoJob, Jobs, NoSplit, Splits, Disjoint

\* A set of rows has a size, and the builder that starts anew has no sample.
LEMMA SampleSize ==
  /\ \A s \in SUBSET Rows : Cardinality(s) \in Nat
  /\ NoBuilder.sample = {} /\ Cardinality({}) = 0 /\ BenchSize \in Nat
  /\ NoBuilder \in [pc : {"idle", "upload", "manifest"}, sample : SUBSET Rows]
  BY FS_Subset, FS_CardinalityType, FS_EmptySet, DataPrepAssumption DEF NoBuilder

\* What the source and build_benchmark do is seen by no run before it fetches.
LEMMA OutsideStep ==
  ASSUME DataInv, Typed', UNCHANGED <<source, disk, job>>, Versions \subseteq Versions'
  PROVE  DataInv'
  <1>1. UNCHANGED <<source, bcache, raw, rawval, proc, torn, job>>
    BY DEF disk, cache
  <1>2. PairInv' /\ Excludes' /\ FailsOnlyOnPart'
    BY <1>1 DEF DataInv, PairInv, Disjoint, Pairs, Trains, At, Excludes, OwnSplit, FailsOnlyOnPart
  <1>3. Whole1'
    <2>1. OwnSplit' = OwnSplit
          /\ \A data, b : (Transformed(data, Excluded(b)))' = Transformed(data, Excluded(b))
      BY <1>1 DEF OwnSplit, Transformed, Excluded
    <2> QED
      BY <1>1, <2>1 DEF DataInv, Whole1, Split
  <1> QED
    BY <1>2, <1>3 DEF DataInv

LEMMA PublishData == DataInv /\ Publish => DataInv'
  <1> SUFFICES ASSUME DataInv, Publish PROVE DataInv'
    OBVIOUS
  <1>1. version < Len(Data) /\ version' = version + 1
        /\ UNCHANGED <<source, bench, size, builder, disk, job, kills>>
    BY DEF Publish
  <1>2. Versions \subseteq Versions' /\ version' \in DOMAIN Data
    BY <1>1, VersionRows, DataPrepAssumption DEF DataInv, Versions
  <1>3. Typed'
    BY <1>1, <1>2 DEF DataInv, Typed, disk, cache
  <1> QED
    BY <1>1, <1>2, <1>3, OutsideStep

\* A sample has as many rows as were asked for, if there are so many.
LEMMA SampleData == DataInv /\ Sample => DataInv'
  <1> SUFFICES ASSUME DataInv, Sample PROVE DataInv'
    OBVIOUS
  <1>1. PICK s \in SUBSET Data[version] :
          Cardinality(s) \in 1..BenchSize /\ builder' = [pc |-> "upload", sample |-> s]
    BY DEF Sample
  <1>2. UNCHANGED <<source, version, bench, size, disk, job, kills>>
    BY DEF Sample, storage
  <1>3. Data[version] \subseteq Rows
    BY VersionRows DEF DataInv
  <1>4. Typed'
    BY <1>1, <1>2, <1>3, SampleSize DEF DataInv, Typed, disk, cache
  <1>5. Versions' = Versions
    BY <1>2 DEF Versions
  <1> QED
    BY <1>2, <1>4, <1>5, OutsideStep

LEMMA UploadBenchData == DataInv /\ UploadBench => DataInv'
  <1> SUFFICES ASSUME DataInv, UploadBench PROVE DataInv'
    OBVIOUS
  <1>1. bench' = builder.sample /\ builder' = [builder EXCEPT !.pc = "manifest"]
        /\ UNCHANGED <<source, version, size, disk, job, kills>>
    BY DEF UploadBench
  <1>2. Typed'
    BY <1>1 DEF DataInv, Typed, disk, cache
  <1>3. Versions' = Versions
    BY <1>1 DEF Versions
  <1> QED
    BY <1>1, <1>2, <1>3, OutsideStep

LEMMA WriteManifestData == DataInv /\ WriteManifest => DataInv'
  <1> SUFFICES ASSUME DataInv, WriteManifest PROVE DataInv'
    OBVIOUS
  <1>1. size' = Cardinality(builder.sample) /\ builder' = NoBuilder
        /\ UNCHANGED <<source, version, bench, disk, job, kills>>
    BY DEF WriteManifest
  <1>2. size' \in 0..BenchSize
    BY <1>1, SampleSize DEF DataInv, Typed
  <1>3. Typed'
    BY <1>1, <1>2, SampleSize DEF DataInv, Typed, disk, cache
  <1>4. Versions' = Versions
    BY <1>1 DEF Versions
  <1> QED
    BY <1>1, <1>3, <1>4, OutsideStep

\* The rows that were fetched are split.
LEMMA FetchedData ==
  ASSUME DataInv, NEW data, data \subseteq Rows, Fetched(data), job.pc \in Fetching,
         source \in {"local", "hf"} => data \in Versions,
         raw' \in Dirs, source = "hf" => raw'.rows = data,
         UNCHANGED <<source, version, bench, size, bcache, builder, rawval, proc, torn, kills>>
  PROVE  DataInv'
  <1>1. job \in Jobs
    BY DEF DataInv, Typed
  <1>2. job' = [job EXCEPT !.pc = "resolve", !.split = Split(data)]
    BY DEF Fetched
  <1>3. Split(data) \in Splits /\ Disjoint(Split(data))
    BY SplitDisjoint
  <1>4. job' \in Jobs /\ job'.pc = "resolve" /\ job'.split = Split(data)
        /\ job'.eval = job.eval /\ job'.small = job.small /\ job'.size = job.size
    BY <1>1, <1>2, <1>3 DEF Jobs
  <1>5. Typed'
    BY <1>4 DEF DataInv, Typed
  <1>6. PairInv'
    BY <1>3, <1>4 DEF DataInv, PairInv, Disjoint, Pairs, Trains, At
  <1>7. Excludes' /\ FailsOnlyOnPart'
    BY <1>4 DEF DataInv, Excludes, FailsOnlyOnPart, Fetching, Owning, At
  <1>8. Whole1'
    BY <1>4 DEF DataInv, Whole1, Versions, Split, Owning
  <1> QED
    BY <1>5, <1>6, <1>7, <1>8 DEF DataInv

LEMMA FetchLocalData == DataInv /\ FetchLocal => DataInv'
  <1> SUFFICES ASSUME DataInv, FetchLocal PROVE DataInv'
    OBVIOUS
  <1>1. /\ source = "local" /\ Fetched(Data[version]) /\ job.pc = "fetch"
        /\ UNCHANGED <<source, version, bench, size, bcache, builder, raw, rawval, proc, torn, kills>>
    BY DEF FetchLocal, At, storage, disk, cache
  <1>2. Data[version] \subseteq Rows /\ Data[version] \in Versions /\ raw' \in Dirs
    BY <1>1, VersionRows DEF DataInv, Typed
  <1> QED
    BY <1>1, <1>2, FetchedData DEF Fetching

\* A step of a fetch that is not its last.
LEMMA FetchingData ==
  ASSUME DataInv, NEW pc \in {"hfsave", "s3get", "failed"}, job' = [job EXCEPT !.pc = pc],
         job.pc \in Fetching, pc = "hfsave" => source = "hf",
         pc = "failed" => source = "hf" /\ raw'.st = "part",
         raw' \in Dirs,
         source = "hf" => raw'.st # "whole" /\ (pc = "hfsave" => raw'.rows \in Versions),
         UNCHANGED <<source, version, bench, size, bcache, builder, rawval, proc, torn, kills>>
  PROVE  DataInv'
  <1>1. job \in Jobs
    BY DEF DataInv, Typed
  <1>2. job' \in Jobs /\ job'.pc = pc /\ job'.split = job.split /\ job'.eval = job.eval
        /\ job'.size = job.size
    BY <1>1 DEF Jobs
  <1>3. Typed'
    BY <1>2 DEF DataInv, Typed
  <1>4. PairInv'
    BY <1>2 DEF DataInv, PairInv, Disjoint, Pairs, Trains, At
  <1>5. Excludes' /\ FailsOnlyOnPart'
    BY <1>2 DEF DataInv, Excludes, FailsOnlyOnPart, Fetching, Owning, At
  <1>6. Whole1'
    BY <1>2 DEF DataInv, Whole1, Versions, Owning
  <1> QED
    BY <1>3, <1>4, <1>5, <1>6 DEF DataInv

LEMMA FetchHfData == DataInv /\ FetchHf => DataInv'
  <1> SUFFICES ASSUME DataInv, FetchHf PROVE DataInv'
    OBVIOUS
  <1>1. /\ job \in Jobs /\ raw \in Dirs /\ job.pc = "fetch" /\ source = "hf"
        /\ UNCHANGED <<source, version, bench, size, bcache, builder, rawval, proc, torn, kills>>
    BY DEF FetchHf, DataInv, Typed, At, storage, cache
  <1>2. CASE raw.st = "whole"
    <2>1. Fetched(raw.rows) /\ raw' = raw
      BY <1>2 DEF FetchHf
    <2>2. raw.rows \in Versions /\ raw.rows \subseteq Rows
      BY <1>1, <1>2 DEF DataInv, Whole1, Dirs
    <2> QED
      BY <1>1, <2>1, <2>2, FetchedData DEF Fetching
  <1>3. CASE raw.st = "absent"
    <2>1. job' = [job EXCEPT !.pc = "hfsave"] /\ raw' = Part(Data[version])
      BY <1>3 DEF FetchHf, Goto
    <2>2. raw' \in Dirs /\ raw'.st = "part" /\ raw'.rows \in Versions
      BY <1>1, <2>1, VersionRows DEF DataInv, Dirs, Part
    <2> QED
      BY <1>1, <2>1, <2>2, FetchingData DEF Fetching
  <1>4. CASE raw.st = "part"
    <2>1. job' = [job EXCEPT !.pc = "failed"] /\ raw' = raw
      BY <1>4 DEF FetchHf, Goto
    <2> QED
      BY <1>1, <1>4, <2>1, FetchingData DEF Fetching
  <1> QED
    BY <1>1, <1>2, <1>3, <1>4 DEF Dirs

LEMMA SaveHfData == DataInv /\ SaveHf => DataInv'
  <1> SUFFICES ASSUME DataInv, SaveHf PROVE DataInv'
    OBVIOUS
  <1>1. /\ Fetched(raw.rows) /\ job.pc = "hfsave" /\ raw' = Whole(raw.rows) /\ raw \in Dirs
        /\ UNCHANGED <<source, version, bench, size, bcache, builder, rawval, proc, torn, kills>>
    BY DEF SaveHf, At, storage, cache, DataInv, Typed
  <1>2. raw.rows \subseteq Rows /\ raw' \in Dirs /\ raw'.rows = raw.rows
    BY <1>1 DEF Dirs, Whole
  <1>3. source = "hf"
    BY <1>1 DEF DataInv, Whole1
  <1>4. raw.rows \in Versions
    BY <1>1, <1>3 DEF DataInv, Whole1
  <1> QED
    BY <1>1, <1>2, <1>4, FetchedData DEF Fetching

LEMMA FetchS3Data == DataInv /\ FetchS3 => DataInv'
  <1> SUFFICES ASSUME DataInv, FetchS3 PROVE DataInv'
    OBVIOUS
  <1>1. /\ job \in Jobs /\ raw \in Dirs /\ job.pc \in {"fetch", "s3get"} /\ source = "s3"
        /\ UNCHANGED <<source, version, bench, size, bcache, builder, rawval, proc, torn, kills>>
    BY DEF FetchS3, DataInv, Typed, At, storage, cache
  <1>2. CASE \E row \in Data[version] \ raw.rows :
               raw' = Part(raw.rows \cup {row}) /\ Goto("s3get")
    <2>1. raw' \in Dirs
      BY <1>1, <1>2, VersionRows DEF DataInv, Dirs, Part
    <2>2. job' = [job EXCEPT !.pc = "s3get"]
      BY <1>2 DEF Goto
    <2> QED
      BY <1>1, <2>1, <2>2, FetchingData DEF Fetching
  <1>3. CASE raw' = Whole(raw.rows) /\ Fetched(raw.rows)
    <2>1. raw' \in Dirs /\ raw.rows \subseteq Rows
      BY <1>1, <1>3 DEF Dirs, Whole
    <2> QED
      BY <1>1, <1>3, <2>1, FetchedData DEF Fetching
  <1> QED
    BY <1>2, <1>3 DEF FetchS3

LEMMA ResolveBenchData == DataInv /\ ResolveBench => DataInv'
  <1> SUFFICES ASSUME DataInv, ResolveBench PROVE DataInv'
    OBVIOUS
  <1> USE DEF ResolveBench, At, Goto, storage, disk, cache, Owning
  <1>1. Typed /\ job \in Jobs
    BY DEF DataInv, Typed
  <1>2. Typed'
    BY <1>1, VersionRows, ResolvedRows DEF Typed, Jobs, Dirs, Part, Whole, Splits
  <1>3. PairInv'
    BY <1>1 DEF DataInv, PairInv, Disjoint, Pairs, Trains, Jobs, Typed, Part, Whole
  <1>4. Excludes'
    BY <1>1, ResolvedRows DEF DataInv, PairInv, Excludes, OwnSplit, Jobs, Typed
  <1>5. Whole1'
    BY <1>1 DEF DataInv, PairInv, Whole1, OwnSplit, Jobs, Versions, Transformed, Excluded, Typed
  <1>6. FailsOnlyOnPart'
    BY <1>1 DEF DataInv, Typed, PairInv, FailsOnlyOnPart, Jobs
  <1> QED
    BY <1>2, <1>3, <1>4, <1>5, <1>6 DEF DataInv

LEMMA SaveValData == DataInv /\ SaveVal => DataInv'
  <1> SUFFICES ASSUME DataInv, SaveVal PROVE DataInv'
    OBVIOUS
  <1> USE DEF SaveVal, At, Goto, storage, disk, cache, Owning
  <1>1. Typed /\ job \in Jobs
    BY DEF DataInv, Typed
  <1>2. Typed'
    BY <1>1, VersionRows, ResolvedRows DEF Typed, Jobs, Dirs, Part, Whole, Splits
  <1>3. PairInv'
    BY <1>1 DEF DataInv, PairInv, Disjoint, Pairs, Trains, Jobs, Typed, Part, Whole
  <1>4. Excludes'
    BY <1>1, ResolvedRows DEF DataInv, PairInv, Excludes, OwnSplit, Jobs, Typed
  <1>5. Whole1'
    BY <1>1 DEF DataInv, PairInv, Whole1, OwnSplit, Jobs, Versions, Transformed, Excluded, Typed
  <1>6. FailsOnlyOnPart'
    BY <1>1 DEF DataInv, Typed, PairInv, FailsOnlyOnPart, Jobs
  <1> QED
    BY <1>2, <1>3, <1>4, <1>5, <1>6 DEF DataInv

LEMMA ValSavedData == DataInv /\ ValSaved => DataInv'
  <1> SUFFICES ASSUME DataInv, ValSaved PROVE DataInv'
    OBVIOUS
  <1> USE DEF ValSaved, At, Goto, storage, disk, cache, Owning
  <1>1. Typed /\ job \in Jobs
    BY DEF DataInv, Typed
  <1>2. Typed'
    BY <1>1, VersionRows, ResolvedRows DEF Typed, Jobs, Dirs, Part, Whole, Splits
  <1>3. PairInv'
    BY <1>1 DEF DataInv, PairInv, Disjoint, Pairs, Trains, Jobs, Typed, Part, Whole
  <1>4. Excludes'
    BY <1>1, ResolvedRows DEF DataInv, PairInv, Excludes, OwnSplit, Jobs, Typed
  <1>5. Whole1'
    BY <1>1 DEF DataInv, PairInv, Whole1, OwnSplit, Jobs, Versions, Transformed, Excluded, Typed
  <1>6. FailsOnlyOnPart'
    BY <1>1 DEF DataInv, Typed, PairInv, FailsOnlyOnPart, Jobs
  <1> QED
    BY <1>2, <1>3, <1>4, <1>5, <1>6 DEF DataInv

LEMMA TransformData == DataInv /\ Transform => DataInv'
  <1> SUFFICES ASSUME DataInv, Transform PROVE DataInv'
    OBVIOUS
  <1> DEFINE data == Resolved.rows
             excluded == Excluded(data)
  <1>1. /\ job \in Jobs /\ job.pc = "transform" /\ bcache' = Resolved.file
        /\ UNCHANGED <<source, version, bench, size, builder, raw, rawval, proc, torn, kills>>
    BY DEF Transform, At, storage, cache, DataInv, Typed
  <1>2. data \subseteq Rows /\ Resolved.file \subseteq Rows /\ (size # 0 => Resolved.file = data)
        /\ size \in 0..BenchSize
    BY ResolvedRows DEF DataInv, Typed
  <1>3. PICK train \in Subsamples(job.split.train, job.small),
             val \in Subsamples(job.split.val, job.small) :
          job' = [job EXCEPT !.pc = "save", !.excluded = data, !.size = size,
                    !.split = [train |-> Transformed(train, excluded),
                               val |-> Transformed(val, excluded)]]
    BY Zenon DEF Transform
  <1>4. train \subseteq job.split.train /\ val \subseteq job.split.val
        /\ (~job.small => train = job.split.train /\ val = job.split.val)
    BY <1>3, SubsamplesOf
  <1>5. job.split.train \subseteq Rows /\ job.split.val \subseteq Rows
    BY <1>1 DEF Jobs, Splits
  <1> HIDE DEF data, excluded
  <1> DEFINE new == [train |-> Transformed(train, excluded), val |-> Transformed(val, excluded)]
  <1>6. /\ new.train \subseteq train /\ new.val \subseteq val
        /\ new.train = Transformed(train, excluded) /\ new.val = Transformed(val, excluded)
        /\ new.train \cap excluded = {} /\ new \in Splits
    BY <1>4, <1>5 DEF Transformed, Splits
  <1> HIDE DEF new
  <1>7. job' = [job EXCEPT !.pc = "save", !.excluded = data, !.size = size, !.split = new]
    BY <1>3 DEF new
  <1>8. /\ job' \in Jobs /\ job'.pc = "save" /\ job'.split = new /\ job'.excluded = data
        /\ job'.eval = job.eval /\ job'.small = job.small /\ job'.size = size
    BY <1>1, <1>2, <1>6, <1>7 DEF Jobs
  <1>9. Typed'
    BY <1>1, <1>2, <1>8 DEF DataInv, Typed
  <1>10. PairInv'
    BY <1>1, <1>4, <1>6, <1>8 DEF DataInv, PairInv, Disjoint, Pairs, Trains, At
  <1>11. Excludes'
    <2>1. Matching => new.train \cap data = {}
      BY <1>6 DEF excluded, Excluded
    <2>2. size # 0 => bcache' = data
      BY <1>1, <1>2
    <2> QED
      BY <1>8, <2>1, <2>2 DEF Excludes, OwnSplit, Owning
  <1>12. Whole1'
    <2>1. ASSUME ~job.small, source \in {"local", "hf"}
          PROVE  \E d \in Versions : new.train \cup new.val = Transformed(d, excluded)
      <3>1. PICK d \in Versions : job.split = Split(d)
        BY <1>1, <2>1 DEF DataInv, Whole1
      <3>2. d \subseteq Rows
        BY VersionsAreRows DEF DataInv
      <3>3. train \cup val = d
        BY <1>4, <2>1, <3>1, <3>2, SplitDisjoint
      <3>4. new.train \cup new.val = Transformed(d, excluded)
        BY <1>6, <3>3 DEF Transformed
      <3> QED
        BY <3>4
    <2>2. Versions' = Versions
      BY <1>1 DEF Versions
    <2>3. (Excluded(job.excluded))' = excluded /\ OwnSplit' = new
      BY <1>1, <1>8 DEF excluded, Excluded, OwnSplit
    <2>4. raw' = raw /\ job'.pc = "save" /\ job'.small = job.small /\ source' = source
      BY <1>1, <1>8
    <2> QED
      BY <1>1, <2>1, <2>2, <2>3, <2>4 DEF DataInv, Whole1, Transformed
  <1>13. FailsOnlyOnPart'
    BY <1>8 DEF FailsOnlyOnPart, At
  <1> QED
    BY <1>9, <1>10, <1>11, <1>12, <1>13 DEF DataInv

LEMMA SaveData == DataInv /\ Save => DataInv'
  <1> SUFFICES ASSUME DataInv, Save PROVE DataInv'
    OBVIOUS
  <1> USE DEF Save, At, Goto, storage, disk, cache, Owning
  <1>1. Typed /\ job \in Jobs
    BY DEF DataInv, Typed
  <1>2. Typed'
    BY <1>1, VersionRows, ResolvedRows DEF Typed, Jobs, Dirs, Part, Whole, Splits
  <1>3. PairInv'
    BY <1>1 DEF DataInv, PairInv, Disjoint, Pairs, Trains, Jobs, Typed, Part, Whole
  <1>4. Excludes'
    BY <1>1, ResolvedRows DEF DataInv, PairInv, Excludes, OwnSplit, Jobs, Typed
  <1>5. Whole1'
    BY <1>1 DEF DataInv, PairInv, Whole1, OwnSplit, Jobs, Versions, Transformed, Excluded, Typed
  <1>6. FailsOnlyOnPart'
    BY <1>1 DEF DataInv, Typed, PairInv, FailsOnlyOnPart, Jobs
  <1> QED
    BY <1>2, <1>3, <1>4, <1>5, <1>6 DEF DataInv

LEMMA SavedData == DataInv /\ Saved => DataInv'
  <1> SUFFICES ASSUME DataInv, Saved PROVE DataInv'
    OBVIOUS
  <1> USE DEF Saved, At, Goto, storage, disk, cache, Owning
  <1>1. Typed /\ job \in Jobs
    BY DEF DataInv, Typed
  <1>2. Typed'
    BY <1>1, VersionRows, ResolvedRows DEF Typed, Jobs, Dirs, Part, Whole, Splits
  <1>3. PairInv'
    BY <1>1 DEF DataInv, PairInv, Disjoint, Pairs, Trains, Jobs, Typed, Part, Whole
  <1>4. Excludes'
    BY <1>1, ResolvedRows DEF DataInv, PairInv, Excludes, OwnSplit, Jobs, Typed
  <1>5. Whole1'
    BY <1>1 DEF DataInv, PairInv, Whole1, OwnSplit, Jobs, Versions, Transformed, Excluded, Typed
  <1>6. FailsOnlyOnPart'
    BY <1>1 DEF DataInv, Typed, PairInv, FailsOnlyOnPart, Jobs
  <1> QED
    BY <1>2, <1>3, <1>4, <1>5, <1>6 DEF DataInv

LEMMA SetupFitData == DataInv /\ SetupFit => DataInv'
  <1> SUFFICES ASSUME DataInv, SetupFit PROVE DataInv'
    OBVIOUS
  <1> USE DEF SetupFit, At, Goto, storage, disk, cache, Owning
  <1>1. Typed /\ job \in Jobs
    BY DEF DataInv, Typed
  <1>2. Typed'
    BY <1>1, VersionRows, ResolvedRows DEF Typed, Jobs, Dirs, Part, Whole, Splits
  <1>3. PairInv'
    BY <1>1 DEF DataInv, PairInv, Disjoint, Pairs, Trains, Jobs, Typed, Part, Whole
  <1>4. Excludes'
    BY <1>1, ResolvedRows DEF DataInv, PairInv, Excludes, OwnSplit, Jobs, Typed
  <1>5. Whole1'
    BY <1>1 DEF DataInv, PairInv, Whole1, OwnSplit, Jobs, Versions, Transformed, Excluded, Typed
  <1>6. FailsOnlyOnPart'
    BY <1>1 DEF DataInv, Typed, PairInv, FailsOnlyOnPart, Jobs
  <1> QED
    BY <1>2, <1>3, <1>4, <1>5, <1>6 DEF DataInv

LEMMA SetupTestData == DataInv /\ SetupTest => DataInv'
  <1> SUFFICES ASSUME DataInv, SetupTest PROVE DataInv'
    OBVIOUS
  <1> USE DEF SetupTest, At, Goto, storage, disk, cache, Owning
  <1>1. Typed /\ job \in Jobs
    BY DEF DataInv, Typed
  <1>2. Typed'
    BY <1>1, VersionRows, ResolvedRows DEF Typed, Jobs, Dirs, Part, Whole, Splits
  <1>3. PairInv'
    BY <1>1 DEF DataInv, PairInv, Disjoint, Pairs, Trains, Jobs, Typed, Part, Whole
  <1>4. Excludes'
    BY <1>1, ResolvedRows DEF DataInv, PairInv, Excludes, OwnSplit, Jobs, Typed
  <1>5. Whole1'
    BY <1>1 DEF DataInv, PairInv, Whole1, OwnSplit, Jobs, Versions, Transformed, Excluded, Typed
  <1>6. FailsOnlyOnPart'
    BY <1>1 DEF DataInv, Typed, PairInv, FailsOnlyOnPart, Jobs
  <1> QED
    BY <1>2, <1>3, <1>4, <1>5, <1>6 DEF DataInv

\* The run ends, or is killed: the next begins with nothing.
LEMMA EndedData ==
  ASSUME DataInv, job' = NoJob, UNCHANGED <<source, version, bench, size, bcache, raw, torn>>,
         builder' \in {builder, NoBuilder}, kills' \in 0..MaxKills,
         rawval' \in {rawval} \cup (IF job.pc = "valsaved" THEN {Absent} ELSE {}),
         proc' \in {proc} \cup (IF job.pc = "saved" THEN {NoProc} ELSE {})
  PROVE  DataInv'
  <1>1. rawval' \in Dirs /\ proc' \in [st : {"absent", "part", "whole"}, split : Splits]
        /\ Disjoint(proc'.split)
    BY NoJobTyped DEF DataInv, Typed, PairInv, Absent, NoProc, Dirs
  <1>2. builder' \in [pc : {"idle", "upload", "manifest"}, sample : SUBSET Rows]
        /\ Cardinality(builder'.sample) <= BenchSize
    <2>1. CASE builder' = builder
      BY <2>1 DEF DataInv, Typed
    <2>2. CASE builder' = NoBuilder
      BY <2>2, SampleSize, DataPrepAssumption
    <2> QED
      BY <2>1, <2>2
  <1>3. Typed'
    BY <1>1, <1>2, NoJobTyped DEF DataInv, Typed
  <1>4. proc'.st # "absent" /\ ~torn => Pairs(proc'.split, rawval'.rows)
    <2>1. CASE rawval' = rawval
      BY <2>1 DEF DataInv, PairInv, NoProc
    <2>2. CASE rawval' # rawval
      BY <2>2 DEF DataInv, PairInv, NoProc
    <2> QED
      BY <2>1, <2>2
  <1>5. PairInv'
    BY <1>1, <1>4, NoJobTyped DEF PairInv, Disjoint, Pairs, Trains, At
  <1>6. Excludes' /\ Whole1' /\ FailsOnlyOnPart'
    BY NoJobTyped DEF DataInv, Excludes, Whole1, FailsOnlyOnPart, Versions, Owning, At
  <1> QED
    BY <1>3, <1>5, <1>6 DEF DataInv

LEMMA FinishData == DataInv /\ Finish => DataInv'
  BY EndedData DEF Finish, storage, disk, cache, DataInv, Typed

LEMMA KillData == DataInv /\ Kill => DataInv'
  <1> SUFFICES ASSUME DataInv, Kill PROVE DataInv'
    OBVIOUS
  <1>1. kills' \in 0..MaxKills /\ UNCHANGED <<source, version, bench, size, bcache, raw, torn>>
    BY DataPrepAssumption DEF Kill, storage, DataInv, Typed
  <1>2. CASE job' = NoJob
    BY <1>1, <1>2, EndedData DEF Kill, Killed, At
  <1>3. CASE job' # NoJob
    <2>1. builder' = NoBuilder /\ UNCHANGED <<job, rawval, proc>>
      BY <1>3 DEF Kill
    <2>2. Typed'
      BY <1>1, <2>1, SampleSize DEF DataInv, Typed
    <2>3. Versions' = Versions
      BY <1>1 DEF Versions
    <2> QED
      BY <1>1, <2>1, <2>2, <2>3, OutsideStep DEF disk, cache
  <1> QED
    BY <1>2, <1>3

LEMMA StartData ==
  ASSUME DataInv, NEW small \in BOOLEAN, NEW force \in BOOLEAN, Start(small, force)
  PROVE  DataInv'
  <1>1. PICK pc \in {"setup", "fetch"} :
          /\ job' = [NoJob EXCEPT !.pc = pc, !.small = small, !.force = force]
          /\ pc = "setup" => proc.st # "absent" /\ ~force
    BY DEF Start, Cached
  <1>2. UNCHANGED <<source, version, bench, size, builder, bcache, raw, rawval, proc, torn, kills>>
    BY DEF Start, storage, disk, cache
  <1>3. /\ job' \in Jobs /\ job'.pc = pc /\ job'.split = NoSplit /\ job'.eval = {}
        /\ job'.size = 0 /\ job'.force = force
    BY <1>1, NoJobTyped DEF NoJob, Jobs
  <1>4. Typed'
    BY <1>2, <1>3 DEF DataInv, Typed
  <1>5. PairInv'
    BY <1>1, <1>2, <1>3, NoJobTyped DEF DataInv, PairInv, Disjoint, Pairs, Trains, At
  <1>6. Excludes' /\ FailsOnlyOnPart'
    BY <1>1, <1>2, <1>3 DEF Excludes, FailsOnlyOnPart, At
  <1>7. Whole1'
    BY <1>1, <1>2, <1>3 DEF DataInv, Whole1, Versions, Owning
  <1> QED
    BY <1>4, <1>5, <1>6, <1>7 DEF DataInv

LEMMA DataStutter == DataInv /\ UNCHANGED vars => DataInv'
  <1> SUFFICES ASSUME DataInv, UNCHANGED vars PROVE DataInv'
    OBVIOUS
  <1>1. Typed' /\ Versions' = Versions
    BY DEF vars, DataInv, Typed, Versions
  <1> QED
    BY <1>1, OutsideStep DEF vars, disk, cache

LEMMA DataInit == Init => DataInv
  <1> SUFFICES ASSUME Init PROVE DataInv
    OBVIOUS
  <1>1. 1 \in DOMAIN Data
    BY DataPrepAssumption
  <1>2. Typed
    <2>1. /\ raw \in Dirs /\ rawval \in Dirs
          /\ proc \in [st : {"absent", "part", "whole"}, split : Splits]
      BY NoJobTyped DEF Init, Absent, NoProc, Dirs
    <2>2. size \in 0..BenchSize /\ kills \in 0..MaxKills /\ job \in Jobs
      BY NoJobTyped, DataPrepAssumption DEF Init
    <2>3. /\ builder \in [pc : {"idle", "upload", "manifest"}, sample : SUBSET Rows]
          /\ Cardinality(builder.sample) <= BenchSize
      BY SampleSize, DataPrepAssumption DEF Init
    <2> QED
      BY <1>1, <2>1, <2>2, <2>3 DEF Init, Typed
  <1>3. PairInv /\ Excludes /\ Whole1 /\ FailsOnlyOnPart
    BY NoJobTyped DEF Init, PairInv, Disjoint, Pairs, Excludes, Whole1, FailsOnlyOnPart, Absent,
       NoProc, Owning, Trains, At
  <1> QED
    BY <1>2, <1>3 DEF DataInv

LEMMA DataNext == DataInv /\ [Next]_vars => DataInv'
  BY PublishData, SampleData, UploadBenchData, WriteManifestData, StartData, FetchLocalData,
     FetchHfData, SaveHfData, FetchS3Data, ResolveBenchData, SaveValData, ValSavedData,
     TransformData, SaveData, SavedData, SetupFitData, SetupTestData, FinishData, KillData,
     DataStutter DEF Next, Prepare

\* The invariant holds in every state.
THEOREM DataInvariant == Spec => []DataInv
  BY DataInit, DataNext, PTL DEF Spec

\* The types hold in every state, and a row is never in both processed splits.
THEOREM DataTypeCorrect == Spec => []TypeOK
  <1>1. DataInv => TypeOK
    BY DEF DataInv, Typed, PairInv, Disjoint, TypeOK
  <1> QED
    BY DataInvariant, <1>1, PTL

\* Whatever runs came before, forced or not, on new data or old, and wherever
\* they were killed: unless the last to replace the raw rows was killed before
\* the processed splits, a run generates from the rows it validates on, and
\* from none that it trains on.
THEOREM EvaluatesItsSplit == Spec => []PairFits
  <1>1. DataInv => PairFits
    BY DEF DataInv, PairInv, Pairs, PairFits
  <1> QED
    BY DataInvariant, <1>1, PTL

\* With force_reprocess and no max_samples a run trains on a whole version of
\* the data of a local file or a Hugging Face dataset, less the benchmark.
THEOREM TrainsOnWholeData == Spec => []WholeData
  <1>1. DataInv => WholeData
    BY DEF DataInv, Whole1, WholeData, Trains, At, OwnSplit, Versions, Owning
  <1> QED
    BY DataInvariant, <1>1, PTL

\* trainer.test is the step that follows trainer.fit.
LEMMA FitGoesToTest ==
  ASSUME Next, job.pc = "fit", job'.pc = "done"
  PROVE  SetupTest
  <1>1. NoJob.pc = "idle"
    BY NoJobTyped
  <1>2. CASE Publish \/ Sample \/ UploadBench \/ WriteManifest
    BY <1>2 DEF Publish, Sample, UploadBench, WriteManifest
  <1>3. CASE \E small, force \in BOOLEAN : Start(small, force)
    BY <1>3 DEF Start, At
  <1>4. CASE Kill
    BY <1>1, <1>4 DEF Kill
  <1>5. CASE Prepare
    BY <1>1, <1>5 DEF Prepare, FetchLocal, FetchHf, SaveHf, FetchS3, ResolveBench, SaveVal,
       ValSaved, Transform, Save, Saved, SetupFit, Finish, At
  <1> QED
    BY <1>2, <1>3, <1>4, <1>5 DEF Next

\* A run that tests with the size it processed its data with finds the file it
\* excluded still valid in its cache, and has none of its rows in training,
\* whatever build_benchmark put into the storage meanwhile.
THEOREM TestsOnItsBenchmark == Spec => SameSizeSameBenchmark
  <1> DEFINE Same ==
        At("fit") /\ job'.pc = "done"
        /\ job.size # 0 /\ size = job.size /\ Cardinality(job.excluded) = size
        => /\ job'.tested = job.excluded
           /\ Matching => job.split.train \cap job'.tested = {}
  <1>1. DataInv /\ [Next]_vars => [Same]_vars
    <2> SUFFICES ASSUME DataInv, Next, At("fit"), job'.pc = "done",
                        job.size # 0, size = job.size, Cardinality(job.excluded) = size
                 PROVE  job'.tested = job.excluded
                        /\ (Matching => job.split.train \cap job'.tested = {})
      BY Zenon
    <2>1. job \in Jobs /\ job.pc = "fit" /\ bcache = job.excluded
          /\ (Matching => job.split.train \cap job.excluded = {})
      BY DEF DataInv, Typed, Excludes, OwnSplit, Owning, At
    <2>2. SetupTest
      BY <2>1, FitGoesToTest
    <2>3. job'.tested = Resolved.rows
      BY <2>1, <2>2 DEF SetupTest, Jobs
    <2>4. Resolved.rows = bcache
      BY <2>1 DEF Resolved
    <2> QED
      BY <2>1, <2>3, <2>4
  <1> QED
    BY DataInvariant, <1>1, PTL DEF Spec, SameSizeSameBenchmark

\* A run fails only on a directory that a killed run left half written.
THEOREM FailsOnParts == Spec => []FailsOnlyOnPart
  <1>1. DataInv => FailsOnlyOnPart
    BY DEF DataInv
  <1> QED
    BY DataInvariant, <1>1, PTL
-----------------------------------------------------------------------------
(* Transforms: induction, and lists that are made of lists.                *)

\* A set of numbers that holds 0 and with each number the next holds them all.
LEMMA NatSetInduction ==
  ASSUME NEW T, 0 \in T, \A n \in Nat : n \in T => n + 1 \in T
  PROVE  Nat \subseteq T
  <1> SUFFICES ASSUME Nat \ T # {} PROVE FALSE
    OBVIOUS
  <1>1. IsWellFoundedOn(OpToRel(<, Nat), Nat)
    BY NatLessThanWellFounded
  <1>2. PICK n \in Nat \ T : \A m \in Nat \ T : ~ (<<m, n>> \in OpToRel(<, Nat))
    BY <1>1, WFMin
  <1>3. n \in Nat /\ n # 0
    BY <1>2
  <1>4. n - 1 \in Nat /\ (n - 1) + 1 = n
    BY <1>3
  <1>5. n - 1 \notin T
    BY <1>2, <1>4
  <1>6. <<n - 1, n>> \in OpToRel(<, Nat)
    BY <1>2, <1>3, <1>4 DEF OpToRel
  <1> QED
    BY <1>2, <1>4, <1>5, <1>6

\* A nonempty set of numbers has a least one.
LEMMA Least ==
  ASSUME NEW T \in SUBSET Nat, T # {}
  PROVE  \E n \in T : \A m \in T : n <= m
  <1>1. IsWellFoundedOn(OpToRel(<, Nat), Nat)
    BY NatLessThanWellFounded
  <1>2. PICK n \in T : \A m \in T : ~ (<<m, n>> \in OpToRel(<, Nat))
    BY <1>1, WFMin
  <1>3. ASSUME NEW m \in T, m < n PROVE FALSE
    <2>1. <<m, n>> \in OpToRel(<, Nat)
      BY <1>3 DEF OpToRel
    <2> QED
      BY <1>2, <2>1
  <1>4. \A m \in T : m \in Nat /\ n \in Nat
    OBVIOUS
  <1> QED
    BY <1>3, <1>4

\* A function that begins with start and whose k-th value is made of the one
\* before it by step[k].
Goes(f, start, step, M) == f[0] = start /\ \A k \in 1..M : f[k] = step[k][f[k - 1]]

Iterates(X, start, step, M) == \E f \in [0..M -> X] : Goes(f, start, step, M)

\* There is one wherever the steps lead from X to X.
LEMMA Iterated ==
  ASSUME NEW X, NEW start \in X, NEW M \in Nat, NEW step \in [1..M -> [X -> X]]
  PROVE  Iterates(X, start, step, M)
  <1> DEFINE Holds(f, n) == f[0] = start /\ \A k \in 1..n : f[k] = step[k][f[k - 1]]
             T == {n \in Nat : n <= M => \E f \in [0..n -> X] : Holds(f, n)}
  <1>1. 0 \in T
    <2>1. [k \in 0..0 |-> start] \in [0..0 -> X] /\ Holds([k \in 0..0 |-> start], 0)
      OBVIOUS
    <2> QED
      BY <2>1
  <1>2. ASSUME NEW n \in Nat, n \in T PROVE n + 1 \in T
    <2> SUFFICES ASSUME n + 1 <= M PROVE \E f \in [0..n + 1 -> X] : Holds(f, n + 1)
      OBVIOUS
    <2>1. PICK f \in [0..n -> X] : Holds(f, n)
      BY <1>2
    <2> DEFINE g == [k \in 0..n + 1 |-> IF k <= n THEN f[k] ELSE step[n + 1][f[n]]]
    <2>2. g \in [0..n + 1 -> X]
      <3>1. \A k \in 0..n + 1 : k <= n => f[k] \in X
        OBVIOUS
      <3>2. step[n + 1][f[n]] \in X
        <4>1. n + 1 \in 1..M /\ f[n] \in X
          OBVIOUS
        <4> QED
          BY <4>1
      <3> QED
        BY <3>1, <3>2
    <2>3. g[0] = start
      BY <2>1
    <2>4. ASSUME NEW k \in 1..n + 1 PROVE g[k] = step[k][g[k - 1]]
      <3>1. CASE k <= n
        <4>1. k \in 1..n /\ k \in 0..n + 1 /\ k - 1 \in 0..n + 1 /\ k - 1 <= n
          BY <3>1
        <4>2. g[k] = f[k] /\ g[k - 1] = f[k - 1]
          BY <4>1, <3>1
        <4> QED
          BY <4>1, <4>2, <2>1
      <3>2. CASE k = n + 1
        <4>1. k - 1 = n /\ k \in 0..n + 1 /\ k - 1 \in 0..n + 1 /\ ~ (k <= n)
          BY <3>2
        <4>2. g[k] = step[n + 1][f[n]] /\ g[k - 1] = f[n]
          BY <4>1
        <4> QED
          BY <4>2, <3>2
      <3> QED
        BY <3>1, <3>2
    <2> HIDE DEF g
    <2> QED
      BY <2>2, <2>3, <2>4
  <1> HIDE DEF T
  <1>3. M \in T
    BY <1>1, <1>2, NatSetInduction
  <1> QED
    BY <1>3 DEF T, Iterates, Goes

\* Whatever begins and goes on like that is one of them.
Unfolds(g, X, start, step, M) ==
  /\ g = [k \in 0..M |-> g[k]] /\ g[0] = start
  /\ \A k \in 1..M : g[k - 1] \in X => g[k] = step[k][g[k - 1]]

\* A function that is defined by what it was before is the one that goes so.
LEMMA Unfolded ==
  ASSUME NEW X, NEW start \in X, NEW M \in Nat, NEW step \in [1..M -> [X -> X]],
         NEW g, Unfolds(g, X, start, step, M)
  PROVE  g \in [0..M -> X] /\ Goes(g, start, step, M)
  <1> DEFINE T == {n \in Nat : n <= M => g[n] \in X}
  <1>1. 0 \in T
    BY DEF Unfolds
  <1>2. ASSUME NEW n \in Nat, n \in T PROVE n + 1 \in T
    <2> SUFFICES ASSUME n + 1 <= M PROVE g[n + 1] \in X
      OBVIOUS
    <2>1. n + 1 \in 1..M /\ (n + 1) - 1 = n /\ n <= M
      OBVIOUS
    <2>2. g[n] \in X
      BY <1>2, <2>1
    <2>3. g[(n + 1) - 1] \in X => g[n + 1] = step[n + 1][g[(n + 1) - 1]]
      BY <2>1 DEF Unfolds
    <2>4. step[n + 1][g[n]] \in X
      BY <2>1, <2>2
    <2> QED
      BY <2>1, <2>2, <2>3, <2>4
  <1> HIDE DEF T
  <1>3. Nat \subseteq T
    BY <1>1, <1>2, NatSetInduction
  <1>4. \A k \in 0..M : g[k] \in X
    BY <1>3 DEF T
  <1>5. \A k \in 1..M : k - 1 \in 0..M
    OBVIOUS
  <1> QED
    BY <1>4, <1>5 DEF Goes, Unfolds

-----------------------------------------------------------------------------
(* Sequences and what is kept of them.                                     *)

\* e numbers the positions I in their order, and t is what s holds there.
Numbers(e, t, s, I) ==
  /\ t \in Seq({s[i] : i \in I}) /\ Len(t) = Cardinality(I)
  /\ e \in [1..Len(t) -> I]
  /\ \A n \in 1..Len(t) : t[n] = s[e[n]] /\ Cardinality({j \in I : j < e[n]}) = n - 1
  /\ \A m, n \in 1..Len(t) : m < n => e[m] < e[n]
  /\ \A i \in I : \E n \in 1..Len(t) : e[n] = i

Picked(t, s, I) == \E e : Numbers(e, t, s, I)

\* A sequence is read as a function on the numbers up to its length.
LEMMA Reads ==
  ASSUME NEW S, NEW s \in Seq(S)
  PROVE  /\ Len(s) \in Nat /\ DOMAIN s = 1..Len(s) /\ \A i \in 1..Len(s) : s[i] \in S
         /\ s = [i \in 1..Len(s) |-> s[i]]
  BY LenProperties

\* The positions kept are numbered by how many come before them.
LEMMA KeptIs ==
  ASSUME NEW N \in Nat, NEW I \in SUBSET (1..N), NEW s
  PROVE  Picked(Kept(s, I), s, I)
  <1> DEFINE C == Cardinality(I)
             Before(i) == {j \in I : j < i}
             rank == [i \in I |-> Cardinality(Before(i)) + 1]
             e == [n \in 1..C |-> CHOOSE i \in I : Cardinality({j \in I : j < i}) = n - 1]
  <1>0. \A i \in I : i \in Int
    OBVIOUS
  <1>1. IsFiniteSet(I) /\ C \in Nat
    <2>1. IsFiniteSet(1..N)
      BY FS_Interval
    <2>2. IsFiniteSet(I)
      BY <2>1, FS_Subset
    <2> QED
      BY <2>2, FS_CardinalityType
  <1>2. ASSUME NEW i \in I
        PROVE  /\ IsFiniteSet(Before(i)) /\ Cardinality(Before(i)) \in Nat
               /\ Cardinality(Before(i)) < C
    <2>1. Before(i) \in SUBSET (I \ {i})
      OBVIOUS
    <2>2. IsFiniteSet(I \ {i}) /\ Cardinality(I \ {i}) = C - 1
      BY <1>1, FS_RemoveElement
    <2>3. IsFiniteSet(Before(i)) /\ Cardinality(Before(i)) <= C - 1
      BY <2>1, <2>2, FS_Subset
    <2>4. Cardinality(Before(i)) \in Nat
      BY <2>3, FS_CardinalityType
    <2> QED
      BY <2>3, <2>4, <1>1
  <1>3. ASSUME NEW i \in I, NEW k \in I, i < k
        PROVE  Cardinality(Before(i)) < Cardinality(Before(k))
    <2>1. Before(i) \in SUBSET (Before(k) \ {i}) /\ i \in Before(k)
      <3>1. \A j \in I : j < i => j < k /\ j # i
        BY <1>0, <1>3
      <3> QED
        BY <1>3, <3>1
    <2>2. IsFiniteSet(Before(k) \ {i}) /\ Cardinality(Before(k) \ {i}) = Cardinality(Before(k)) - 1
      BY <2>1, <1>2, FS_RemoveElement
    <2>3. Cardinality(Before(i)) <= Cardinality(Before(k)) - 1
      BY <2>1, <2>2, FS_Subset
    <2> QED
      BY <2>3, <1>2
  <1> HIDE DEF Before
  <1>4. ASSUME NEW i \in I, NEW k \in I, Cardinality(Before(i)) = Cardinality(Before(k))
        PROVE  i = k
    <2>1. ~ (i < k) /\ ~ (k < i)
      BY <1>2, <1>3, <1>4
    <2> QED
      BY <2>1
  <1>5. rank \in [I -> 1..C] /\ \A i \in I : rank[i] = Cardinality(Before(i)) + 1
    BY <1>1, <1>2
  <1> HIDE DEF rank
  <1>6. rank \in Injection(I, 1..C)
    <2>1. ASSUME NEW i \in I, NEW k \in I, rank[i] = rank[k] PROVE i = k
      BY <2>1, <1>2, <1>4, <1>5
    <2> QED
      BY <1>5, <2>1 DEF Injection, IsInjective
  <1>7. rank \in Surjection(I, 1..C)
    <2>1. IsFiniteSet(1..C) /\ Cardinality(1..C) = C
      BY <1>1, FS_Interval
    <2> QED
      BY <1>6, <2>1, FS_Injection
  <1>8. ASSUME NEW n \in 1..C PROVE e[n] \in I /\ Cardinality(Before(e[n])) = n - 1
    <2>1. PICK i \in I : rank[i] = n
      BY <1>7 DEF Surjection
    <2>2. Cardinality(Before(i)) = n - 1
      BY <2>1, <1>1, <1>2, <1>5
    <2>3. e[n] = CHOOSE j \in I : Cardinality(Before(j)) = n - 1
      BY DEF Before
    <2> QED
      BY <2>2, <2>3
  <1>9. e \in [1..C -> I]
    BY <1>8
  <1> DEFINE t == Kept(s, I)
  <1>10. t = [n \in 1..C |-> s[e[n]]]
    BY DEF Kept
  <1> HIDE DEF e, t, C
  <1>11. t \in Seq({s[i] : i \in I}) /\ Len(t) = C /\ \A n \in 1..C : t[n] = s[e[n]]
    <2>1. t \in [1..C -> {s[i] : i \in I}]
      BY <1>9, <1>10
    <2> QED
      BY <1>1, <1>9, <1>10, <2>1
  <1>12. ASSUME NEW m \in 1..C, NEW n \in 1..C, m < n PROVE e[m] < e[n]
    <2>1. /\ e[m] \in I /\ e[n] \in I /\ m \in Int /\ n \in Int
          /\ Cardinality(Before(e[m])) = m - 1 /\ Cardinality(Before(e[n])) = n - 1
      BY <1>1, <1>8
    <2>2. m - 1 < n - 1 /\ ~ (n - 1 < m - 1) /\ m - 1 # n - 1
      BY <2>1, <1>12
    <2>3. e[m] # e[n]
      BY <2>1, <2>2
    <2>4. ~ (e[n] < e[m])
      BY <2>1, <2>2, <1>3
    <2>5. e[m] \in Int /\ e[n] \in Int
      BY <2>1, <1>0
    <2> HIDE DEF Before
    <2> QED
      BY <2>3, <2>4, <2>5
  <1>13. ASSUME NEW i \in I PROVE \E n \in 1..C : e[n] = i
    <2>1. rank[i] \in 1..C /\ Cardinality(Before(i)) = rank[i] - 1
      BY <1>1, <1>2, <1>5
    <2>2. e[rank[i]] = i
      BY <2>1, <1>4, <1>8
    <2> QED
      BY <2>1, <2>2
  <1>14. \A n \in 1..C : Cardinality({j \in I : j < e[n]}) = n - 1
    BY <1>8 DEF Before
  <1>15. Numbers(e, t, s, I)
    BY <1>1, <1>9, <1>11, <1>12, <1>13, <1>14 DEF Numbers, C
  <1> QED
    BY <1>15 DEF Picked, t

-----------------------------------------------------------------------------
(* The types.                                                              *)

Token == {"bos", "prompt", "sep", "answer", "eos"}

RowType ==
  [src : Nat, from : Nat, to : Nat, key : Text, doc : Text, neg : Text \cup {None},
   meta : BOOLEAN, ids : Seq(Token), plen : Nat]

Names == {"cleaning", "chunking", "metadata", "deduplication", "exclusion", "validation",
          "prompt_formatting", "tokenization", "length", "collate"}

\* How many transforms are left when it is the turn of one.
Turn(kind) ==
  CASE kind = "rag" ->
         [cleaning |-> 7, deduplication |-> 6, exclusion |-> 5, validation |-> 4,
          tokenization |-> 3, length |-> 2, collate |-> 1]
    [] kind = "decoder" ->
         [cleaning |-> 8, deduplication |-> 7, exclusion |-> 6, validation |-> 5,
          prompt_formatting |-> 4, tokenization |-> 3, length |-> 2, collate |-> 1]
    [] kind = "index" ->
         [cleaning |-> 8, chunking |-> 7, metadata |-> 6, deduplication |-> 5,
          validation |-> 4, tokenization |-> 3, length |-> 2, collate |-> 1]

After(name) == Len(todo) < Turn(pipe.kind)[name]

\* What is left is the end of the order.
TodoOK ==
  LET order == Order(pipe.kind)
  IN  /\ todo \in Seq(Names) /\ Len(todo) <= Len(order)
      /\ \A i \in 1..Len(todo) : todo[i] = order[Len(order) - Len(todo) + i]

TypedInv ==
  /\ pipe \in Pipelines
  /\ input \in Seq(RawRow)
  /\ TodoOK
  /\ rows \in Seq(RowType)
  /\ seen \in Seq(RowType)
  /\ batch \in {"none", "made", "failed"}

\* The pipelines of a kind differ in what the tokenizer does.
LEMMA PipeIs ==
  ASSUME pipe \in Pipelines
  PROVE  /\ pipe.kind \in Kinds
         /\ {pipe.near, pipe.bos, pipe.merges, pipe.right} \subseteq BOOLEAN
         /\ pipe.kind = "decoder" => pipe.task \in {"sft", "sft_with_template"}
         /\ pipe.kind # "decoder" => pipe.task = "encode"
  BY DEF Pipelines, Kinds

\* The first transform left is the one whose turn it is.
LEMMA Turned ==
  ASSUME TypedInv, NEW name \in Names, NEW result, Apply(name, result)
  PROVE  /\ name \in DOMAIN Turn(pipe.kind) /\ Len(todo) = Turn(pipe.kind)[name]
         /\ Len(todo') = Len(todo) - 1 /\ Len(todo') \in Nat
         /\ TodoOK' /\ pipe' = pipe /\ input' = input /\ rows' = result
  <1> DEFINE order == Order(pipe.kind)
             N == Len(order)
             k == N - Len(todo) + 1
  <1>1. /\ todo \in Seq(Names) /\ todo # <<>> /\ todo' = Tail(todo) /\ Head(todo) = name
        /\ pipe' = pipe /\ input' = input /\ rows' = result
    BY DEF Apply, TypedInv, TodoOK
  <1>2. /\ Len(todo) \in Nat \ {0} /\ Tail(todo) \in Seq(Names) /\ Head(todo) = todo[1]
        /\ Len(Tail(todo)) = Len(todo) - 1
        /\ \A i \in 1..Len(Tail(todo)) : Tail(todo)[i] = todo[i + 1]
    BY <1>1, HeadTailProperties
  <1>3. N \in Nat /\ Len(todo) <= N /\ \A i \in 1..Len(todo) : todo[i] = order[N - Len(todo) + i]
    BY PipeIs DEF TypedInv, TodoOK, Order, Kinds
  <1>4. TodoOK'
    <2>1. Order(pipe.kind)' = order
      BY <1>1 DEF Order
    <2> HIDE DEF N, order
    <2>2. ASSUME NEW i \in 1..Len(Tail(todo))
          PROVE  Tail(todo)[i] = order[N - Len(Tail(todo)) + i]
      <3>1. i \in Nat /\ i + 1 \in 1..Len(todo) /\ Tail(todo)[i] = todo[i + 1]
        BY <1>2
      <3>2. N - Len(todo) + (i + 1) = N - Len(Tail(todo)) + i
        BY <3>1, <1>2, <1>3
      <3> QED
        BY <3>1, <3>2, <1>3
    <2>3. Len(Tail(todo)) <= N
      BY <1>2, <1>3
    <2> QED
      BY <1>1, <1>2, <2>1, <2>2, <2>3 DEF TodoOK, N
  <1>5. order[k] = name /\ k \in 1..N
    <2>1. 1 \in 1..Len(todo)
      BY <1>2
    <2> QED
      BY <2>1, <1>1, <1>2, <1>3
  <1>6. name \in DOMAIN Turn(pipe.kind) /\ Len(todo) = Turn(pipe.kind)[name]
    <2>1. Len(todo) = N - k + 1
      BY <1>2, <1>3
    <2>2. CASE pipe.kind = "rag"
      <3>1. N = 7 /\ k \in 1..7
        BY <1>5, <2>2 DEF Order
      <3>2. name = <<"cleaning", "deduplication", "exclusion", "validation", "tokenization",
                     "length", "collate">>[k]
        BY <1>5, <2>2 DEF Order
      <3>3. Len(todo) = 8 - k
        BY <2>1, <3>1
      <3> HIDE DEF N, k, order
      <3> QED
        BY <3>1, <3>2, <3>3, <2>2 DEF Turn
    <2>3. CASE pipe.kind = "decoder"
      <3>1. N = 8 /\ k \in 1..8
        BY <1>5, <2>3 DEF Order
      <3>2. name = <<"cleaning", "deduplication", "exclusion", "validation",
                     "prompt_formatting", "tokenization", "length", "collate">>[k]
        BY <1>5, <2>3 DEF Order
      <3>3. Len(todo) = 9 - k
        BY <2>1, <3>1
      <3> HIDE DEF N, k, order
      <3> QED
        BY <3>1, <3>2, <3>3, <2>3 DEF Turn
    <2>4. CASE pipe.kind = "index"
      <3>1. N = 8 /\ k \in 1..8
        BY <1>5, <2>4 DEF Order
      <3>2. name = <<"cleaning", "chunking", "metadata", "deduplication", "validation",
                     "tokenization", "length", "collate">>[k]
        BY <1>5, <2>4 DEF Order
      <3>3. Len(todo) = 9 - k
        BY <2>1, <3>1
      <3> HIDE DEF N, k, order
      <3> QED
        BY <3>1, <3>2, <3>3, <2>4 DEF Turn
    <2> QED
      BY <2>2, <2>3, <2>4, PipeIs DEF TypedInv, Kinds
  <1> QED
    BY <1>1, <1>2, <1>4, <1>6

\* What is kept of a list is a list of its elements.
LEMMA KeptOf ==
  ASSUME NEW S, NEW s \in Seq(S), NEW I, I \subseteq DOMAIN s
  PROVE  Kept(s, I) \in Seq(S) /\ Picked(Kept(s, I), s, I)
  <1>1. Len(s) \in Nat /\ I \in SUBSET (1..Len(s)) /\ \A i \in 1..Len(s) : s[i] \in S
    BY Reads
  <1>2. Picked(Kept(s, I), s, I)
    BY <1>1, KeptIs
  <1>3. PICK e : Numbers(e, Kept(s, I), s, I)
    BY <1>2 DEF Picked
  <1>4. Kept(s, I) \in Seq({s[i] : i \in I})
    BY <1>3 DEF Numbers
  <1>5. {s[i] : i \in I} \subseteq S
    BY <1>1
  <1> QED
    BY <1>2, <1>4, <1>5, SeqMonotonic

\* A cleaned text is a text.
LEMMA CleanIs ==
  ASSUME NEW text \in Text
  PROVE  Clean(text) \in Text
  <1> DEFINE I == {i \in DOMAIN text : text[i] \notin Urls}
  <1>1. Kept(text, I) \in Seq(DOMAIN Width)
    BY KeptOf DEF Text
  <1>2. Clean(text) = Kept(text, I)
    BY DEF Clean, Such
  <1> QED
    BY <1>1, <1>2 DEF Text

\* A function on the places of a list is a list as long.
LEMMA Mapped ==
  ASSUME NEW S, NEW s \in Seq(S), NEW T, NEW t \in [DOMAIN s -> T]
  PROVE  t \in Seq(T) /\ Len(t) = Len(s)
  <1>1. Len(s) \in Nat /\ DOMAIN s = 1..Len(s)
    BY Reads
  <1>2. t \in [1..Len(s) -> T]
    BY <1>1
  <1> QED
    BY <1>1, <1>2

\* The rows of a dataset, as they come.
LEMMA RawIs ==
  ASSUME input \in Seq(RawRow)
  PROVE  /\ [i \in DOMAIN input |-> Raw(i)] \in Seq(RowType)
         /\ Len([i \in DOMAIN input |-> Raw(i)]) = Len(input)
  <1>1. /\ Len(input) \in Nat /\ DOMAIN input = 1..Len(input)
        /\ \A i \in 1..Len(input) : input[i] \in RawRow
    BY Reads
  <1>2. ASSUME NEW i \in 1..Len(input) PROVE Raw(i) \in RowType
    <2>1. input[i] \in RawRow
      BY <1>1
    <2>2. /\ input[i].key \in Text /\ input[i].doc \in Text
          /\ input[i].neg \in Text \cup {None} /\ input[i].meta \in BOOLEAN
      BY <2>1 DEF RawRow
    <2>3. Len(input[i].key) \in Nat
      BY <2>2 DEF Text
    <2>4. <<>> \in Seq(Token) /\ i \in Nat
      BY EmptySeq
    <2> QED
      BY <2>2, <2>3, <2>4 DEF Raw, RowType
  <1> DEFINE t == [i \in 1..Len(input) |-> Raw(i)]
  <1>3. t \in Seq(RowType) /\ Len(t) = Len(input)
    BY <1>1, <1>2
  <1> QED
    BY <1>1, <1>3

\* What each transform makes of a row is a row.
LEMMA CleanedIs ==
  ASSUME NEW r \in RowType
  PROVE  /\ Cleaned(r) \in RowType /\ Cleaned(r).src = r.src /\ Cleaned(r).meta = r.meta
         /\ Cleaned(r).key = Clean(r.key) /\ Cleaned(r).from = r.from
         /\ Cleaned(r).to = Len(Clean(r.key))
  <1>1. r.key \in Text /\ r.doc \in Text
    BY DEF RowType
  <1>2. Clean(r.key) \in Text /\ Clean(r.doc) \in Text
    BY <1>1, CleanIs
  <1>3. Len(Clean(r.key)) \in Nat
    BY <1>2 DEF Text
  <1> QED
    BY <1>2, <1>3 DEF Cleaned, RowType

\* Metadata comes before the words, if the row has some.
LEMMA InjectedIs ==
  ASSUME NEW r \in RowType
  PROVE  /\ Injected(r) \in RowType /\ Injected(r).src = r.src /\ Injected(r).meta = r.meta
         /\ Injected(r).from = r.from /\ Injected(r).to = r.to
         /\ Injected(r).key = (IF r.meta THEN Metadata ELSE <<>>) \o r.key
  <1>1. r.key \in Text /\ Metadata \in Text
    BY TransformsAssumption DEF RowType
  <1>2. Metadata \o r.key \in Text
    BY <1>1, ConcatProperties DEF Text
  <1>3. <<>> \o r.key = r.key
    BY <1>1, ConcatEmptySeq DEF Text
  <1> QED
    BY <1>2, <1>3 DEF Injected, RowType

\* A formatted row is still where it was.
LEMMA FormattedIs ==
  ASSUME NEW r \in RowType
  PROVE  Formatted(r) \in RowType /\ Formatted(r).src = r.src /\ Formatted(r).to = r.to
  <1>1. r.key \in Text /\ Template \in Text
    BY TransformsAssumption DEF RowType
  <1>2. Template \o r.key \in Text
    BY <1>1, ConcatProperties DEF Text
  <1> QED
    BY <1>2 DEF Formatted, RowType

\* A token so many times.
LEMMA TimesIs ==
  ASSUME NEW token \in Token, NEW n \in Nat
  PROVE  /\ Times(token, n) \in Seq(Token) /\ Len(Times(token, n)) = n
         /\ \A i \in 1..n : Times(token, n)[i] = token
  BY DEF Times

\* What truncation leaves fits, and is the beginning.
LEMMA TruncatedIs ==
  ASSUME NEW s \in Seq(Token)
  PROVE  /\ Truncated(s) \in Seq(Token)
         /\ Len(Truncated(s)) = (IF Len(s) < MaxLength THEN Len(s) ELSE MaxLength)
         /\ Len(Truncated(s)) \in Nat /\ Len(Truncated(s)) <= MaxLength
         /\ \A i \in 1..Len(Truncated(s)) : Truncated(s)[i] = s[i]
  <1> DEFINE n == IF Len(s) < MaxLength THEN Len(s) ELSE MaxLength
  <1>1. Len(s) \in Nat /\ MaxLength \in Nat \ {0} /\ \A i \in 1..Len(s) : s[i] \in Token
    BY TransformsAssumption, Reads
  <1>2. n \in Nat /\ n <= Len(s) /\ n <= MaxLength
    BY <1>1
  <1>3. Truncated(s) = SubSeq(s, 1, n)
    BY DEF Truncated
  <1> HIDE DEF n
  <1>4. \A i \in 1..n : s[i] \in Token
    BY <1>1, <1>2
  <1>5. /\ SubSeq(s, 1, n) \in Seq(Token)
        /\ Len(SubSeq(s, 1, n)) = (IF 1 <= n THEN n - 1 + 1 ELSE 0)
        /\ \A i \in 1..n - 1 + 1 : SubSeq(s, 1, n)[i] = s[1 + i - 1]
    BY <1>2, <1>4, SubSeqProperties
  <1>6. Len(SubSeq(s, 1, n)) = n
    BY <1>2, <1>5
  <1>7. ASSUME NEW i \in 1..n PROVE SubSeq(s, 1, n)[i] = s[i]
    <2>1. i \in 1..n - 1 + 1 /\ 1 + i - 1 = i
      BY <1>2
    <2> QED
      BY <2>1, <1>5
  <1> QED
    BY <1>2, <1>3, <1>5, <1>6, <1>7 DEF n

-----------------------------------------------------------------------------
(* The tokens.                                                             *)

\* A list after another.
LEMMA TokensJoined ==
  ASSUME NEW s \in Seq(Token), NEW t \in Seq(Token)
  PROVE  /\ s \o t \in Seq(Token) /\ Len(s \o t) = Len(s) + Len(t)
         /\ Len(s) \in Nat /\ Len(t) \in Nat /\ Len(s \o t) \in Nat
         /\ \A i \in 1..Len(s) + Len(t) :
              (s \o t)[i] = IF i <= Len(s) THEN s[i] ELSE t[i - Len(s)]
  BY ConcatProperties, LenProperties

\* The tokens at each place of four lists, one after the other.
LEMMA TokensJoinedAt ==
  ASSUME NEW s \in Seq(Token), NEW t \in Seq(Token), NEW m, NEW n, Len(s) = m, Len(t) = n
  PROVE  /\ s \o t \in Seq(Token) /\ Len(s \o t) = m + n
         /\ \A i \in 1..m + n : (s \o t)[i] = IF i <= m THEN s[i] ELSE t[i - m]
  BY TokensJoined

\* The full text: where each of its parts is.
LEMMA IdsIs ==
  ASSUME pipe \in Pipelines, NEW r \in RowType
  PROVE  LET K == Len(r.key)
             b == IF pipe.bos THEN 1 ELSE 0
             c == IF pipe.merges THEN 0 ELSE 1
         IN  /\ Ids(r) \in Seq(Token) /\ Len(Ids(r)) \in Nat /\ Len(Ids(r)) <= MaxLength
             /\ K \in Nat
             /\ \A i \in 1..Len(Ids(r)) :
                  Ids(r)[i] = IF i <= b THEN "bos" ELSE IF i <= b + K THEN "prompt"
                              ELSE IF i <= b + K + c THEN "sep" ELSE "answer"
  <1> DEFINE K == Len(r.key)
             D == Len(r.doc)
             b == IF pipe.bos THEN 1 ELSE 0
             c == IF pipe.merges THEN 0 ELSE 1
             B == Times("bos", b)
             P == Times("prompt", K)
             S == Times("sep", c)
             A == Times("answer", D)
             all == B \o P \o S \o A
  <1>1. K \in Nat /\ D \in Nat /\ b \in Nat /\ c \in Nat
    BY DEF RowType, Text
  <1>2. Ids(r) = Truncated(all)
    BY DEF Ids
  <1> HIDE DEF K, D, b, c
  <1>3. /\ B \in Seq(Token) /\ Len(B) = b /\ \A i \in 1..b : B[i] = "bos"
        /\ P \in Seq(Token) /\ Len(P) = K /\ \A i \in 1..K : P[i] = "prompt"
        /\ S \in Seq(Token) /\ Len(S) = c /\ \A i \in 1..c : S[i] = "sep"
        /\ A \in Seq(Token) /\ Len(A) = D /\ \A i \in 1..D : A[i] = "answer"
    BY <1>1, TimesIs DEF Token
  <1> HIDE DEF B, P, S, A
  <1> DEFINE BP == B \o P
             BPS == BP \o S
  <1>4. /\ BP \in Seq(Token) /\ Len(BP) = b + K
        /\ \A i \in 1..b + K : BP[i] = IF i <= b THEN B[i] ELSE P[i - b]
    BY <1>3, TokensJoined
  <1> HIDE DEF BP
  <1>5. /\ BPS \in Seq(Token) /\ Len(BPS) = b + K + c
        /\ \A i \in 1..b + K + c : BPS[i] = IF i <= b + K THEN BP[i] ELSE S[i - (b + K)]
    BY ONLY <1>3, <1>4, TokensJoinedAt
  <1>6. all = BPS \o A
    BY DEF BPS, BP
  <1> HIDE DEF BPS
  <1>7. /\ all \in Seq(Token) /\ Len(all) = b + K + c + D
        /\ \A i \in 1..b + K + c + D :
             all[i] = IF i <= b + K + c THEN BPS[i] ELSE A[i - (b + K + c)]
    <2>1. /\ BPS \o A \in Seq(Token) /\ Len(BPS \o A) = b + K + c + D
          /\ \A i \in 1..b + K + c + D :
               (BPS \o A)[i] = IF i <= b + K + c THEN BPS[i] ELSE A[i - (b + K + c)]
      <3>1. BPS \in Seq(Token) /\ A \in Seq(Token) /\ Len(BPS) = b + K + c /\ Len(A) = D
        BY <1>3, <1>5
      <3> QED
        BY ONLY <3>1, TokensJoinedAt
    <2> QED
      BY ONLY <2>1, <1>6
  <1> HIDE DEF all
  <1>8. ASSUME NEW i \in 1..b + K + c + D
        PROVE  all[i] = IF i <= b THEN "bos" ELSE IF i <= b + K THEN "prompt"
                        ELSE IF i <= b + K + c THEN "sep" ELSE "answer"
    <2>1. CASE i <= b
      BY <2>1, <1>1, <1>3, <1>4, <1>5, <1>7
    <2>2. CASE ~ (i <= b) /\ i <= b + K
      <3>1. i - b \in 1..K
        BY <2>2, <1>1
      <3> QED
        BY <3>1, <2>2, <1>1, <1>3, <1>4, <1>5, <1>7
    <2>3. CASE ~ (i <= b + K) /\ i <= b + K + c
      <3>1. i - (b + K) \in 1..c
        BY <2>3, <1>1
      <3> QED
        BY <3>1, <2>3, <1>1, <1>3, <1>5, <1>7
    <2>4. CASE ~ (i <= b + K + c)
      <3>1. i - (b + K + c) \in 1..D
        BY <2>4, <1>1
      <3> QED
        BY <3>1, <2>4, <1>1, <1>3, <1>7
    <2> QED
      BY <2>1, <2>2, <2>3, <2>4
  <1>9. /\ Ids(r) \in Seq(Token) /\ Len(Ids(r)) \in Nat /\ Len(Ids(r)) <= MaxLength
        /\ Len(Ids(r)) = (IF Len(all) < MaxLength THEN Len(all) ELSE MaxLength)
        /\ \A i \in 1..Len(Ids(r)) : Ids(r)[i] = all[i]
    BY <1>2, <1>7, TruncatedIs
  <1>10. Len(Ids(r)) <= b + K + c + D
    BY <1>1, <1>7, <1>9, TransformsAssumption
  <1>11. \A i \in 1..Len(Ids(r)) : i \in 1..b + K + c + D
    BY <1>1, <1>9, <1>10
  <1> QED
    BY <1>1, <1>8, <1>9, <1>11 DEF K, b, c

\* The prompt alone, with its separator.
LEMMA PromptLenIs ==
  ASSUME NEW r \in RowType
  PROVE  /\ PromptLen(r) \in Nat
         /\ PromptLen(r) = (IF Len(r.key) + 1 < MaxLength THEN Len(r.key) + 1 ELSE MaxLength)
  <1> DEFINE K == Len(r.key)
  <1>1. K \in Nat
    BY DEF RowType, Text
  <1>2. Times("prompt", K) \in Seq(Token) /\ Len(Times("prompt", K)) = K
    BY <1>1, TimesIs DEF Token
  <1>3. <<"sep">> \in Seq(Token) /\ Len(<<"sep">>) = 1
    BY DEF Token
  <1>4. /\ Times("prompt", K) \o <<"sep">> \in Seq(Token)
        /\ Len(Times("prompt", K) \o <<"sep">>) = K + 1
    BY <1>2, <1>3, TokensJoined
  <1> QED
    BY <1>4, TruncatedIs DEF PromptLen

\* The chat template's text: where each of its parts is.
LEMMA TemplateIdsIs ==
  ASSUME NEW r \in RowType
  PROVE  LET K == Len(r.key)
             ids == TemplateIds(r, TRUE)
         IN  /\ ids \in Seq(Token) /\ Len(ids) \in Nat /\ Len(ids) <= MaxLength /\ K \in Nat
             /\ \A i \in 1..Len(ids) :
                  /\ i <= K => ids[i] = "prompt"
                  /\ i = K + 1 => ids[i] = "sep"
                  /\ i > K + 1 => ids[i] \in {"answer", "eos"}
             /\ Len(TemplateIds(r, FALSE)) = (IF K + 1 < MaxLength THEN K + 1 ELSE MaxLength)
  <1> DEFINE K == Len(r.key)
             D == Len(r.doc)
             P == Times("prompt", K)
             S == <<"sep">>
             A == Times("answer", D)
             E == <<"eos">>
  <1>1. K \in Nat /\ D \in Nat /\ MaxLength \in Nat
    BY TransformsAssumption DEF RowType, Text
  <1>2. /\ TemplateIds(r, TRUE) = Truncated(P \o S \o (A \o E))
        /\ TemplateIds(r, FALSE) = Truncated(P \o S \o <<>>)
    BY DEF TemplateIds
  <1> HIDE DEF K, D
  <1>3. /\ P \in Seq(Token) /\ Len(P) = K /\ \A i \in 1..K : P[i] = "prompt"
        /\ A \in Seq(Token) /\ Len(A) = D /\ \A i \in 1..D : A[i] = "answer"
    BY <1>1, TimesIs DEF Token
  <1>4. /\ S \in Seq(Token) /\ Len(S) = 1 /\ S[1] = "sep"
        /\ E \in Seq(Token) /\ Len(E) = 1 /\ E[1] = "eos"
    BY DEF Token
  <1> HIDE DEF P, A, S, E
  <1> DEFINE PS == P \o S
             AE == A \o E
             all == PS \o AE
  <1>5. /\ PS \in Seq(Token) /\ Len(PS) = K + 1
        /\ \A i \in 1..K + 1 : PS[i] = IF i <= K THEN P[i] ELSE S[i - K]
    <2>1. P \in Seq(Token) /\ S \in Seq(Token) /\ Len(P) = K /\ Len(S) = 1
      BY <1>3, <1>4
    <2>2. /\ P \o S \in Seq(Token) /\ Len(P \o S) = Len(P) + Len(S)
          /\ \A i \in 1..Len(P) + Len(S) :
               (P \o S)[i] = IF i <= Len(P) THEN P[i] ELSE S[i - Len(P)]
      BY ONLY <2>1, TokensJoined
    <2> QED
      BY <2>1, <2>2
  <1>6. /\ AE \in Seq(Token) /\ Len(AE) = D + 1
        /\ \A i \in 1..D + 1 : AE[i] = IF i <= D THEN A[i] ELSE E[i - D]
    <2>1. A \in Seq(Token) /\ E \in Seq(Token) /\ Len(A) = D /\ Len(E) = 1
      BY <1>3, <1>4
    <2>2. /\ A \o E \in Seq(Token) /\ Len(A \o E) = Len(A) + Len(E)
          /\ \A i \in 1..Len(A) + Len(E) :
               (A \o E)[i] = IF i <= Len(A) THEN A[i] ELSE E[i - Len(A)]
      BY ONLY <2>1, TokensJoined
    <2> QED
      BY <2>1, <2>2
  <1>7. PS \o <<>> = PS
    BY <1>5, ConcatEmptySeq
  <1>8. TemplateIds(r, TRUE) = Truncated(all) /\ TemplateIds(r, FALSE) = Truncated(PS)
    BY <1>2, <1>7
  <1> HIDE DEF PS, AE
  <1>9. /\ all \in Seq(Token) /\ Len(all) = (K + 1) + (D + 1)
        /\ \A i \in 1..(K + 1) + (D + 1) :
             all[i] = IF i <= K + 1 THEN PS[i] ELSE AE[i - (K + 1)]
    BY ONLY <1>5, <1>6, TokensJoinedAt
  <1> HIDE DEF all
  <1> DEFINE ids == TemplateIds(r, TRUE)
  <1>10. /\ ids \in Seq(Token) /\ Len(ids) \in Nat /\ Len(ids) <= MaxLength
         /\ Len(ids) = (IF Len(all) < MaxLength THEN Len(all) ELSE MaxLength)
         /\ \A i \in 1..Len(ids) : ids[i] = all[i]
    BY <1>8, <1>9, TruncatedIs
  <1>11. Len(TemplateIds(r, FALSE)) = (IF K + 1 < MaxLength THEN K + 1 ELSE MaxLength)
    BY <1>5, <1>8, TruncatedIs
  <1> HIDE DEF ids
  <1>12. ASSUME NEW i \in 1..Len(ids)
         PROVE  /\ i <= K => ids[i] = "prompt"
                /\ i = K + 1 => ids[i] = "sep"
                /\ i > K + 1 => ids[i] \in {"answer", "eos"}
    <2>1. i \in 1..(K + 1) + (D + 1) /\ ids[i] = all[i]
      BY <1>1, <1>9, <1>10
    <2>2. CASE i <= K
      BY <2>1, <2>2, <1>1, <1>3, <1>5, <1>9
    <2>3. CASE i = K + 1
      <3>1. i - K = 1 /\ i \in 1..K + 1 /\ ~ (i <= K)
        BY <2>3, <1>1
      <3> QED
        BY <3>1, <2>1, <2>3, <1>1, <1>4, <1>5, <1>9
    <2>4. CASE i > K + 1
      <3>1. i - (K + 1) \in 1..D + 1 /\ ~ (i <= K + 1)
        BY <2>1, <2>4, <1>1
      <3>2. all[i] = AE[i - (K + 1)]
        BY <3>1, <2>1, <1>9
      <3>3. AE[i - (K + 1)] \in {"answer", "eos"}
        <4>1. ASSUME NEW j \in 1..D + 1 PROVE AE[j] \in {"answer", "eos"}
          <5>1. AE[j] = IF j <= D THEN A[j] ELSE E[j - D]
            BY <1>6
          <5>2. CASE j <= D
            <6>1. j \in 1..D
              BY <5>2, <1>1
            <6> QED
              BY <5>1, <5>2, <6>1, <1>3
          <5>3. CASE ~ (j <= D)
            <6>1. j - D = 1
              BY <5>3, <1>1
            <6> QED
              BY <5>1, <5>3, <6>1, <1>4
          <5> QED
            BY <5>2, <5>3
        <4> QED
          BY <4>1, <3>1
      <3> QED
        BY <2>1, <2>4, <3>2, <3>3, <1>1
    <2> QED
      BY <2>2, <2>3, <2>4, <1>1
  <1> QED
    BY <1>1, <1>10, <1>11, <1>12 DEF ids, K

\* The encoder's tokens.
LEMMA TextIdsIs ==
  ASSUME NEW text \in Text
  PROVE  /\ TextIds(text) \in Seq(Token)
         /\ Len(TextIds(text)) \in Nat /\ Len(TextIds(text)) <= MaxLength
  <1>1. Len(text) \in Nat
    BY DEF Text
  <1>2. Times("prompt", Len(text)) \in Seq(Token)
    BY <1>1, TimesIs DEF Token
  <1>3. <<"bos">> \in Seq(Token)
    BY DEF Token
  <1>4. <<"bos">> \o Times("prompt", Len(text)) \in Seq(Token)
    BY <1>2, <1>3, TokensJoined
  <1> QED
    BY <1>4, TruncatedIs DEF TextIds

-----------------------------------------------------------------------------
(* Chunks.                                                                 *)

\* Where the words of a text end.
LEMMA EndsIs ==
  ASSUME NEW text \in Text
  PROVE  /\ Ends(text) \in [0..Len(text) -> Nat] /\ Ends(text)[0] = 0
         /\ \A n \in 1..Len(text) :
              /\ Width[text[n]] \in Nat
              /\ Ends(text)[n] = Ends(text)[n - 1] + Width[text[n]] + 1
  <1> DEFINE N == Len(text)
             step == [n \in 1..N |-> [x \in Nat |-> x + Width[text[n]] + 1]]
             Body(f) == [n \in 0..N |-> IF n = 0 THEN 0 ELSE f[n - 1] + Width[text[n]] + 1]
             g == Ends(text)
  <1>1. N \in Nat /\ \A n \in 1..N : Width[text[n]] \in Nat
    <2>1. N \in Nat /\ \A n \in 1..N : text[n] \in DOMAIN Width
      BY Reads DEF Text
    <2> QED
      BY <2>1, TransformsAssumption
  <1>2. g = CHOOSE f : f = Body(f)
    BY DEF Ends
  <1> HIDE DEF g, N
  <1>3. /\ step \in [1..N -> [Nat -> Nat]]
        /\ \A n \in 1..N : \A x \in Nat : step[n][x] = x + Width[text[n]] + 1
    BY <1>1
  <1> HIDE DEF step
  <1>4. PICK f \in [0..N -> Nat] : Goes(f, 0, step, N)
    BY <1>1, <1>3, Iterated DEF Iterates
  <1>5. f = Body(f)
    <2>1. \A n \in 1..N : n - 1 \in 0..N /\ f[n - 1] \in Nat
      BY <1>1
    <2>2. \A n \in 0..N : f[n] = IF n = 0 THEN 0 ELSE f[n - 1] + Width[text[n]] + 1
      <3>1. \A n \in 0..N : n # 0 => n \in 1..N
        BY <1>1
      <3> QED
        BY <3>1, <2>1, <1>3, <1>4 DEF Goes
    <2> QED
      BY <2>2
  <1>6. g = Body(g)
    BY <1>2, <1>5
  <1>7. g = [n \in 0..N |-> g[n]] /\ g[0] = 0
    BY <1>6, <1>1
  <1>8. \A n \in 1..N : g[n] = g[n - 1] + Width[text[n]] + 1
    <2>1. \A n \in 1..N : n \in 0..N /\ n # 0
      BY <1>1
    <2> QED
      BY <1>6, <2>1
  <1>9. \A n \in 1..N : g[n - 1] \in Nat => g[n] = step[n][g[n - 1]]
    BY <1>3, <1>8
  <1>10. Unfolds(g, Nat, 0, step, N)
    BY <1>7, <1>9 DEF Unfolds
  <1>11. g \in [0..N -> Nat]
    BY <1>1, <1>3, <1>10, Unfolded
  <1> QED
    BY <1>1, <1>7, <1>8, <1>11 DEF g, N

\* What the next chunk repeats is the end of this one, as far as there is room.
LEMMA RepeatedIs ==
  ASSUME NEW words \in Text, NEW to \in 1..Len(words), NEW from \in 1..to
  PROVE  /\ Repeated(words, from, to) \in from..to + 1
         /\ Cost(words, Repeated(words, from, to), to) <= ChunkOverlap
  <1> DEFINE N == Len(words)
             end == Ends(words)
             Fitting == {i \in from..to + 1 : Cost(words, i, to) <= ChunkOverlap}
  <1>1. N \in Nat /\ from \in Nat /\ to \in Nat /\ from >= 1 /\ from <= to /\ to <= N
    BY DEF Text
  <1>2. end \in [0..N -> Nat]
    BY EndsIs
  <1>3. Cost(words, to + 1, to) = 0
    <2>1. end[to] \in Nat /\ (to + 1) - 1 = to
      BY <1>1, <1>2
    <2>2. Cost(words, to + 1, to) = end[to] - end[(to + 1) - 1]
      BY DEF Cost
    <2> HIDE DEF end
    <2> QED
      BY <2>1, <2>2
  <1>4. to + 1 \in Fitting
    BY <1>1, <1>3, TransformsAssumption
  <1>5. PICK i \in Fitting : \A j \in Fitting : i <= j
    <2>1. Fitting \in SUBSET Nat /\ Fitting # {}
      BY <1>1, <1>4
    <2> HIDE DEF Fitting
    <2> QED
      BY <2>1, Least
  <1>6. ASSUME i > from PROVE Cost(words, i - 1, to) > ChunkOverlap
    <2>1. i \in Nat /\ i - 1 \in from..to + 1 /\ ~ (i <= i - 1)
      BY <1>1, <1>6
    <2>2. i - 1 \notin Fitting
      BY <2>1, <1>5
    <2>3. Cost(words, i - 1, to) \in Int
      <3>1. i - 1 - 1 \in 0..N /\ to \in 0..N
        BY <1>1, <1>6, <2>1
      <3>2. end[to] \in Nat /\ end[i - 1 - 1] \in Nat
        BY <3>1, <1>2
      <3>3. Cost(words, i - 1, to) = end[to] - end[i - 1 - 1]
        BY DEF Cost
      <3> HIDE DEF end
      <3> QED
        BY <3>2, <3>3
    <2>4. ~ (Cost(words, i - 1, to) <= ChunkOverlap)
      BY <2>1, <2>2
    <2> QED
      BY <2>3, <2>4, TransformsAssumption
  <1>7. /\ i \in from..to + 1 /\ Cost(words, i, to) <= ChunkOverlap
        /\ (i > from => Cost(words, i - 1, to) > ChunkOverlap)
    BY <1>5, <1>6
  <1> QED
    BY <1>7 DEF Repeated

\* A chunk is an interval of words.
Interval(words) == (1..Len(words) + 1) \X (0..Len(words))

Cut(words) == [from : 1..Len(words) + 1, out : Seq(Interval(words))]

\* What one more word does to the chunks.
LEMMA AddWordIs ==
  ASSUME NEW words \in Text, NEW c \in Cut(words), NEW w \in 1..Len(words)
  PROVE  AddWord(words, c, w) \in Cut(words)
  <1> DEFINE N == Len(words)
  <1>1. N \in Nat /\ c.from \in 1..N + 1 /\ c.out \in Seq(Interval(words)) /\ w \in 1..N
    BY DEF Text, Cut
  <1>2. CASE c.from < w
    <2>1. w - 1 \in 1..N /\ c.from \in 1..w - 1 /\ (w - 1) + 1 = w
      BY <1>1, <1>2
    <2>2. Repeated(words, c.from, w - 1) \in 1..N + 1
      <3>1. Repeated(words, c.from, w - 1) \in c.from..(w - 1) + 1
        BY <2>1, RepeatedIs
      <3> QED
        BY <3>1, <1>1
    <2>3. <<c.from, w - 1>> \in Interval(words)
      BY <2>1, <1>1 DEF Interval
    <2>4. Append(c.out, <<c.from, w - 1>>) \in Seq(Interval(words))
      BY <2>3, <1>1
    <2> QED
      BY <2>2, <2>4 DEF AddWord, Cut
  <1>3. CASE ~ (c.from < w)
    BY <1>3 DEF AddWord
  <1> QED
    BY <1>2, <1>3

\* The chunks after each word follow from those before it.
LEMMA CutsAre ==
  ASSUME NEW words \in Text
  PROVE  /\ Cuts(words) \in [0..Len(words) -> Cut(words)]
         /\ Cuts(words)[0] = [from |-> 1, out |-> <<>>]
         /\ \A w \in 1..Len(words) : Cuts(words)[w] = AddWord(words, Cuts(words)[w - 1], w)
  <1> DEFINE N == Len(words)
             X == Cut(words)
             start == [from |-> 1, out |-> <<>>]
             step == [w \in 1..N |-> [c \in X |-> AddWord(words, c, w)]]
             Body(f) == [w \in 0..N |-> IF w = 0 THEN [from |-> 1, out |-> <<>>]
                                        ELSE AddWord(words, f[w - 1], w)]
             g == Cuts(words)
  <1>1. N \in Nat
    BY DEF Text
  <1>2. g = CHOOSE f : f = Body(f)
    BY DEF Cuts
  <1>3. start \in X
    BY <1>1, EmptySeq DEF Cut
  <1>4. /\ step \in [1..N -> [X -> X]]
        /\ \A w \in 1..N : \A c \in X : step[w][c] = AddWord(words, c, w)
    <2>1. \A w \in 1..N : \A c \in X : AddWord(words, c, w) \in X
      BY AddWordIs
    <2> HIDE DEF X, N
    <2> QED
      BY <2>1
  <1> HIDE DEF g, N, X, step
  <1>5. PICK f \in [0..N -> X] : Goes(f, start, step, N)
    BY <1>1, <1>3, <1>4, Iterated DEF Iterates
  <1>6. f = Body(f)
    <2>1. \A w \in 1..N : w - 1 \in 0..N /\ f[w - 1] \in X
      BY <1>1
    <2>2. \A w \in 0..N : f[w] = IF w = 0 THEN start ELSE AddWord(words, f[w - 1], w)
      <3>1. \A w \in 0..N : w # 0 => w \in 1..N
        BY <1>1
      <3> HIDE DEF start
      <3> QED
        BY <3>1, <2>1, <1>4, <1>5 DEF Goes
    <2> QED
      BY <2>2
  <1>7. g = Body(g)
    BY <1>2, <1>6
  <1>8. g = [w \in 0..N |-> g[w]] /\ g[0] = start
    BY <1>7, <1>1
  <1>9. \A w \in 1..N : g[w] = AddWord(words, g[w - 1], w)
    <2>1. \A w \in 1..N : w \in 0..N /\ w # 0
      BY <1>1
    <2> QED
      BY <1>7, <2>1
  <1>10. \A w \in 1..N : g[w - 1] \in X => g[w] = step[w][g[w - 1]]
    BY <1>4, <1>9
  <1> HIDE DEF start
  <1>11. Unfolds(g, X, start, step, N)
    BY <1>8, <1>10 DEF Unfolds
  <1>12. g \in [0..N -> X]
    BY <1>1, <1>3, <1>4, <1>11, Unfolded
  <1> QED
    BY <1>8, <1>9, <1>12 DEF g, N, X, start

\* A chunk exceeds chunk_size by less than its last word.
Sized(words, k) ==
  k[1] <= k[2] => Cost(words, k[1], k[2]) - 1 < ChunkSize + Width[words[k[2]]]

\* n repeats of k what there is room for.
Follows(words, k, n) ==
  n[1] \in k[1]..k[2] + 1 /\ Cost(words, n[1], k[2]) <= ChunkOverlap

\* The intervals s cover the words up to w.
Covers(words, s, w) ==
  /\ s \in Seq(Interval(words)) /\ Len(s) > 0
  /\ s[1][1] = 1 /\ s[Len(s)][2] = w
  /\ \A k \in 1..Len(s) : Sized(words, s[k])
  /\ \A j, k \in 1..Len(s) : j < k => s[j][2] < s[k][2]
  /\ \A k \in 1..Len(s) - 1 : Follows(words, s[k], s[k + 1])

\* So do the chunks up to a word with the one that is not yet ended.
CutOK(words, c, w) ==
  /\ c \in Cut(words)
  /\ c.from <= (IF w = 0 THEN 1 ELSE w)
  /\ Covers(words, Append(c.out, <<c.from, w>>), w)

\* How much the words of an interval take, and one word more.
LEMMA CostIs ==
  ASSUME NEW words \in Text, NEW w \in 1..Len(words), NEW from \in 1..w
  PROVE  /\ Cost(words, from, w) \in Int /\ Cost(words, from, w - 1) \in Int
         /\ Width[words[w]] \in Nat
         /\ Cost(words, from, w) = Cost(words, from, w - 1) + Width[words[w]] + 1
         /\ Cost(words, w, w - 1) = 0
  <1> DEFINE end == Ends(words)
             N == Len(words)
  <1>1. N \in Nat /\ w \in 1..N /\ w - 1 \in 0..N /\ w \in 0..N /\ from - 1 \in 0..N
    BY DEF Text
  <1>2. /\ end \in [0..N -> Nat] /\ Width[words[w]] \in Nat
        /\ end[w] = end[w - 1] + Width[words[w]] + 1
    BY EndsIs
  <1>3. /\ Cost(words, from, w) = end[w] - end[from - 1]
        /\ Cost(words, from, w - 1) = end[w - 1] - end[from - 1]
        /\ Cost(words, w, w - 1) = end[w - 1] - end[w - 1]
    BY DEF Cost
  <1> HIDE DEF end, N
  <1>4. end[w] \in Nat /\ end[w - 1] \in Nat /\ end[from - 1] \in Nat
    BY <1>1, <1>2
  <1> DEFINE x == end[w]
             y == end[w - 1]
             z == end[from - 1]
             n == Width[words[w]]
  <1>5. x \in Nat /\ y \in Nat /\ z \in Nat /\ n \in Nat /\ x = y + n + 1
    BY <1>2, <1>4
  <1>6. Cost(words, from, w) = x - z /\ Cost(words, from, w - 1) = y - z
        /\ Cost(words, w, w - 1) = y - y
    BY <1>3
  <1> HIDE DEF x, y, z, n
  <1>7. x - z \in Int /\ y - z \in Int /\ x - z = (y - z) + n + 1 /\ y - y = 0
    BY ONLY <1>5
  <1> QED
    BY <1>5, <1>6, <1>7 DEF n

\* One more word in the chunk that is not yet ended.
LEMMA CutGrows ==
  ASSUME NEW words \in Text, NEW w \in 1..Len(words), NEW c, CutOK(words, c, w - 1),
         c.from < w => Cost(words, c.from, w) <= ChunkSize
  PROVE  CutOK(words, c, w)
  <1> DEFINE I == Interval(words)
             s == Append(c.out, <<c.from, w - 1>>)
             t == Append(c.out, <<c.from, w>>)
             L == Len(c.out)
  <1>1. w \in Nat /\ w >= 1 /\ Len(words) \in Nat /\ w <= Len(words)
    BY DEF Text
  <1>2. /\ c \in Cut(words) /\ c.from \in Nat /\ c.from >= 1 /\ c.from <= w
        /\ c.out \in Seq(I) /\ L \in Nat
    BY <1>1 DEF CutOK, Cut
  <1>3. <<c.from, w>> \in I /\ <<c.from, w - 1>> \in I
    BY <1>1, <1>2 DEF Interval
  <1>4. /\ t \in Seq(I) /\ Len(t) = L + 1 /\ t[L + 1] = <<c.from, w>>
        /\ \A k \in 1..L : t[k] = c.out[k]
    BY <1>2, <1>3
  <1>5. /\ s \in Seq(I) /\ Len(s) = L + 1 /\ s[L + 1] = <<c.from, w - 1>>
        /\ \A k \in 1..L : s[k] = c.out[k]
    BY <1>2, <1>3
  <1>6. Covers(words, s, w - 1)
    BY DEF CutOK
  <1> HIDE DEF s, t, L, I
  <1>7. /\ s[1][1] = 1 /\ s[Len(s)][2] = w - 1
        /\ \A k \in 1..Len(s) : Sized(words, s[k])
        /\ \A j, k \in 1..Len(s) : j < k => s[j][2] < s[k][2]
        /\ \A k \in 1..Len(s) - 1 : Follows(words, s[k], s[k + 1])
    BY <1>6 DEF Covers
  <1>8. \A k \in 1..L + 1 : k \in 1..L \/ k = L + 1
    BY <1>2
  <1>9. \A k \in 1..L : t[k] = s[k]
    BY <1>4, <1>5
  <1>10. t[L + 1][1] = s[L + 1][1] /\ t[L + 1][1] = c.from /\ t[L + 1][2] = w /\ s[L + 1][2] = w - 1
    BY <1>4, <1>5
  <1>11. t[1][1] = 1
    <2>1. 1 \in 1..L \/ L + 1 = 1
      BY <1>2
    <2> QED
      BY <2>1, <1>7, <1>9, <1>10
  <1>12. Sized(words, t[L + 1])
    <2>1. ChunkSize \in Nat /\ ChunkSize > 0
      BY TransformsAssumption
    <2>2. /\ Cost(words, c.from, w) \in Int /\ Width[words[w]] \in Nat
          /\ Cost(words, w, w) = Cost(words, w, w - 1) + Width[words[w]] + 1
          /\ Cost(words, w, w - 1) = 0
      BY <1>1, <1>2, CostIs
    <2>3. Cost(words, c.from, w) - 1 < ChunkSize + Width[words[w]]
      <3>1. CASE c.from < w
        BY <3>1, <2>1, <2>2
      <3>2. CASE c.from = w
        BY <3>2, <2>1, <2>2
      <3> QED
        BY <3>1, <3>2, <1>1, <1>2
    <2> QED
      BY <2>3, <1>10 DEF Sized
  <1>13. \A k \in 1..L + 1 : Sized(words, t[k])
    BY <1>5, <1>7, <1>8, <1>9, <1>12
  <1>14. ASSUME NEW j \in 1..L + 1, NEW k \in 1..L + 1, j < k PROVE t[j][2] < t[k][2]
    <2>1. j \in 1..L /\ s[j][2] < s[k][2] /\ t[j] = s[j]
      BY <1>2, <1>5, <1>7, <1>9, <1>14
    <2>2. CASE k \in 1..L
      BY <2>1, <2>2, <1>9
    <2>3. CASE k = L + 1
      <3>1. s[j] \in I /\ s[j][2] \in Nat
        BY <2>1, <1>2, <1>5, ElementOfSeq DEF I, Interval
      <3> QED
        BY <2>1, <2>3, <3>1, <1>1, <1>10
    <2> QED
      BY <2>2, <2>3, <1>8
  <1>15. ASSUME NEW k \in 1..L PROVE Follows(words, t[k], t[k + 1])
    <2>1. k \in 1..Len(s) - 1 /\ k + 1 \in 1..L + 1
      BY <1>2, <1>5
    <2>2. Follows(words, s[k], s[k + 1]) /\ t[k] = s[k]
      BY <2>1, <1>7, <1>9
    <2>3. t[k + 1][1] = s[k + 1][1]
      BY <2>1, <1>8, <1>9, <1>10
    <2> QED
      BY <2>2, <2>3 DEF Follows
  <1>16. Covers(words, t, w)
    BY <1>2, <1>4, <1>10, <1>11, <1>13, <1>14, <1>15 DEF Covers, I
  <1> QED
    BY <1>1, <1>2, <1>16 DEF CutOK, t

\* A chunk is ended, and the next begins with what is repeated of it.
LEMMA CutEnds ==
  ASSUME NEW words \in Text, NEW w \in 1..Len(words), NEW c, CutOK(words, c, w - 1), c.from < w
  PROVE  CutOK(words, [from |-> Repeated(words, c.from, w - 1),
                       out |-> Append(c.out, <<c.from, w - 1>>)], w)
  <1> DEFINE I == Interval(words)
             s == Append(c.out, <<c.from, w - 1>>)
             from == Repeated(words, c.from, w - 1)
             t == Append(s, <<from, w>>)
             L == Len(s)
             d == [from |-> from, out |-> s]
  <1>1. w \in Nat /\ w >= 1 /\ Len(words) \in Nat /\ w <= Len(words)
    BY DEF Text
  <1>2. /\ c \in Cut(words) /\ c.from \in Nat /\ c.from >= 1 /\ c.from <= w - 1
        /\ c.out \in Seq(I)
    BY <1>1 DEF CutOK, Cut
  <1>3. /\ from \in c.from..(w - 1) + 1 /\ Cost(words, from, w - 1) <= ChunkOverlap
    <2>1. w - 1 \in 1..Len(words) /\ c.from \in 1..w - 1
      BY <1>1, <1>2
    <2> QED
      BY <2>1, RepeatedIs
  <1> HIDE DEF from
  <1>4. <<from, w>> \in I /\ <<c.from, w - 1>> \in I /\ from \in 1..w
    BY <1>1, <1>2, <1>3 DEF Interval
  <1>5. Covers(words, s, w - 1)
    BY DEF CutOK
  <1>6. s \in Seq(I) /\ L \in Nat /\ L > 0 /\ s[L] = <<c.from, w - 1>>
    BY <1>2, <1>4
  <1> HIDE DEF s
  <1>7. /\ t \in Seq(I) /\ Len(t) = L + 1 /\ t[L + 1] = <<from, w>> /\ \A k \in 1..L : t[k] = s[k]
    BY <1>4, <1>6
  <1> HIDE DEF t, I
  <1>8. /\ s[1][1] = 1 /\ s[L][2] = w - 1
        /\ \A k \in 1..L : Sized(words, s[k])
        /\ \A j, k \in 1..L : j < k => s[j][2] < s[k][2]
        /\ \A k \in 1..L - 1 : Follows(words, s[k], s[k + 1])
    BY <1>5 DEF Covers
  <1> HIDE DEF L
  <1>9. \A k \in 1..L + 1 : k \in 1..L \/ k = L + 1
    BY <1>6
  <1>10. t[L + 1][1] = from /\ t[L + 1][2] = w /\ t[1][1] = 1
    BY <1>6, <1>7, <1>8
  <1>11. Sized(words, t[L + 1])
    <2>1. ChunkSize \in Nat /\ ChunkOverlap \in Nat /\ ChunkOverlap <= ChunkSize - 1
      BY TransformsAssumption
    <2>2. /\ Cost(words, from, w) \in Int /\ Width[words[w]] \in Nat
          /\ Cost(words, from, w - 1) \in Int
          /\ Cost(words, from, w) = Cost(words, from, w - 1) + Width[words[w]] + 1
      BY <1>4, CostIs
    <2>3. Cost(words, from, w) - 1 < ChunkSize + Width[words[w]]
      <3>1. Cost(words, from, w - 1) <= ChunkOverlap
        BY <1>3
      <3> QED
        BY ONLY <2>1, <2>2, <3>1
    <2> QED
      BY <2>3, <1>10 DEF Sized
  <1>12. \A k \in 1..L + 1 : Sized(words, t[k])
    BY <1>7, <1>8, <1>9, <1>11
  <1>13. ASSUME NEW j \in 1..L + 1, NEW k \in 1..L + 1, j < k PROVE t[j][2] < t[k][2]
    <2>1. j \in 1..L /\ t[j] = s[j] /\ s[j][2] \in Nat
      <3>1. j \in 1..L
        BY <1>6, <1>13
      <3>2. s[j] \in Interval(words)
        BY <3>1, <1>6, ElementOfSeq DEF I, L
      <3> QED
        BY <3>1, <3>2, <1>7 DEF Interval
    <2>2. CASE k \in 1..L
      BY <2>1, <2>2, <1>7, <1>8, <1>13
    <2>3. CASE k = L + 1
      <3>1. s[j][2] <= w - 1
        <4>1. j = L \/ j < L
          BY <2>1, <1>6
        <4>2. L \in 1..L
          BY <1>6
        <4>3. CASE j < L
          <5>1. s[j][2] < s[L][2]
            BY <4>2, <4>3, <2>1, <1>8
          <5> QED
            BY <5>1, <2>1, <1>1, <1>8
        <4>4. CASE j = L
          BY <4>4, <1>1, <1>8
        <4> QED
          BY <4>1, <4>3, <4>4
      <3> QED
        BY <2>1, <2>3, <3>1, <1>1, <1>10
    <2> QED
      BY <2>2, <2>3, <1>9
  <1>14. ASSUME NEW k \in 1..L PROVE Follows(words, t[k], t[k + 1])
    <2>1. CASE k \in 1..L - 1
      <3>1. k + 1 \in 1..L
        BY <2>1, <1>6
      <3> QED
        BY <2>1, <3>1, <1>7, <1>8
    <2>2. CASE k = L
      <3>1. t[k] = <<c.from, w - 1>> /\ t[k + 1] = <<from, w>>
        BY <2>2, <1>6, <1>7
      <3>2. t[k][1] = c.from /\ t[k][2] = w - 1 /\ t[k + 1][1] = from
        BY <3>1
      <3> QED
        BY <3>2, <1>3 DEF Follows
    <2> QED
      BY <2>1, <2>2, <1>6
  <1>15. Covers(words, t, w)
    BY <1>6, <1>7, <1>10, <1>12, <1>13, <1>14 DEF Covers, I
  <1>16. d \in Cut(words)
    BY <1>1, <1>4, <1>6 DEF Cut, I
  <1>17. d.from = from /\ d.out = s
    OBVIOUS
  <1> HIDE DEF d
  <1>18. CutOK(words, d, w)
    BY <1>1, <1>4, <1>15, <1>16, <1>17 DEF CutOK, t
  <1> QED
    BY <1>18 DEF d, s, from

\* The chunks of a text cover it.
LEMMA ChunksAre ==
  ASSUME NEW words \in Text
  PROVE  Covers(words, Chunks(words), Len(words))
  <1> DEFINE N == Len(words)
             T == {w \in Nat : w <= N => CutOK(words, Cuts(words)[w], w)}
  <1>1. N \in Nat
    BY DEF Text
  <1>2. 0 \in T
    <2> DEFINE c == Cuts(words)[0]
    <2>1. c = [from |-> 1, out |-> <<>>] /\ c \in Cut(words)
      <3>1. 0 \in 0..N
        BY <1>1
      <3> QED
        BY <3>1, CutsAre
    <2>2. Append(<<>>, <<1, 0>>) = <<<<1, 0>>>>
      OBVIOUS
    <2>3. c.from = 1 /\ Append(c.out, <<c.from, 0>>) = <<<<1, 0>>>>
      BY <2>1, <2>2
    <2>4. Covers(words, <<<<1, 0>>>>, 0)
      <3>1. <<1, 0>> \in Interval(words)
        BY <1>1 DEF Interval
      <3>2. /\ <<<<1, 0>>>> \in Seq(Interval(words)) /\ Len(<<<<1, 0>>>>) = 1
            /\ <<<<1, 0>>>>[1] = <<1, 0>>
        BY <3>1
      <3>3. Sized(words, <<1, 0>>)
        BY DEF Sized
      <3> QED
        BY <3>2, <3>3 DEF Covers
    <2> HIDE DEF c
    <2>5. CutOK(words, c, 0)
      BY <2>1, <2>3, <2>4 DEF CutOK
    <2> QED
      BY <2>5 DEF c
  <1>3. ASSUME NEW n \in Nat, n \in T PROVE n + 1 \in T
    <2> SUFFICES ASSUME n + 1 <= N PROVE CutOK(words, Cuts(words)[n + 1], n + 1)
      OBVIOUS
    <2> DEFINE w == n + 1
               c == Cuts(words)[n]
    <2>1. w \in 1..N /\ w - 1 = n /\ n <= N
      BY <1>1
    <2>2. CutOK(words, c, w - 1)
      BY <2>1, <1>3
    <2>3. Cuts(words)[w] = AddWord(words, c, w)
      BY <2>1, CutsAre
    <2> HIDE DEF w, c, T
    <2>4. CASE c.from < w /\ Cost(words, c.from, w) > ChunkSize
      <3>1. AddWord(words, c, w) = [from |-> Repeated(words, c.from, w - 1),
                                    out |-> Append(c.out, <<c.from, w - 1>>)]
        BY <2>4 DEF AddWord
      <3> QED
        BY <3>1, <2>1, <2>2, <2>3, <2>4, CutEnds DEF w
    <2>5. CASE ~ (c.from < w /\ Cost(words, c.from, w) > ChunkSize)
      <3>1. AddWord(words, c, w) = c
        BY <2>5 DEF AddWord
      <3>2. c.from < w => Cost(words, c.from, w) <= ChunkSize
        <4>1. c.from \in 1..N + 1
          BY <2>2 DEF CutOK, Cut
        <4>2. c.from < w => Cost(words, c.from, w) \in Int
          BY <4>1, <1>1, <2>1, CostIs
        <4> QED
          BY <4>2, <2>5, TransformsAssumption
      <3> QED
        BY <3>1, <3>2, <2>1, <2>2, <2>3, CutGrows DEF w
    <2> QED
      BY <2>4, <2>5
  <1> HIDE DEF T
  <1>4. N \in T
    BY <1>1, <1>2, <1>3, NatSetInduction
  <1>5. CutOK(words, Cuts(words)[N], N)
    BY <1>1, <1>4 DEF T
  <1>6. Chunks(words) = Append(Cuts(words)[N].out, <<Cuts(words)[N].from, N>>)
    BY DEF Chunks
  <1> QED
    BY <1>5, <1>6 DEF CutOK

\* Where the n-th list begins in all of them, one after the other.
Blocks(off, lists, t) ==
  /\ off \in [0..Len(lists) -> Nat] /\ off[0] = 0
  /\ \A n \in 1..Len(lists) :
       /\ off[n] = off[n - 1] + Len(lists[n])
       /\ \A j \in 1..Len(lists[n]) : t[off[n - 1] + j] = lists[n][j]
  /\ Len(t) = off[Len(lists)]
  /\ \A m, n \in 0..Len(lists) : m <= n => off[m] <= off[n]
  /\ \A p \in 1..Len(t) : \E n \in 1..Len(lists) : p \in off[n - 1] + 1..off[n]

InBlocks(lists, t) == \E off : Blocks(off, lists, t)

\* Joined lists stand in one block each.
LEMMA JoinedIs ==
  ASSUME NEW S, NEW lists \in Seq(Seq(S))
  PROVE  Joined(lists) \in Seq(S) /\ InBlocks(lists, Joined(lists))
  <1> DEFINE N == Len(lists)
             X == Seq(S)
             step == [n \in 1..N |-> [x \in X |-> x \o lists[n]]]
             Body(f) == [n \in 0..N |-> IF n = 0 THEN <<>> ELSE f[n - 1] \o lists[n]]
             g == CHOOSE f : f = Body(f)
  <1>1. N \in Nat /\ \A n \in 1..N : lists[n] \in Seq(S) /\ Len(lists[n]) \in Nat
    BY LenProperties, ElementOfSeq
  <1>2. Joined(lists) = g[N]
    BY DEF Joined
  <1>3. <<>> \in X
    BY EmptySeq
  <1>4. /\ step \in [1..N -> [X -> X]]
        /\ \A n \in 1..N : \A x \in X : step[n][x] = x \o lists[n]
    <2>1. \A n \in 1..N : \A x \in X : x \o lists[n] \in X
      BY <1>1, ConcatProperties
    <2> HIDE DEF X, N
    <2> QED
      BY <2>1
  <1> HIDE DEF g, N, X, step
  <1>5. PICK f \in [0..N -> X] : Goes(f, <<>>, step, N)
    BY <1>1, <1>3, <1>4, Iterated DEF Iterates
  <1>6. f = Body(f)
    <2>1. \A n \in 1..N : n - 1 \in 0..N /\ f[n - 1] \in X
      BY <1>1
    <2>2. \A n \in 0..N : f[n] = IF n = 0 THEN <<>> ELSE f[n - 1] \o lists[n]
      <3>1. \A n \in 0..N : n # 0 => n \in 1..N
        BY <1>1
      <3> QED
        BY <3>1, <2>1, <1>4, <1>5 DEF Goes
    <2> QED
      BY <2>2
  <1>7. g = Body(g)
    BY <1>6 DEF g
  <1>8. g = [n \in 0..N |-> g[n]] /\ g[0] = <<>>
    BY <1>7, <1>1
  <1>9. \A n \in 1..N : g[n] = g[n - 1] \o lists[n]
    <2>1. \A n \in 1..N : n \in 0..N /\ n # 0
      BY <1>1
    <2> QED
      BY <1>7, <2>1
  <1>10. \A n \in 1..N : g[n - 1] \in X => g[n] = step[n][g[n - 1]]
    BY <1>4, <1>9
  <1>11. Unfolds(g, X, <<>>, step, N)
    BY <1>8, <1>10 DEF Unfolds
  <1>12. g \in [0..N -> X]
    BY <1>1, <1>3, <1>4, <1>11, Unfolded
  <1> DEFINE off == [n \in 0..N |-> Len(g[n])]
  <1>13. off \in [0..N -> Nat] /\ off[0] = 0 /\ \A n \in 0..N : off[n] = Len(g[n])
    <2>1. \A n \in 0..N : Len(g[n]) \in Nat
      BY <1>12 DEF X
    <2>2. 0 \in 0..N /\ Len(<<>>) = 0
      BY <1>1
    <2> QED
      BY <2>1, <2>2, <1>8
  <1> HIDE DEF off
  <1>14. ASSUME NEW n \in 1..N
         PROVE  /\ n - 1 \in 0..N /\ n \in 0..N
                /\ off[n] = off[n - 1] + Len(lists[n])
                /\ \A p \in 1..off[n - 1] : g[n][p] = g[n - 1][p]
                /\ \A j \in 1..Len(lists[n]) : g[n][off[n - 1] + j] = lists[n][j]
    <2>1. n - 1 \in 0..N /\ n \in 0..N
      BY <1>1
    <2>2. g[n - 1] \in Seq(S) /\ lists[n] \in Seq(S) /\ g[n] = g[n - 1] \o lists[n]
      BY <2>1, <1>1, <1>9, <1>12 DEF X
    <2> DEFINE x == g[n - 1]
               y == lists[n]
    <2>3. /\ Len(x \o y) = Len(x) + Len(y) /\ Len(x) \in Nat /\ Len(y) \in Nat
          /\ \A i \in 1..Len(x) + Len(y) : (x \o y)[i] = IF i <= Len(x) THEN x[i] ELSE y[i - Len(x)]
      BY <2>2, ConcatProperties, LenProperties
    <2>4. off[n] = Len(x \o y) /\ off[n - 1] = Len(x) /\ g[n] = x \o y
      BY <2>1, <2>2, <1>13
    <2> HIDE DEF x, y
    <2>5. \A p \in 1..Len(x) : (x \o y)[p] = x[p]
      BY <2>3
    <2>6. ASSUME NEW j \in 1..Len(y) PROVE (x \o y)[Len(x) + j] = y[j]
      <3>1. Len(x) + j \in 1..Len(x) + Len(y) /\ ~ (Len(x) + j <= Len(x)) /\ Len(x) + j - Len(x) = j
        BY <2>3
      <3> QED
        BY <3>1, <2>3
    <2> QED
      BY <2>1, <2>3, <2>4, <2>5, <2>6 DEF x, y
  <1> DEFINE Holds(m) ==
               /\ \A n \in 1..m : /\ off[n] <= off[m]
                                  /\ \A j \in 1..Len(lists[n]) : g[m][off[n - 1] + j] = lists[n][j]
               /\ off[0] <= off[m]
               /\ \A p \in 1..off[m] : \E n \in 1..m : p \in off[n - 1] + 1..off[n]
             T == {m \in Nat : m <= N => Holds(m)}
  <1>15. 0 \in T
    BY <1>13
  <1>16. ASSUME NEW m \in Nat, m \in T PROVE m + 1 \in T
    <2> SUFFICES ASSUME m + 1 <= N PROVE Holds(m + 1)
      OBVIOUS
    <2>1. m + 1 \in 1..N /\ (m + 1) - 1 = m /\ m \in 0..N /\ m + 1 \in 0..N /\ m <= N
      BY <1>1
    <2>2. Holds(m)
      BY <2>1, <1>16
    <2>3. /\ off[m + 1] = off[m] + Len(lists[m + 1])
          /\ \A p \in 1..off[m] : g[m + 1][p] = g[m][p]
          /\ \A j \in 1..Len(lists[m + 1]) : g[m + 1][off[m] + j] = lists[m + 1][j]
      <3> DEFINE n == m + 1
      <3>1. n \in 1..N /\ n - 1 = m
        BY <2>1
      <3> HIDE DEF n
      <3>2. /\ off[n] = off[n - 1] + Len(lists[n])
            /\ \A p \in 1..off[n - 1] : g[n][p] = g[n - 1][p]
            /\ \A j \in 1..Len(lists[n]) : g[n][off[n - 1] + j] = lists[n][j]
        BY <3>1, <1>14
      <3>3. /\ off[n] = off[m] + Len(lists[n])
            /\ \A p \in 1..off[m] : g[n][p] = g[m][p]
            /\ \A j \in 1..Len(lists[n]) : g[n][off[m] + j] = lists[n][j]
        BY <3>1, <3>2
      <3> QED
        BY <3>3 DEF n
    <2>4. /\ off[m] \in Nat /\ off[m + 1] \in Nat /\ Len(lists[m + 1]) \in Nat
          /\ off[m] <= off[m + 1]
      BY <2>1, <2>3, <1>1, <1>13
    <2>5. ASSUME NEW n \in 1..m + 1
          PROVE  /\ off[n] <= off[m + 1]
                 /\ \A j \in 1..Len(lists[n]) : g[m + 1][off[n - 1] + j] = lists[n][j]
      <3>1. CASE n = m + 1
        BY <3>1, <2>1, <2>3, <2>4
      <3>2. CASE n # m + 1
        <4>1. n \in 1..m /\ n \in 1..N /\ n \in 0..N /\ n - 1 \in 0..N
          BY <3>2, <2>1, <1>1
        <4>2. off[n] <= off[m] /\ off[n] \in Nat /\ off[n - 1] \in Nat
              /\ off[n] = off[n - 1] + Len(lists[n]) /\ Len(lists[n]) \in Nat
          BY <4>1, <2>2, <1>1, <1>13, <1>14
        <4>3. ASSUME NEW j \in 1..Len(lists[n])
              PROVE  g[m + 1][off[n - 1] + j] = lists[n][j]
          <5>1. off[n - 1] + j \in 1..off[m]
            <6>1. j \in Nat /\ j >= 1 /\ j <= Len(lists[n])
              BY <4>2
            <6>2. /\ off[n] <= off[m] /\ off[n] = off[n - 1] + Len(lists[n])
                  /\ off[m] \in Nat /\ off[n - 1] \in Nat /\ Len(lists[n]) \in Nat
              BY <4>2, <2>4
            <6> QED
              BY ONLY <6>1, <6>2
          <5>2. g[m][off[n - 1] + j] = lists[n][j]
            BY <4>1, <2>2
          <5> QED
            BY <5>1, <5>2, <2>3
        <4> QED
          BY <4>2, <4>3, <2>4
      <3> QED
        BY <3>1, <3>2
    <2>6. ASSUME NEW p \in 1..off[m + 1]
          PROVE  \E n \in 1..m + 1 : p \in off[n - 1] + 1..off[n]
      <3>1. CASE p <= off[m]
        <4>1. p \in 1..off[m]
          BY <3>1, <2>4
        <4>2. PICK n \in 1..m : p \in off[n - 1] + 1..off[n]
          BY <4>1, <2>2
        <4> QED
          BY <4>2
      <3>2. CASE ~ (p <= off[m])
        <4>1. p \in off[m] + 1..off[m + 1]
          BY <3>2, <2>4
        <4>2. p \in off[(m + 1) - 1] + 1..off[m + 1] /\ m + 1 \in 1..m + 1
          BY <4>1, <2>1
        <4> QED
          BY <4>2
      <3> QED
        BY <3>1, <3>2
    <2>7. off[0] <= off[m + 1]
      BY <2>4, <1>13
    <2> QED
      BY <2>5, <2>6, <2>7
  <1> HIDE DEF T
  <1>17. Nat \subseteq T
    BY <1>15, <1>16, NatSetInduction
  <1>18. \A m \in 0..N : Holds(m)
    BY <1>1, <1>17 DEF T
  <1>19. N \in 0..N /\ Holds(N) /\ Len(g[N]) = off[N] /\ g[N] \in Seq(S)
    <2>1. N \in 0..N
      BY <1>1
    <2> QED
      BY <2>1, <1>12, <1>13, <1>18 DEF X
  <1>20. ASSUME NEW m \in 0..N, NEW n \in 0..N, m <= n PROVE off[m] <= off[n]
    <2>1. Holds(n)
      BY <1>18
    <2>2. m = 0 \/ m \in 1..n
      BY <1>1, <1>20
    <2> QED
      BY <2>1, <2>2
  <1>21. Blocks(off, lists, g[N])
    <2>1. \A n \in 1..N : /\ off[n] = off[n - 1] + Len(lists[n])
                          /\ \A j \in 1..Len(lists[n]) : g[N][off[n - 1] + j] = lists[n][j]
      BY <1>14, <1>19
    <2>2. \A p \in 1..Len(g[N]) : \E n \in 1..N : p \in off[n - 1] + 1..off[n]
      BY <1>19
    <2> HIDE DEF Holds
    <2> QED
      BY <2>1, <2>2, <1>13, <1>19, <1>20 DEF Blocks, N
  <1> QED
    BY <1>2, <1>19, <1>21 DEF InBlocks

\* What is kept of an interval of positions is the block there.
LEMMA KeptInterval ==
  ASSUME NEW a \in Nat, NEW b \in Nat, a <= b, NEW s
  PROVE  /\ Len(Kept(s, a + 1..b)) = b - a
         /\ \A n \in 1..b - a : Kept(s, a + 1..b)[n] = s[a + n]
  <1> DEFINE I == a + 1..b
             t == Kept(s, I)
  <1>1. I \in SUBSET (1..b)
    OBVIOUS
  <1>2. PICK e : Numbers(e, t, s, I)
    BY <1>1, KeptIs DEF Picked
  <1>3. Cardinality(I) = b - a
    <2>1. a + 1 \in Int /\ b \in Int
      OBVIOUS
    <2>2. Cardinality(I) = IF a + 1 > b THEN 0 ELSE b - (a + 1) + 1
      BY <2>1, FS_Interval
    <2> HIDE DEF I
    <2> QED
      BY <2>2
  <1>4. /\ Len(t) = b - a /\ e \in [1..Len(t) -> I]
        /\ \A n \in 1..Len(t) : t[n] = s[e[n]] /\ Cardinality({j \in I : j < e[n]}) = n - 1
    BY <1>2, <1>3 DEF Numbers
  <1> HIDE DEF t
  <1>5. ASSUME NEW n \in 1..b - a PROVE e[n] = a + n
    <2>1. e[n] \in I /\ Cardinality({j \in I : j < e[n]}) = n - 1
      BY <1>4
    <2>2. e[n] \in Nat /\ e[n] >= a + 1 /\ e[n] <= b
      BY <2>1
    <2>3. {j \in I : j < e[n]} = a + 1..e[n] - 1
      BY <2>2
    <2>4. Cardinality(a + 1..e[n] - 1) = e[n] - 1 - a
      <3>1. a + 1 \in Int /\ e[n] - 1 \in Int
        BY <2>2
      <3>2. Cardinality(a + 1..e[n] - 1) =
              IF a + 1 > e[n] - 1 THEN 0 ELSE (e[n] - 1) - (a + 1) + 1
        BY <3>1, FS_Interval
      <3> QED
        BY <3>2, <2>2
    <2>5. e[n] - 1 - a = n - 1
      BY <2>1, <2>3, <2>4
    <2> HIDE DEF I
    <2> QED
      BY <2>2, <2>5
  <1> QED
    BY <1>4, <1>5 DEF t

\* The rows are documents, cleaned.
Documents(in, t) ==
  /\ Len(t) = Len(in)
  /\ \A d \in 1..Len(in) : t[d].src = d /\ t[d].key = Clean(in[d].key)

\* The rows are in the order of the documents and of the chunks in each.
Ordered(t) ==
  \A p, q \in 1..Len(t) :
    p < q => t[p].src < t[q].src \/ (t[p].src = t[q].src /\ t[p].to < t[q].to)

\* The rows of a document cover its words, which are after the metadata once
\* these are injected.
Covered(words, chunks, injected) ==
  LET N == Len(chunks)
  IN  /\ N > 0 /\ chunks[1].from = 1 /\ chunks[N].to = Len(words)
      /\ \A c \in 1..N :
           /\ chunks[c].key = (IF injected /\ chunks[c].meta THEN Metadata ELSE <<>>)
                              \o SubSeq(words, chunks[c].from, chunks[c].to)
           /\ chunks[c].from <= chunks[c].to =>
                Cost(words, chunks[c].from, chunks[c].to) - 1
                  < ChunkSize + Width[words[chunks[c].to]]
      /\ \A c \in 1..N - 1 :
           /\ chunks[c + 1].from \in chunks[c].from..chunks[c].to + 1
           /\ chunks[c].to < chunks[c + 1].to
           /\ Cost(words, chunks[c + 1].from, chunks[c].to) <= ChunkOverlap

Own(t, d) == {i \in DOMAIN t : t[i].src = d}

AllCovered(in, t, injected) ==
  \A d \in DOMAIN in : Covered(Clean(in[d].key), Kept(t, Own(t, d)), injected)

\* The row of one chunk.
ChunkOf(r, c) == [r EXCEPT !.from = c[1], !.to = c[2], !.key = SubSeq(r.key, c[1], c[2])]

\* It holds the words of the chunk.
LEMMA ChunkOfIs ==
  ASSUME NEW r \in RowType, NEW c \in Interval(r.key)
  PROVE  /\ ChunkOf(r, c) \in RowType /\ ChunkOf(r, c).src = r.src
         /\ ChunkOf(r, c).from = c[1] /\ ChunkOf(r, c).to = c[2]
         /\ ChunkOf(r, c).key = SubSeq(r.key, c[1], c[2])
  <1>1. r.key \in Text
    BY DEF RowType
  <1>2. /\ Len(r.key) \in Nat /\ \A i \in 1..Len(r.key) : r.key[i] \in DOMAIN Width
    BY <1>1, Reads DEF Text
  <1>3. c[1] \in 1..Len(r.key) + 1 /\ c[2] \in 0..Len(r.key)
    BY DEF Interval
  <1>4. /\ c[1] \in Nat /\ c[2] \in Nat /\ c[1] \in Int /\ c[2] \in Int
        /\ c[1] >= 1 /\ c[2] <= Len(r.key)
    BY <1>2, <1>3
  <1>5. \A i \in c[1]..c[2] : r.key[i] \in DOMAIN Width
    BY <1>2, <1>4
  <1>6. SubSeq(r.key, c[1], c[2]) \in Text
    BY <1>4, <1>5, SubSeqProperties DEF Text
  <1> QED
    BY <1>4, <1>6 DEF ChunkOf, RowType

\* The chunks of one document.
LEMMA ChunkedIs ==
  ASSUME NEW r \in RowType
  PROVE  /\ Chunks(r.key) \in Seq(Interval(r.key)) /\ Len(Chunks(r.key)) \in Nat
         /\ Chunked(r) \in Seq(RowType) /\ Len(Chunked(r)) = Len(Chunks(r.key))
         /\ \A n \in 1..Len(Chunks(r.key)) : Chunked(r)[n] = ChunkOf(r, Chunks(r.key)[n])
  <1> DEFINE s == Chunks(r.key)
  <1>1. r.key \in Text
    BY DEF RowType
  <1>2. s \in Seq(Interval(r.key))
    BY <1>1, ChunksAre DEF Covers
  <1>3. /\ Len(s) \in Nat /\ DOMAIN s = 1..Len(s)
        /\ \A n \in 1..Len(s) : s[n] \in Interval(r.key)
    BY <1>2, Reads
  <1>4. Chunked(r) = [n \in DOMAIN s |-> ChunkOf(r, s[n])]
    BY DEF Chunked, Map, ChunkOf
  <1> HIDE DEF s
  <1>5. \A n \in 1..Len(s) : ChunkOf(r, s[n]) \in RowType
    BY <1>3, ChunkOfIs
  <1>6. Chunked(r) \in [1..Len(s) -> RowType]
    BY <1>3, <1>4, <1>5
  <1>7. Chunked(r) \in Seq(RowType) /\ Len(Chunked(r)) = Len(s)
    BY <1>3, <1>6
  <1> QED
    BY <1>2, <1>3, <1>4, <1>7 DEF s

\* The chunks of a document that is covered, as rows.
LEMMA ChunkedCovers ==
  ASSUME NEW r \in RowType, NEW chunks, Len(chunks) = Len(Chunks(r.key)),
         \A n \in 1..Len(chunks) : chunks[n] = ChunkOf(r, Chunks(r.key)[n])
  PROVE  Covered(r.key, chunks, FALSE)
  <1> DEFINE words == r.key
             s == Chunks(words)
             N == Len(chunks)
  <1>1. words \in Text /\ Covers(words, s, Len(words)) /\ Len(s) = N
    BY ChunksAre DEF RowType
  <1>2. /\ s \in Seq(Interval(words)) /\ N \in Nat
        /\ \A n \in 1..N : s[n] \in Interval(words)
    BY <1>1, Reads DEF Covers
  <1>3. ASSUME NEW n \in 1..N
        PROVE  /\ chunks[n].from = s[n][1] /\ chunks[n].to = s[n][2]
               /\ chunks[n].key = SubSeq(words, s[n][1], s[n][2])
               /\ chunks[n].key \in Text
    <2>1. chunks[n] = ChunkOf(r, s[n]) /\ s[n] \in Interval(words)
      BY <1>2
    <2>2. ChunkOf(r, s[n]) \in RowType
      BY <2>1, ChunkOfIs
    <2>3. chunks[n].key \in Text
      BY <2>1, <2>2 DEF RowType
    <2> QED
      BY <2>1, <2>3, ChunkOfIs
  <1> HIDE DEF s, words, N
  <1>4. /\ N > 0 /\ s[1][1] = 1 /\ s[N][2] = Len(words)
        /\ \A k \in 1..N : Sized(words, s[k])
        /\ \A j, k \in 1..N : j < k => s[j][2] < s[k][2]
        /\ \A k \in 1..N - 1 : Follows(words, s[k], s[k + 1])
    BY <1>1 DEF Covers
  <1>5. 1 \in 1..N /\ N \in 1..N
    BY <1>2, <1>4
  <1>6. chunks[1].from = 1 /\ chunks[N].to = Len(words)
    BY <1>3, <1>4, <1>5
  <1>7. ASSUME NEW c \in 1..N
        PROVE  /\ chunks[c].key = <<>> \o SubSeq(words, chunks[c].from, chunks[c].to)
               /\ chunks[c].from <= chunks[c].to =>
                    Cost(words, chunks[c].from, chunks[c].to) - 1
                      < ChunkSize + Width[words[chunks[c].to]]
    <2>1. <<>> \o chunks[c].key = chunks[c].key
      BY <1>3, ConcatEmptySeq DEF Text
    <2>2. Sized(words, s[c])
      BY <1>4
    <2> QED
      BY <2>1, <2>2, <1>3 DEF Sized
  <1>8. ASSUME NEW c \in 1..N - 1
        PROVE  /\ chunks[c + 1].from \in chunks[c].from..chunks[c].to + 1
               /\ chunks[c].to < chunks[c + 1].to
               /\ Cost(words, chunks[c + 1].from, chunks[c].to) <= ChunkOverlap
    <2>1. c \in 1..N /\ c + 1 \in 1..N /\ c < c + 1
      BY <1>2
    <2>2. Follows(words, s[c], s[c + 1]) /\ s[c][2] < s[c + 1][2]
      BY <2>1, <1>4
    <2> QED
      BY <2>1, <2>2, <1>3 DEF Follows
  <1>9. Covered(words, chunks, FALSE)
    BY <1>4, <1>6, <1>7, <1>8 DEF Covered, N
  <1> QED
    BY <1>9 DEF words

\* The documents' chunks, one document after the other.
LEMMA ChunkingIs ==
  ASSUME NEW in \in Seq(RawRow), NEW t \in Seq(RowType), Documents(in, t),
         NEW u, u = Joined(Map(Chunked, t))
  PROVE  u \in Seq(RowType) /\ Ordered(u) /\ AllCovered(in, u, FALSE)
  <1> DEFINE lists == Map(Chunked, t)
             N == Len(in)
             len(d) == Len(Chunks(t[d].key))
  <1>1. /\ N \in Nat /\ DOMAIN in = 1..N /\ Len(t) = N
        /\ \A d \in 1..N : t[d] \in RowType /\ t[d].src = d /\ t[d].key = Clean(in[d].key)
    BY Reads DEF Documents
  <1>2. /\ lists \in Seq(Seq(RowType)) /\ Len(lists) = N
        /\ \A d \in 1..N : lists[d] = Chunked(t[d])
    <2>1. DOMAIN t = 1..N
      BY <1>1, Reads
    <2>2. lists = [d \in 1..N |-> Chunked(t[d])]
      BY <2>1 DEF Map
    <2>3. \A d \in 1..N : Chunked(t[d]) \in Seq(RowType)
      BY <1>1, ChunkedIs
    <2> HIDE DEF lists, N
    <2>4. lists \in [DOMAIN t -> Seq(RowType)]
      BY <2>1, <2>2, <2>3
    <2> QED
      BY <2>2, <2>4, <1>1, Mapped
  <1> HIDE DEF lists
  <1>3. /\ u \in Seq(RowType) /\ InBlocks(lists, u)
    BY <1>2, JoinedIs DEF lists
  <1>4. PICK off : Blocks(off, lists, u)
    BY <1>3 DEF InBlocks
  <1> HIDE DEF N, len
  <1>5. ASSUME NEW d \in 1..N
        PROVE  /\ len(d) \in Nat /\ d - 1 \in 0..N /\ d \in 0..N
               /\ off[d - 1] \in Nat /\ off[d] \in Nat
               /\ off[d] = off[d - 1] + len(d)
               /\ \A n \in 1..len(d) : u[off[d - 1] + n] = ChunkOf(t[d], Chunks(t[d].key)[n])
    <2>1. /\ Len(lists[d]) = len(d) /\ len(d) \in Nat
          /\ \A n \in 1..len(d) : lists[d][n] = ChunkOf(t[d], Chunks(t[d].key)[n])
      BY <1>1, <1>2, ChunkedIs DEF len
    <2>2. d - 1 \in 0..N /\ d \in 0..N
      BY <1>1
    <2>3. off[d - 1] \in Nat /\ off[d] \in Nat
      BY <2>2, <1>2, <1>4 DEF Blocks
    <2>4. /\ off[d] = off[d - 1] + Len(lists[d])
          /\ \A j \in 1..Len(lists[d]) : u[off[d - 1] + j] = lists[d][j]
      BY <1>2, <1>4 DEF Blocks
    <2> QED
      BY <2>1, <2>2, <2>3, <2>4
  <1>6. /\ Len(u) = off[N] /\ off[0] = 0 /\ off[N] \in Nat
        /\ \A m, n \in 0..N : m <= n => off[m] <= off[n]
        /\ \A p \in 1..Len(u) : \E d \in 1..N : p \in off[d - 1] + 1..off[d]
    <2>1. N \in 0..N
      BY <1>1
    <2> QED
      BY <2>1, <1>2, <1>4 DEF Blocks
  <1>7. ASSUME NEW d \in 1..N, NEW p \in off[d - 1] + 1..off[d]
        PROVE  /\ p - off[d - 1] \in 1..len(d) /\ p \in 1..Len(u)
               /\ u[p] = ChunkOf(t[d], Chunks(t[d].key)[p - off[d - 1]])
               /\ u[p].src = d /\ u[p].to = Chunks(t[d].key)[p - off[d - 1]][2]
    <2> DEFINE n == p - off[d - 1]
    <2>1. n \in 1..len(d) /\ off[d - 1] + n = p
      BY <1>5
    <2>2. off[d] <= off[N]
      BY <1>1, <1>5, <1>6
    <2>3. p \in 1..Len(u)
      BY <2>2, <1>5, <1>6
    <2> HIDE DEF n
    <2>4. u[p] = ChunkOf(t[d], Chunks(t[d].key)[n])
      BY <2>1, <1>5
    <2>5. Chunks(t[d].key)[n] \in Interval(t[d].key)
      <3>1. Chunks(t[d].key) \in Seq(Interval(t[d].key))
        BY <1>1, ChunkedIs
      <3>2. n \in 1..Len(Chunks(t[d].key))
        BY <2>1 DEF len
      <3> QED
        BY <3>1, <3>2, ElementOfSeq
    <2>6. u[p].src = d /\ u[p].to = Chunks(t[d].key)[n][2]
      BY <2>4, <2>5, <1>1, ChunkOfIs
    <2> QED
      BY <2>1, <2>3, <2>4, <2>6 DEF n
  <1>8. ASSUME NEW p \in 1..Len(u), NEW d \in 1..N, u[p].src = d
        PROVE  p \in off[d - 1] + 1..off[d]
    <2>1. PICK m \in 1..N : p \in off[m - 1] + 1..off[m]
      BY <1>6
    <2>2. u[p].src = m
      BY <2>1, <1>7
    <2> QED
      BY <2>1, <2>2, <1>8
  <1>9. Ordered(u)
    <2> SUFFICES ASSUME NEW p \in 1..Len(u), NEW q \in 1..Len(u), p < q
                 PROVE  u[p].src < u[q].src \/ (u[p].src = u[q].src /\ u[p].to < u[q].to)
      BY DEF Ordered
    <2>1. PICK m \in 1..N : p \in off[m - 1] + 1..off[m]
      BY <1>6
    <2>2. PICK n \in 1..N : q \in off[n - 1] + 1..off[n]
      BY <1>6
    <2>3. /\ u[p].src = m /\ u[q].src = n
          /\ u[p].to = Chunks(t[m].key)[p - off[m - 1]][2]
          /\ u[q].to = Chunks(t[n].key)[q - off[n - 1]][2]
          /\ p - off[m - 1] \in 1..len(m) /\ q - off[n - 1] \in 1..len(n)
      BY <2>1, <2>2, <1>7
    <2>4. m <= n
      <3> SUFFICES ASSUME n < m PROVE FALSE
        BY <1>1
      <3>1. n <= m - 1 /\ n \in 0..N /\ m - 1 \in 0..N
        BY <1>1, <1>5
      <3>2. off[n] <= off[m - 1]
        BY <3>1, <1>6
      <3>3. /\ off[n - 1] \in Nat /\ off[n] \in Nat
            /\ off[m - 1] \in Nat /\ off[m] \in Nat
        BY <1>5
      <3>4. off[m - 1] < p /\ q <= off[n]
        BY <2>1, <2>2, <3>3
      <3>5. p \in Nat /\ q \in Nat
        BY <2>1, <2>2, <3>3
      <3> QED
        BY <3>2, <3>3, <3>4, <3>5
    <2>5. CASE m = n
      <3>1. p - off[m - 1] < q - off[m - 1]
        BY <2>1, <2>2, <1>5
      <3>2. Covers(t[m].key, Chunks(t[m].key), Len(t[m].key))
        BY <1>1, ChunksAre DEF RowType
      <3>3. \A j, k \in 1..len(m) : j < k => Chunks(t[m].key)[j][2] < Chunks(t[m].key)[k][2]
        BY <3>2 DEF Covers, len
      <3> QED
        BY <3>1, <3>3, <2>3, <2>5
    <2>6. CASE m < n
      BY <2>3, <2>6
    <2> QED
      BY <2>4, <2>5, <2>6, <1>1
  <1>10. AllCovered(in, u, FALSE)
    <2> SUFFICES ASSUME NEW d \in 1..N PROVE Covered(Clean(in[d].key), Kept(u, Own(u, d)), FALSE)
      BY <1>1 DEF AllCovered
    <2>1. Own(u, d) = off[d - 1] + 1..off[d]
      <3>1. DOMAIN u = 1..Len(u)
        BY <1>3, Reads
      <3>2. ASSUME NEW p \in Own(u, d) PROVE p \in off[d - 1] + 1..off[d]
        BY <3>1, <3>2, <1>8 DEF Own
      <3>3. ASSUME NEW p \in off[d - 1] + 1..off[d] PROVE p \in Own(u, d)
        BY <3>1, <3>3, <1>7 DEF Own
      <3> QED
        BY <3>2, <3>3
    <2> DEFINE chunks == Kept(u, off[d - 1] + 1..off[d])
    <2>2. /\ Len(chunks) = off[d] - off[d - 1]
          /\ \A n \in 1..off[d] - off[d - 1] : chunks[n] = u[off[d - 1] + n]
      <3>1. off[d - 1] \in Nat /\ off[d] \in Nat /\ off[d - 1] <= off[d]
        BY <1>5
      <3>2. \A a, b \in Nat :
              a <= b => /\ Len(Kept(u, a + 1..b)) = b - a
                        /\ \A n \in 1..b - a : Kept(u, a + 1..b)[n] = u[a + n]
        BY ONLY KeptInterval
      <3> QED
        BY ONLY <3>1, <3>2
    <2> HIDE DEF chunks
    <2>3. Len(chunks) = len(d)
      BY <2>2, <1>5
    <2>4. \A n \in 1..len(d) : chunks[n] = ChunkOf(t[d], Chunks(t[d].key)[n])
      BY <2>2, <2>3, <1>5
    <2>5. Covered(t[d].key, chunks, FALSE)
      BY <2>3, <2>4, <1>1, ChunkedCovers DEF len
    <2> QED
      BY <2>1, <2>5, <1>1 DEF chunks
  <1> QED
    BY <1>3, <1>9, <1>10

-----------------------------------------------------------------------------
(* What the filters and the maps do to all rows.                           *)

\* Rows in order have each their own place in a document.
LEMMA OwnPlace ==
  ASSUME NEW s \in Seq(RowType), Ordered(s), NEW i \in 1..Len(s), NEW j \in 1..Len(s),
         s[i].src = s[j].src, s[i].to = s[j].to
  PROVE  i = j
  <1>1. /\ s[i].src \in Nat /\ s[i].to \in Nat /\ Len(s) \in Nat
    <2>1. s[i] \in RowType
      BY ElementOfSeq
    <2> QED
      BY <2>1, LenProperties DEF RowType
  <1>2. ~ (i < j) /\ ~ (j < i)
    BY <1>1 DEF Ordered
  <1> QED
    BY <1>1, <1>2

\* A filter keeps the order.
LEMMA OrderedKept ==
  ASSUME NEW s \in Seq(RowType), Ordered(s), NEW I, I \subseteq DOMAIN s
  PROVE  Ordered(Kept(s, I))
  <1>1. DOMAIN s = 1..Len(s) /\ Len(s) \in Nat /\ \A i \in I : i \in 1..Len(s)
    BY Reads
  <1>2. PICK e : Numbers(e, Kept(s, I), s, I)
    BY KeptOf DEF Picked
  <1> DEFINE t == Kept(s, I)
  <1> HIDE DEF t
  <1>3. /\ e \in [1..Len(t) -> I]
        /\ \A n \in 1..Len(t) : t[n] = s[e[n]]
        /\ \A m, n \in 1..Len(t) : m < n => e[m] < e[n]
    BY <1>2 DEF Numbers, t
  <1>4. ASSUME NEW p \in 1..Len(t), NEW q \in 1..Len(t), p < q
        PROVE  t[p].src < t[q].src \/ (t[p].src = t[q].src /\ t[p].to < t[q].to)
    <2>1. /\ e[p] \in 1..Len(s) /\ e[q] \in 1..Len(s) /\ e[p] < e[q]
          /\ t[p] = s[e[p]] /\ t[q] = s[e[q]]
      BY <1>1, <1>3, <1>4
    <2> QED
      BY <2>1 DEF Ordered
  <1> QED
    BY <1>4 DEF Ordered, t

SameId(r, o) == r.src = o.src /\ r.to = o.to

\* A map keeps it too.
LEMMA OrderedMapped ==
  ASSUME NEW s, NEW t, Ordered(s), Len(t) = Len(s), \A i \in 1..Len(s) : SameId(t[i], s[i])
  PROVE  Ordered(t)
  BY DEF Ordered, SameId

\* Why a row is missing: what Similar, Rejected and Survives say of any rows.
Like(p, a, b) == IF p.near THEN Near(a.key, b.key) ELSE a.key = b.key

RejectedBy(p, r) ==
  \/ p.kind = "rag" /\ ~ RAGTrainingRecord(r)
  \/ p.kind = "decoder" /\ ~ RawDatasetRecord(r)
  \/ p.kind = "index" /\ ~ RAGIndexingRecord(r)
  \/ p.kind # "index" /\ r.key \in Bench

SurvivesIn(t, r) == \E k \in 1..Len(t) : SameId(t[k], r)

\* O is what the deduplication keeps of s.
Chosen(p, s, O) ==
  /\ O \in SUBSET (1..Len(s))
  /\ \A n \in 1..Len(s) : n \in O <=> \A i \in O : i < n => ~ Like(p, s[i], s[n])

\* The rows t are some of those, unchanged early on, and those that are missing
\* were rejected.
From(s, t, O, early) ==
  \A k \in 1..Len(t) : \E i \in O : SameId(t[k], s[i]) /\ (early => t[k] = s[i])

Missing(p, s, t, O) == \A i \in O : SurvivesIn(t, s[i]) \/ RejectedBy(p, s[i])

DropsOK(p, s, t, early) ==
  \E O : Chosen(p, s, O) /\ From(s, t, O, early) /\ Missing(p, s, t, O)

\* A filter that comes later drops rows for a reason.
LEMMA DropsFiltered ==
  ASSUME NEW p, NEW s \in Seq(RowType), Ordered(s), NEW t \in Seq(RowType),
         NEW early, NEW later, later => early, DropsOK(p, s, t, early),
         NEW I, I \subseteq DOMAIN t,
         \A k \in DOMAIN t \ I : early /\ RejectedBy(p, t[k])
  PROVE  DropsOK(p, s, Kept(t, I), later)
  <1> DEFINE u == Kept(t, I)
  <1>1. DOMAIN t = 1..Len(t)
    BY Reads
  <1>2. PICK e : Numbers(e, u, t, I)
    BY KeptOf DEF Picked
  <1> HIDE DEF u
  <1>3. /\ \A n \in 1..Len(u) : e[n] \in I /\ e[n] \in 1..Len(t) /\ u[n] = t[e[n]]
        /\ \A i \in I : \E n \in 1..Len(u) : e[n] = i
    BY <1>1, <1>2 DEF Numbers
  <1>4. PICK O : Chosen(p, s, O) /\ From(s, t, O, early) /\ Missing(p, s, t, O)
    BY DEF DropsOK
  <1>5. From(s, u, O, later)
    BY <1>3, <1>4 DEF From
  <1>6. ASSUME NEW i \in O, ~ RejectedBy(p, s[i]) PROVE SurvivesIn(u, s[i])
    <2>1. PICK k \in 1..Len(t) : SameId(t[k], s[i])
      BY <1>4, <1>6 DEF Missing, SurvivesIn
    <2>2. k \in I
      <3> SUFFICES ASSUME k \notin I PROVE FALSE
        OBVIOUS
      <3>1. early /\ RejectedBy(p, t[k])
        BY <1>1
      <3>2. PICK j \in O : t[k] = s[j]
        BY <3>1, <1>4 DEF From
      <3>3. i \in 1..Len(s) /\ j \in 1..Len(s) /\ s[i].src = s[j].src /\ s[i].to = s[j].to
        BY <2>1, <3>2, <1>4 DEF Chosen, SameId
      <3>4. i = j
        BY <3>3, OwnPlace
      <3> QED
        BY <3>1, <3>2, <3>4, <1>6
    <2>3. PICK n \in 1..Len(u) : e[n] = k
      BY <2>2, <1>3
    <2>4. u[n] = t[k]
      BY <2>3, <1>3
    <2> QED
      BY <2>1, <2>4 DEF SurvivesIn
  <1>7. Missing(p, s, u, O)
    BY <1>6 DEF Missing
  <1> QED
    BY <1>4, <1>5, <1>7 DEF DropsOK, u

\* A map drops no row.
LEMMA DropsMapped ==
  ASSUME NEW p, NEW s, NEW t, NEW early, DropsOK(p, s, t, early),
         NEW u, Len(u) = Len(t), \A k \in 1..Len(t) : SameId(u[k], t[k])
  PROVE  DropsOK(p, s, u, FALSE)
  <1>1. PICK O : Chosen(p, s, O) /\ From(s, t, O, early) /\ Missing(p, s, t, O)
    BY DEF DropsOK
  <1>2. From(s, u, O, FALSE)
    BY <1>1 DEF From, SameId
  <1>3. Missing(p, s, u, O)
    BY <1>1 DEF Missing, SurvivesIn, SameId
  <1> QED
    BY <1>1, <1>2, <1>3 DEF DropsOK

\* What the deduplication keeps: a row that is like none it kept before.
LEMMA OriginalsAre ==
  ASSUME NEW s \in Seq(RowType)
  PROVE  Chosen(pipe, s, Originals(s))
  <1> DEFINE N == Len(s)
             X == SUBSET (1..N)
             More(K, n) == K \cup (IF \E i \in K : Similar(s[i], s[n]) THEN {} ELSE {n})
             step == [n \in 1..N |-> [K \in X |-> More(K, n)]]
             Body(f) == [n \in 0..N |->
                           IF n = 0 THEN {}
                           ELSE f[n - 1]
                                \cup (IF \E i \in f[n - 1] : Similar(s[i], s[n]) THEN {} ELSE {n})]
             g == CHOOSE f : f = Body(f)
  <1>1. N \in Nat
    BY LenProperties
  <1>2. Originals(s) = g[N]
    BY DEF Originals
  <1>3. /\ step \in [1..N -> [X -> X]]
        /\ \A n \in 1..N : \A K \in X : step[n][K] = More(K, n)
    <2>1. \A n \in 1..N : \A K \in X : More(K, n) \in X
      OBVIOUS
    <2> HIDE DEF X, N, More
    <2> QED
      BY <2>1
  <1>4. {} \in X
    OBVIOUS
  <1> HIDE DEF g, N, X, step
  <1>5. PICK f \in [0..N -> X] : Goes(f, {}, step, N)
    BY <1>1, <1>3, <1>4, Iterated DEF Iterates
  <1>6. f = Body(f)
    <2>1. \A n \in 1..N : n - 1 \in 0..N /\ f[n - 1] \in X
      BY <1>1
    <2>2. \A n \in 1..N : f[n] = More(f[n - 1], n)
      BY <2>1, <1>3, <1>5 DEF Goes
    <2>3. \A n \in 0..N : n # 0 => n \in 1..N
      BY <1>1
    <2>4. f[0] = {}
      BY <1>5 DEF Goes
    <2> QED
      BY <2>2, <2>3, <2>4
  <1>7. g = Body(g)
    BY <1>6 DEF g
  <1>8. g = [n \in 0..N |-> g[n]] /\ g[0] = {}
    BY <1>7, <1>1
  <1>9. \A n \in 1..N : g[n] = More(g[n - 1], n)
    <2>1. \A n \in 1..N : n \in 0..N /\ n # 0
      BY <1>1
    <2> QED
      BY <1>7, <2>1
  <1>10. \A n \in 1..N : g[n - 1] \in X => g[n] = step[n][g[n - 1]]
    <2> HIDE DEF More
    <2> QED
      BY <1>3, <1>9
  <1>11. Unfolds(g, X, {}, step, N)
    BY <1>8, <1>10 DEF Unfolds
  <1>12. g \in [0..N -> X]
    BY <1>1, <1>3, <1>4, <1>11, Unfolded
  <1> DEFINE Holds(n) == g[n] \subseteq 1..n /\ \A m \in 0..n : g[m] = g[n] \cap (1..m)
             T == {n \in Nat : n <= N => Holds(n)}
  <1>13. 0 \in T
    BY <1>8
  <1>14. ASSUME NEW n \in Nat, n \in T PROVE n + 1 \in T
    <2> SUFFICES ASSUME n + 1 <= N PROVE Holds(n + 1)
      OBVIOUS
    <2>1. n + 1 \in 1..N /\ (n + 1) - 1 = n /\ n <= N
      BY <1>1
    <2>2. Holds(n)
      BY <2>1, <1>14
    <2>3. g[n + 1] = g[n] \/ g[n + 1] = g[n] \cup {n + 1}
      <3>1. g[n + 1] = More(g[(n + 1) - 1], n + 1)
        BY <2>1, <1>9
      <3> QED
        BY <2>1, <3>1
    <2>4. g[n + 1] \subseteq 1..n + 1
      BY <2>2, <2>3
    <2>5. ASSUME NEW m \in 0..n + 1 PROVE g[m] = g[n + 1] \cap (1..m)
      <3>1. CASE m = n + 1
        BY <2>4, <3>1
      <3>2. CASE m # n + 1
        <4>1. m \in 0..n /\ n + 1 \notin 1..m
          BY <3>2
        <4> QED
          BY <4>1, <2>2, <2>3
      <3> QED
        BY <3>1, <3>2
    <2> QED
      BY <2>4, <2>5
  <1> HIDE DEF T
  <1>15. N \in T
    BY <1>1, <1>13, <1>14, NatSetInduction
  <1>16. Holds(N)
    BY <1>1, <1>15 DEF T
  <1>17. ASSUME NEW n \in 1..N
         PROVE  n \in g[N] <=> \A i \in g[N] : i < n => ~ Like(pipe, s[i], s[n])
    <2>1. n - 1 \in 0..N /\ n \in 0..N
      BY <1>1
    <2>2. g[n] = g[N] \cap (1..n) /\ g[n - 1] = g[N] \cap (1..n - 1)
      BY <2>1, <1>16
    <2>3. n \in g[N] <=> n \in g[n]
      BY <2>2
    <2>4. n \in g[n] <=> ~ \E i \in g[n - 1] : Similar(s[i], s[n])
      <3>1. n \notin g[n - 1]
        BY <2>2
      <3> QED
        BY <3>1, <1>9
    <2>5. \A i \in g[N] : i < n <=> i \in g[n - 1]
      <3>1. \A i \in g[N] : i \in 1..N
        BY <1>16
      <3> QED
        BY <3>1, <2>2, <1>1
    <2>6. \A i \in 1..N : Similar(s[i], s[n]) <=> Like(pipe, s[i], s[n])
      BY DEF Similar, Like
    <2>7. \A i \in g[n - 1] : i \in g[N] /\ i \in 1..N
      BY <2>2, <1>16
    <2> QED
      BY <2>3, <2>4, <2>5, <2>6, <2>7, <1>16
  <1> QED
    BY <1>2, <1>16, <1>17 DEF Chosen, N

\* What the deduplication leaves are the rows that it chose.
LEMMA DropsBegun ==
  ASSUME NEW s \in Seq(RowType)
  PROVE  /\ Originals(s) \subseteq DOMAIN s
         /\ DropsOK(pipe, s, Kept(s, Originals(s)), TRUE)
  <1> DEFINE O == Originals(s)
             t == Kept(s, O)
  <1>1. Chosen(pipe, s, O) /\ DOMAIN s = 1..Len(s)
    BY OriginalsAre, Reads
  <1>2. O \subseteq DOMAIN s
    BY <1>1 DEF Chosen
  <1>3. PICK e : Numbers(e, t, s, O)
    BY <1>2, KeptOf DEF Picked
  <1> HIDE DEF O, t
  <1>4. /\ \A n \in 1..Len(t) : e[n] \in O /\ t[n] = s[e[n]]
        /\ \A i \in O : \E n \in 1..Len(t) : e[n] = i
    BY <1>3 DEF Numbers
  <1>5. From(s, t, O, TRUE)
    BY <1>4 DEF From, SameId
  <1>6. Missing(pipe, s, t, O)
    BY <1>4 DEF Missing, SurvivesIn, SameId
  <1>7. DropsOK(pipe, s, t, TRUE)
    BY <1>1, <1>5, <1>6 DEF DropsOK
  <1> QED
    BY <1>2, <1>7 DEF O, t

-----------------------------------------------------------------------------
(* The inductive invariant: what is so of the rows between two transforms. *)

\* Nothing of the prompt is behind prompt_length, and the answer begins before
\* it only where the prompt counts a separator that is part of the answer.
LossOK(p, r) ==
  /\ \A n \in 1..Len(r.ids) : r.ids[n] \in {"prompt", "bos"} => n <= r.plen
  /\ \A n \in 1..Len(r.ids) :
       r.ids[n] = "answer" /\ n <= r.plen =>
         /\ p.task = "sft" /\ ~ p.bos /\ p.merges
         /\ n - 1 \in 1..Len(r.ids) => r.ids[n - 1] # "answer"

Unread(in, t) == Len(t) = Len(in) /\ \A d \in 1..Len(in) : t[d].src = d /\ t[d].key = in[d].key

DocumentsInv ==
  /\ ~ After("cleaning") => Unread(input, rows)
  /\ pipe.kind = "index" =>
       /\ After("cleaning") /\ ~ After("chunking") => Documents(input, rows)
       /\ After("chunking") /\ ~ After("metadata") => AllCovered(input, rows, FALSE)
       /\ After("metadata") /\ ~ After("deduplication") => AllCovered(input, rows, TRUE)
       /\ After("deduplication") => AllCovered(input, seen, TRUE)

DropsInv == After("deduplication") => DropsOK(pipe, seen, rows, ~ After("validation"))

TokensInv ==
  After("tokenization") =>
    \A i \in 1..Len(rows) :
      Len(rows[i].ids) <= MaxLength /\ (pipe.kind = "decoder" => LossOK(pipe, rows[i]))

TransformsInv ==
  /\ TypedInv
  /\ Ordered(rows) /\ Ordered(seen)
  /\ ~ After("deduplication") => seen = <<>>
  /\ DocumentsInv /\ DropsInv /\ TokensInv

\* The tokens of a row.
LEMMA TokenizedIs ==
  ASSUME pipe \in Pipelines, NEW r \in RowType
  PROVE  /\ Tokenized(r) \in RowType /\ SameId(Tokenized(r), r)
         /\ Len(Tokenized(r).ids) <= MaxLength
         /\ pipe.kind = "decoder" => LossOK(pipe, Tokenized(r))
  <1> DEFINE u == Tokenized(r)
             K == Len(r.key)
  <1>1. CASE pipe.task = "sft"
    <2> DEFINE b == IF pipe.bos THEN 1 ELSE 0
               c == IF pipe.merges THEN 0 ELSE 1
    <2>1. u = [r EXCEPT !.ids = Ids(r), !.plen = PromptLen(r)]
      BY <1>1 DEF Tokenized
    <2>2. /\ Ids(r) \in Seq(Token) /\ Len(Ids(r)) \in Nat /\ Len(Ids(r)) <= MaxLength /\ K \in Nat
          /\ \A i \in 1..Len(Ids(r)) :
               Ids(r)[i] = IF i <= b THEN "bos" ELSE IF i <= b + K THEN "prompt"
                           ELSE IF i <= b + K + c THEN "sep" ELSE "answer"
      BY IdsIs
    <2>3. /\ PromptLen(r) \in Nat
          /\ PromptLen(r) = (IF K + 1 < MaxLength THEN K + 1 ELSE MaxLength)
      BY PromptLenIs
    <2>4. /\ u \in RowType /\ u.src = r.src /\ u.to = r.to
          /\ u.ids = Ids(r) /\ u.plen = PromptLen(r)
      <3> HIDE DEF u
      <3>1. r \in RowType /\ Ids(r) \in Seq(Token) /\ PromptLen(r) \in Nat
        BY <2>2, <2>3
      <3> QED
        BY ONLY <2>1, <3>1 DEF RowType
    <2>5. b \in {0, 1} /\ c \in {0, 1} /\ (b = 0 <=> ~ pipe.bos) /\ (c = 0 <=> pipe.merges)
      BY PipeIs
    <2> HIDE DEF b, c, K, u
    <2>6. MaxLength \in Nat
      BY TransformsAssumption
    <2>7. ASSUME NEW n \in 1..Len(u.ids), u.ids[n] \in {"prompt", "bos"}
          PROVE  n <= u.plen
      <3>1. n <= b + K
        BY <2>2, <2>4, <2>5, <2>7
      <3> QED
        BY <3>1, <2>2, <2>3, <2>4, <2>5, <2>6
    <2>8. ASSUME NEW n \in 1..Len(u.ids), u.ids[n] = "answer", n <= u.plen
          PROVE  /\ ~ pipe.bos /\ pipe.merges
                 /\ n - 1 \in 1..Len(u.ids) => u.ids[n - 1] # "answer"
      <3>1. ~ (n <= b + K + c) /\ n <= K + 1
        <4>1. n \in 1..Len(Ids(r)) /\ Ids(r)[n] = "answer"
          BY <2>4, <2>8
        <4>2. ~ (n <= b + K + c)
          BY <4>1, <2>2, <2>5
        <4> QED
          BY <4>1, <4>2, <2>2, <2>3, <2>4, <2>6, <2>8
      <3>2. b = 0 /\ c = 0 /\ n = K + 1
        BY <3>1, <2>2, <2>4, <2>5
      <3>3. n - 1 \in 1..Len(u.ids) => u.ids[n - 1] = "prompt"
        <4> SUFFICES ASSUME n - 1 \in 1..Len(Ids(r)) PROVE Ids(r)[n - 1] = "prompt"
          BY <2>4
        <4>1. ~ (n - 1 <= b) /\ n - 1 <= b + K
          BY <3>2, <2>2
        <4> QED
          BY <4>1, <2>2
      <3> QED
        BY <3>2, <3>3, <2>5
    <2>9. LossOK(pipe, u)
      BY <2>7, <2>8, <1>1 DEF LossOK
    <2> QED
      BY <2>2, <2>4, <2>9 DEF u, SameId
  <1>2. CASE pipe.task = "sft_with_template"
    <2> DEFINE ids == TemplateIds(r, TRUE)
               plen == Len(TemplateIds(r, FALSE))
    <2>1. u = [r EXCEPT !.ids = ids, !.plen = plen]
      BY <1>2 DEF Tokenized
    <2>2. /\ ids \in Seq(Token) /\ Len(ids) \in Nat /\ Len(ids) <= MaxLength /\ K \in Nat
          /\ \A i \in 1..Len(ids) :
               /\ i <= K => ids[i] = "prompt"
               /\ i = K + 1 => ids[i] = "sep"
               /\ i > K + 1 => ids[i] \in {"answer", "eos"}
          /\ plen = (IF K + 1 < MaxLength THEN K + 1 ELSE MaxLength)
      BY TemplateIdsIs
    <2> HIDE DEF ids, plen
    <2>3. MaxLength \in Nat /\ plen \in Nat
      BY <2>2, TransformsAssumption
    <2>4. u \in RowType /\ u.src = r.src /\ u.to = r.to /\ u.ids = ids /\ u.plen = plen
      <3> HIDE DEF u
      <3>1. r \in RowType /\ ids \in Seq(Token) /\ plen \in Nat
        BY <2>2, <2>3
      <3> QED
        BY ONLY <2>1, <3>1 DEF RowType
    <2> HIDE DEF u, K
    <2>5. ASSUME NEW n \in 1..Len(ids), ids[n] \in {"prompt", "bos"}
          PROVE  n <= plen
      <3>1. n <= K
        BY <2>2, <2>5
      <3> QED
        BY <3>1, <2>2, <2>3
    <2>6. ASSUME NEW n \in 1..Len(ids), ids[n] = "answer" PROVE ~ (n <= plen)
      <3>1. n > K + 1
        BY <2>2, <2>6
      <3> QED
        BY <3>1, <2>2, <2>3
    <2>7. LossOK(pipe, u)
      BY <2>4, <2>5, <2>6 DEF LossOK
    <2> QED
      BY <2>2, <2>4, <2>7 DEF u, SameId
  <1>3. CASE pipe.task = "encode"
    <2>1. pipe.kind # "decoder"
      BY <1>3, PipeIs
    <2>2. u = [r EXCEPT !.ids = TextIds(r.key)]
      BY <1>3 DEF Tokenized
    <2>3. /\ TextIds(r.key) \in Seq(Token) /\ Len(TextIds(r.key)) <= MaxLength
      BY TextIdsIs DEF RowType
    <2> QED
      BY <2>1, <2>2, <2>3 DEF RowType, SameId
  <1> QED
    BY <1>1, <1>2, <1>3, PipeIs

\* Metadata before the words of the chunks.
LEMMA CoveredInjected ==
  ASSUME NEW words, NEW s \in Seq(RowType), Covered(words, s, FALSE),
         NEW t, Len(t) = Len(s), \A n \in 1..Len(s) : t[n] = Injected(s[n])
  PROVE  Covered(words, t, TRUE)
  <1> DEFINE N == Len(s)
  <1>1. N \in Nat /\ \A n \in 1..N : s[n] \in RowType
    BY Reads
  <1>2. ASSUME NEW n \in 1..N
        PROVE  /\ t[n].from = s[n].from /\ t[n].to = s[n].to /\ t[n].meta = s[n].meta
               /\ t[n].key = (IF t[n].meta THEN Metadata ELSE <<>>) \o s[n].key
    <2>1. s[n] \in RowType /\ t[n] = Injected(s[n])
      BY <1>1
    <2> DEFINE r == Injected(s[n])
    <2>2. /\ r.from = s[n].from /\ r.to = s[n].to /\ r.meta = s[n].meta
          /\ r.key = (IF s[n].meta THEN Metadata ELSE <<>>) \o s[n].key
      BY ONLY <2>1, InjectedIs
    <2> HIDE DEF r
    <2>3. t[n] = r
      BY <2>1 DEF r
    <2> QED
      BY ONLY <2>2, <2>3
  <1> HIDE DEF N
  <1>3. /\ N > 0 /\ s[1].from = 1 /\ s[N].to = Len(words)
        /\ \A c \in 1..N :
             /\ s[c].key = <<>> \o SubSeq(words, s[c].from, s[c].to)
             /\ s[c].from <= s[c].to =>
                  Cost(words, s[c].from, s[c].to) - 1 < ChunkSize + Width[words[s[c].to]]
        /\ \A c \in 1..N - 1 :
             /\ s[c + 1].from \in s[c].from..s[c].to + 1
             /\ s[c].to < s[c + 1].to
             /\ Cost(words, s[c + 1].from, s[c].to) <= ChunkOverlap
    BY DEF Covered, N
  <1>4. 1 \in 1..N /\ N \in 1..N
    BY <1>1, <1>3
  <1>5. \A c \in 1..N : s[c].key = SubSeq(words, s[c].from, s[c].to)
    <2> TAKE c \in 1..N
    <2> DEFINE x == SubSeq(words, s[c].from, s[c].to)
    <2>1. s[c].key = <<>> \o x
      BY <1>3
    <2>2. <<>> \o x = x
      OBVIOUS
    <2> QED
      BY <2>1, <2>2
  <1>6. \A c \in 1..N - 1 : c \in 1..N /\ c + 1 \in 1..N
    BY <1>1
  <1>7. Len(t) = N
    BY DEF N
  <1>8. t[1].from = 1 /\ t[N].to = Len(words)
    BY <1>2, <1>3, <1>4
  <1>9. ASSUME NEW c \in 1..N
        PROVE  /\ t[c].key = (IF t[c].meta THEN Metadata ELSE <<>>)
                              \o SubSeq(words, t[c].from, t[c].to)
               /\ t[c].from <= t[c].to =>
                    Cost(words, t[c].from, t[c].to) - 1 < ChunkSize + Width[words[t[c].to]]
    BY <1>2, <1>3, <1>5
  <1>10. ASSUME NEW c \in 1..N - 1
         PROVE  /\ t[c + 1].from \in t[c].from..t[c].to + 1
                /\ t[c].to < t[c + 1].to
                /\ Cost(words, t[c + 1].from, t[c].to) <= ChunkOverlap
    BY <1>2, <1>3, <1>6
  <1> QED
    BY <1>3, <1>7, <1>8, <1>9, <1>10 DEF Covered

-----------------------------------------------------------------------------
(* Each transform keeps it.                                                *)

\* In which order the turns are.
LEMMA TurnsAre ==
  ASSUME NEW kind \in Kinds
  PROVE  /\ Turn(kind)["cleaning"] \in {7, 8} /\ Turn(kind)["deduplication"] \in {5, 6, 7}
         /\ Turn(kind)["validation"] \in {4, 5} /\ Turn(kind)["tokenization"] = 3
         /\ Turn(kind)["length"] = 2 /\ Turn(kind)["collate"] = 1
         /\ Turn(kind)["deduplication"] < Turn(kind)["cleaning"]
         /\ Turn(kind)["validation"] < Turn(kind)["deduplication"]
         /\ "chunking" \in DOMAIN Turn(kind) => kind = "index"
         /\ "metadata" \in DOMAIN Turn(kind) => kind = "index"
         /\ "exclusion" \in DOMAIN Turn(kind) => kind # "index"
         /\ "prompt_formatting" \in DOMAIN Turn(kind) => kind = "decoder"
         /\ kind = "index" =>
              /\ Turn(kind)["cleaning"] = 8 /\ Turn(kind)["chunking"] = 7
              /\ Turn(kind)["metadata"] = 6 /\ Turn(kind)["deduplication"] = 5
         /\ kind # "index" =>
              /\ Turn(kind)["exclusion"] < Turn(kind)["deduplication"]
              /\ Turn(kind)["validation"] < Turn(kind)["exclusion"]
              /\ Turn(kind)["exclusion"] \in {5, 6}
         /\ kind = "decoder" =>
              Turn(kind)["prompt_formatting"] = 4 /\ Turn(kind)["validation"] = 5
  <1>1. CASE kind = "rag"
    BY <1>1 DEF Turn
  <1>2. CASE kind = "decoder"
    BY <1>2 DEF Turn
  <1>3. CASE kind = "index"
    BY <1>3 DEF Turn
  <1> QED
    BY <1>1, <1>2, <1>3 DEF Kinds

\* What a transform does to the types.
LEMMA TypedStep ==
  ASSUME TypedInv, NEW name \in Names, NEW result \in Seq(RowType), Apply(name, result),
         seen' \in Seq(RowType), batch' \in {"none", "made", "failed"}
  PROVE  TypedInv'
  BY Turned DEF TypedInv

\* The raw rows.
LEMMA TransformsStart == TransformsInit => TransformsInv
  <1> SUFFICES ASSUME TransformsInit PROVE TransformsInv
    OBVIOUS
  <1>1. /\ pipe \in Pipelines /\ pipe.kind \in Kinds /\ input \in Seq(RawRow)
        /\ todo = Order(pipe.kind) /\ rows = [i \in DOMAIN input |-> Raw(i)] /\ seen = <<>>
        /\ batch = "none"
    BY PipeIs, TransformsAssumption DEF TransformsInit
  <1>2. /\ Order(pipe.kind) \in Seq(Names) /\ Len(Order(pipe.kind)) = Turn(pipe.kind)["cleaning"]
    <2>1. CASE pipe.kind = "rag"
      BY <2>1 DEF Order, Turn, Names
    <2>2. CASE pipe.kind = "decoder"
      BY <2>2 DEF Order, Turn, Names
    <2>3. CASE pipe.kind = "index"
      BY <2>3 DEF Order, Turn, Names
    <2> QED
      BY <2>1, <2>2, <2>3, <1>1 DEF Kinds
  <1>3. Len(todo) = Turn(pipe.kind)["cleaning"] /\ Len(todo) \in Nat
    BY <1>1, <1>2, LenProperties
  <1>4. TodoOK
    BY <1>1, <1>2, <1>3 DEF TodoOK
  <1>5. rows \in Seq(RowType) /\ Len(rows) = Len(input)
    BY <1>1, RawIs
  <1>6. <<>> \in Seq(RowType) /\ Len(<<>>) = 0
    BY EmptySeq
  <1>7. TypedInv
    BY <1>1, <1>4, <1>5, <1>6 DEF TypedInv
  <1>8. /\ DOMAIN input = 1..Len(input) /\ Len(input) \in Nat
        /\ \A d \in 1..Len(input) : rows[d].src = d /\ rows[d].key = input[d].key
    <2>1. DOMAIN input = 1..Len(input) /\ Len(input) \in Nat
      BY <1>1, Reads
    <2>2. \A d \in 1..Len(input) : rows[d] = Raw(d)
      BY <1>1, <2>1
    <2>3. \A d \in 1..Len(input) : Raw(d).src = d /\ Raw(d).key = input[d].key
      BY DEF Raw
    <2> QED
      BY <2>1, <2>2, <2>3
  <1>9. Ordered(rows) /\ Ordered(seen)
    BY <1>1, <1>5, <1>6, <1>8 DEF Ordered
  <1>10. /\ ~ After("cleaning") /\ ~ After("deduplication") /\ ~ After("tokenization")
         /\ (pipe.kind = "index" => ~ After("chunking") /\ ~ After("metadata"))
    BY <1>1, <1>3, TurnsAre DEF After
  <1> QED
    BY <1>1, <1>5, <1>7, <1>8, <1>9, <1>10
    DEF TransformsInv, DocumentsInv, DropsInv, TokensInv, Unread

\* Cleaned rows are documents.
LEMMA CleaningKeeps == TransformsInv /\ Cleaning => TransformsInv'
  <1> SUFFICES ASSUME TransformsInv, Cleaning PROVE TransformsInv'
    OBVIOUS
  <1> DEFINE result == Map(Cleaned, rows)
  <1>1. TypedInv /\ pipe.kind \in Kinds /\ rows \in Seq(RowType) /\ input \in Seq(RawRow)
    BY PipeIs DEF TransformsInv, TypedInv
  <1>2. Apply("cleaning", result) /\ UNCHANGED <<seen, batch>>
    BY DEF Cleaning
  <1>3. /\ DOMAIN rows = 1..Len(rows) /\ Len(rows) \in Nat
        /\ \A i \in 1..Len(rows) : rows[i] \in RowType
    BY <1>1, Reads
  <1>4. result = [i \in 1..Len(rows) |-> Cleaned(rows[i])]
    BY <1>3 DEF Map
  <1> HIDE DEF result
  <1>5. \A i \in 1..Len(rows) : result[i] = Cleaned(rows[i]) /\ Cleaned(rows[i]) \in RowType
    BY <1>3, <1>4, CleanedIs
  <1>6. result \in Seq(RowType) /\ Len(result) = Len(rows)
    <2>1. result \in [DOMAIN rows -> RowType]
      BY <1>3, <1>4, <1>5
    <2> QED
      BY <2>1, <1>1, Mapped
  <1>7. /\ Len(todo) = Turn(pipe.kind)["cleaning"] /\ Len(todo') = Len(todo) - 1
        /\ pipe' = pipe /\ input' = input /\ rows' = result /\ seen' = seen
    BY <1>1, <1>2, Turned DEF Names
  <1>8. TypedInv'
    BY <1>1, <1>2, <1>6, TypedStep DEF TypedInv, Names
  <1>9. /\ ~ After("cleaning") /\ After("cleaning")'
        /\ ~ After("deduplication") /\ ~ After("deduplication")' /\ ~ After("tokenization")'
        /\ (pipe.kind = "index" => ~ After("chunking")' /\ ~ After("metadata")')
    BY <1>1, <1>7, TurnsAre DEF After
  <1>10. /\ Len(rows) = Len(input)
         /\ \A d \in 1..Len(input) : rows[d].src = d /\ rows[d].key = input[d].key
    BY <1>9 DEF TransformsInv, DocumentsInv, Unread
  <1>11. Documents(input, result)
    BY <1>3, <1>5, <1>6, <1>10, CleanedIs DEF Documents
  <1>12. Ordered(result)
    BY <1>6, <1>10, <1>11 DEF Ordered, Documents
  <1>13. seen = <<>> /\ Ordered(seen)
    BY <1>9 DEF TransformsInv
  <1> QED
    BY <1>7, <1>8, <1>9, <1>11, <1>12, <1>13
    DEF TransformsInv, DocumentsInv, DropsInv, TokensInv

\* The chunks cover the documents.
LEMMA ChunkingKeeps == TransformsInv /\ Chunking => TransformsInv'
  <1> SUFFICES ASSUME TransformsInv, Chunking PROVE TransformsInv'
    OBVIOUS
  <1> DEFINE result == Joined(Map(Chunked, rows))
  <1>1. TypedInv /\ pipe.kind \in Kinds /\ rows \in Seq(RowType) /\ input \in Seq(RawRow)
    BY PipeIs DEF TransformsInv, TypedInv
  <1>2. Apply("chunking", result) /\ UNCHANGED <<seen, batch>>
    BY DEF Chunking
  <1>3. /\ "chunking" \in DOMAIN Turn(pipe.kind)
        /\ Len(todo) = Turn(pipe.kind)["chunking"] /\ Len(todo') = Len(todo) - 1
        /\ pipe' = pipe /\ input' = input /\ rows' = result /\ seen' = seen
    BY <1>1, <1>2, Turned DEF Names
  <1>4. pipe.kind = "index"
    BY <1>1, <1>3, TurnsAre
  <1>5. /\ After("cleaning") /\ ~ After("chunking") /\ ~ After("deduplication")
        /\ After("cleaning")' /\ After("chunking")' /\ ~ After("metadata")'
        /\ ~ After("deduplication")' /\ ~ After("tokenization")'
    BY <1>1, <1>3, <1>4, TurnsAre DEF After
  <1>6. Documents(input, rows)
    BY <1>4, <1>5 DEF TransformsInv, DocumentsInv
  <1>7. result \in Seq(RowType) /\ Ordered(result) /\ AllCovered(input, result, FALSE)
    BY <1>1, <1>6, ChunkingIs
  <1> HIDE DEF result
  <1>8. TypedInv'
    BY <1>1, <1>2, <1>7, TypedStep DEF TypedInv, Names
  <1>9. seen = <<>> /\ Ordered(seen)
    BY <1>5 DEF TransformsInv
  <1> QED
    BY <1>3, <1>4, <1>5, <1>7, <1>8, <1>9
    DEF TransformsInv, DocumentsInv, DropsInv, TokensInv

\* What is kept of injected rows is what is kept of the rows, injected.
LEMMA KeptInjected ==
  ASSUME NEW s \in Seq(RowType), NEW I, I \subseteq DOMAIN s,
         NEW t, \A i \in 1..Len(s) : t[i] = Injected(s[i])
  PROVE  /\ Len(Kept(t, I)) = Len(Kept(s, I))
         /\ \A n \in 1..Len(Kept(s, I)) : Kept(t, I)[n] = Injected(Kept(s, I)[n])
  <1> DEFINE C == Cardinality(I)
             o == [n \in 1..C |-> CHOOSE i \in I : Cardinality({j \in I : j < i}) = n - 1]
  <1>1. DOMAIN s = 1..Len(s) /\ Len(s) \in Nat /\ I \in SUBSET (1..Len(s))
    BY Reads
  <1>2. PICK e : Numbers(e, Kept(s, I), s, I)
    BY <1>1, KeptIs DEF Picked
  <1>3. PICK f : Numbers(f, Kept(t, I), t, I)
    BY <1>1, KeptIs DEF Picked
  <1>4. Len(Kept(s, I)) = C /\ Len(Kept(t, I)) = C
    BY <1>2, <1>3 DEF Numbers
  <1>5. ASSUME NEW n \in 1..C PROVE o[n] \in I
    <2>1. e[n] \in I /\ Cardinality({j \in I : j < e[n]}) = n - 1
      BY <1>2, <1>4 DEF Numbers
    <2>2. o[n] = CHOOSE i \in I : Cardinality({j \in I : j < i}) = n - 1
      OBVIOUS
    <2> HIDE DEF o
    <2> QED
      BY <2>1, <2>2
  <1>6. Kept(s, I) = [n \in 1..C |-> s[o[n]]] /\ Kept(t, I) = [n \in 1..C |-> t[o[n]]]
    BY DEF Kept
  <1> HIDE DEF o, C
  <1> QED
    BY <1>1, <1>4, <1>5, <1>6

\* The metadata goes before each chunk of its own.
LEMMA MetadataKeeps == TransformsInv /\ MetadataInjector => TransformsInv'
  <1> SUFFICES ASSUME TransformsInv, MetadataInjector PROVE TransformsInv'
    OBVIOUS
  <1> DEFINE result == Map(Injected, rows)
  <1>1. TypedInv /\ pipe.kind \in Kinds /\ rows \in Seq(RowType) /\ input \in Seq(RawRow)
    BY PipeIs DEF TransformsInv, TypedInv
  <1>2. Apply("metadata", result) /\ UNCHANGED <<seen, batch>>
    BY DEF MetadataInjector
  <1>3. /\ DOMAIN rows = 1..Len(rows) /\ Len(rows) \in Nat
        /\ \A i \in 1..Len(rows) : rows[i] \in RowType
    BY <1>1, Reads
  <1>4. result = [i \in 1..Len(rows) |-> Injected(rows[i])]
    BY <1>3 DEF Map
  <1> HIDE DEF result
  <1>5. \A i \in 1..Len(rows) :
          result[i] = Injected(rows[i]) /\ result[i] \in RowType /\ SameId(result[i], rows[i])
    BY <1>3, <1>4, InjectedIs DEF SameId
  <1>6. result \in Seq(RowType) /\ Len(result) = Len(rows) /\ DOMAIN result = 1..Len(rows)
    <2>1. result \in [DOMAIN rows -> RowType]
      BY <1>3, <1>4, <1>5
    <2> QED
      BY <2>1, <1>1, <1>3, Mapped
  <1>7. /\ "metadata" \in DOMAIN Turn(pipe.kind)
        /\ Len(todo) = Turn(pipe.kind)["metadata"] /\ Len(todo') = Len(todo) - 1
        /\ pipe' = pipe /\ input' = input /\ rows' = result /\ seen' = seen
    BY <1>1, <1>2, Turned DEF Names
  <1>8. TypedInv'
    BY <1>1, <1>2, <1>6, TypedStep DEF TypedInv, Names
  <1>9. pipe.kind = "index"
    BY <1>1, <1>7, TurnsAre
  <1>10. /\ After("chunking") /\ ~ After("metadata") /\ ~ After("deduplication")
         /\ After("cleaning")' /\ After("chunking")' /\ After("metadata")'
         /\ ~ After("deduplication")' /\ ~ After("tokenization")'
    BY <1>1, <1>7, <1>9, TurnsAre DEF After
  <1>11. AllCovered(input, rows, FALSE)
    BY <1>9, <1>10 DEF TransformsInv, DocumentsInv
  <1>12. AllCovered(input, result, TRUE)
    <2> SUFFICES ASSUME NEW d \in DOMAIN input
                 PROVE  Covered(Clean(input[d].key), Kept(result, Own(result, d)), TRUE)
      BY DEF AllCovered
    <2> DEFINE I == Own(rows, d)
    <2>1. I = Own(result, d) /\ I \subseteq DOMAIN rows
      BY <1>3, <1>5, <1>6 DEF Own, SameId
    <2>2. Covered(Clean(input[d].key), Kept(rows, I), FALSE)
      BY <1>11 DEF AllCovered
    <2> HIDE DEF I
    <2>3. Kept(rows, I) \in Seq(RowType)
      BY <2>1, <1>1, KeptOf
    <2>4. /\ Len(Kept(result, I)) = Len(Kept(rows, I))
          /\ \A n \in 1..Len(Kept(rows, I)) : Kept(result, I)[n] = Injected(Kept(rows, I)[n])
      BY <2>1, <1>1, <1>5, KeptInjected
    <2>5. Covered(Clean(input[d].key), Kept(result, I), TRUE)
      BY <2>2, <2>3, <2>4, CoveredInjected
    <2> QED
      BY <2>1, <2>5
  <1>13. Ordered(result)
    BY <1>5, <1>6, OrderedMapped DEF TransformsInv
  <1>14. seen = <<>> /\ Ordered(seen)
    BY <1>10 DEF TransformsInv
  <1> QED
    BY <1>7, <1>8, <1>9, <1>10, <1>12, <1>13, <1>14
    DEF TransformsInv, DocumentsInv, DropsInv, TokensInv

\* The deduplication remembers the rows that it found.
LEMMA DeduplicationKeeps == TransformsInv /\ Deduplication => TransformsInv'
  <1> SUFFICES ASSUME TransformsInv, Deduplication PROVE TransformsInv'
    OBVIOUS
  <1> DEFINE O == Originals(rows)
             result == Kept(rows, O)
  <1>1. TypedInv /\ pipe.kind \in Kinds /\ rows \in Seq(RowType)
    BY PipeIs DEF TransformsInv, TypedInv
  <1>2. Apply("deduplication", result) /\ seen' = rows /\ batch' = batch
    BY DEF Deduplication, Deduplicated
  <1>3. O \subseteq DOMAIN rows /\ DropsOK(pipe, rows, result, TRUE)
    BY <1>1, DropsBegun
  <1> HIDE DEF O
  <1>4. result \in Seq(RowType) /\ Ordered(result)
    BY <1>1, <1>3, KeptOf, OrderedKept DEF TransformsInv
  <1> HIDE DEF result
  <1>5. /\ Len(todo) = Turn(pipe.kind)["deduplication"] /\ Len(todo') = Len(todo) - 1
        /\ pipe' = pipe /\ input' = input /\ rows' = result
    BY <1>1, <1>2, Turned DEF Names
  <1>6. TypedInv'
    BY <1>1, <1>2, <1>4, TypedStep DEF TypedInv, Names
  <1>7. /\ After("deduplication")' /\ ~ After("validation")' /\ ~ After("tokenization")'
        /\ After("cleaning")' /\ ~ After("deduplication")
        /\ (pipe.kind = "index" => After("metadata") /\ After("metadata")' /\ After("chunking")')
    BY <1>1, <1>5, TurnsAre DEF After
  <1>8. pipe.kind = "index" => AllCovered(input, rows, TRUE)
    BY <1>7 DEF TransformsInv, DocumentsInv
  <1>9. DocumentsInv'
    BY <1>2, <1>5, <1>7, <1>8 DEF DocumentsInv
  <1>10. DropsInv'
    <2>1. DropsOK(pipe, seen, rows, ~ After("validation"))' <=> DropsOK(pipe, rows, result, TRUE)
      BY <1>2, <1>5, <1>7
    <2> QED
      BY <2>1, <1>3 DEF DropsInv
  <1>11. TokensInv'
    BY <1>7 DEF TokensInv
  <1> QED
    BY <1>2, <1>4, <1>5, <1>6, <1>7, <1>9, <1>10, <1>11 DEF TransformsInv

\* What is settled after the deduplication.
LEMMA LaterDocuments ==
  ASSUME TransformsInv, After("deduplication"), Len(todo') = Len(todo) - 1,
         pipe' = pipe, input' = input, seen' = seen
  PROVE  After("deduplication")' /\ DocumentsInv' /\ (After("validation") => After("validation")')
  <1>1. pipe.kind \in Kinds /\ Len(todo) \in Nat
    BY PipeIs, LenProperties DEF TransformsInv, TypedInv, TodoOK
  <1>2. /\ After("deduplication")' /\ After("cleaning")'
        /\ (pipe.kind = "index" => After("metadata")' /\ After("chunking")')
        /\ (After("validation") => After("validation")')
    BY <1>1, TurnsAre DEF After
  <1>3. pipe.kind = "index" => AllCovered(input, seen, TRUE)
    BY DEF TransformsInv, DocumentsInv
  <1> QED
    BY <1>2, <1>3 DEF DocumentsInv

\* A transform that drops rows after it, for a reason if it drops one.
LEMMA FilterKeeps ==
  ASSUME TransformsInv, NEW name \in Names, NEW I, I \subseteq DOMAIN rows,
         Apply(name, Kept(rows, I)), UNCHANGED <<seen, batch>>,
         After("deduplication"), Turn(pipe.kind)[name] # 3,
         \A k \in DOMAIN rows \ I : ~ After("validation") /\ RejectedBy(pipe, rows[k])
  PROVE  TransformsInv'
  <1> DEFINE result == Kept(rows, I)
             early == ~ After("validation")
             later == ~ After("validation")'
  <1>1. /\ TypedInv /\ pipe.kind \in Kinds /\ rows \in Seq(RowType) /\ seen \in Seq(RowType)
        /\ Ordered(rows) /\ Ordered(seen) /\ Len(todo) \in Nat
    BY PipeIs, LenProperties DEF TransformsInv, TypedInv, TodoOK
  <1>2. result \in Seq(RowType) /\ Ordered(result) /\ Picked(result, rows, I)
    BY <1>1, KeptOf, OrderedKept
  <1>3. /\ Len(todo) = Turn(pipe.kind)[name] /\ Len(todo') = Len(todo) - 1
        /\ pipe' = pipe /\ input' = input /\ rows' = result
    BY <1>1, Turned
  <1>4. TypedInv'
    BY <1>1, <1>2, TypedStep DEF TypedInv
  <1>5. /\ After("deduplication")' /\ DocumentsInv' /\ (later => early)
    BY <1>3, LaterDocuments
  <1>6. DropsOK(pipe, seen, rows, early)
    BY DEF TransformsInv, DropsInv
  <1>7. DropsOK(pipe, seen, result, later)
    <2>1. \A k \in DOMAIN rows \ I : early /\ RejectedBy(pipe, rows[k])
      OBVIOUS
    <2> HIDE DEF early, later
    <2> QED
      BY <2>1, <1>1, <1>5, <1>6, DropsFiltered
  <1> HIDE DEF result
  <1>8. DropsInv'
    <2>1. DropsOK(pipe, seen, rows, ~ After("validation"))' <=> DropsOK(pipe, seen, result, later)
      BY <1>3
    <2> QED
      BY <2>1, <1>7 DEF DropsInv
  <1>9. TokensInv'
    <2> SUFFICES ASSUME After("tokenization")', NEW n \in 1..Len(result)
                 PROVE  /\ Len(result[n].ids) <= MaxLength
                        /\ pipe.kind = "decoder" => LossOK(pipe, result[n])
      BY <1>3 DEF TokensInv
    <2>1. After("tokenization")
      BY <1>1, <1>3, TurnsAre DEF After
    <2>2. PICK i \in 1..Len(rows) : result[n] = rows[i]
      <3>1. PICK e : Numbers(e, result, rows, I)
        BY <1>2 DEF Picked
      <3>2. e[n] \in I /\ result[n] = rows[e[n]]
        BY <3>1 DEF Numbers
      <3>3. DOMAIN rows = 1..Len(rows)
        BY <1>1, Reads
      <3> QED
        BY <3>2, <3>3
    <2> QED
      BY <2>1, <2>2 DEF TransformsInv, TokensInv
  <1> QED
    BY <1>1, <1>2, <1>3, <1>4, <1>5, <1>8, <1>9 DEF TransformsInv

\* A transform that rewrites the rows, after the validation.
LEMMA RewritingKeeps ==
  ASSUME TransformsInv, NEW name \in Names, NEW result \in Seq(RowType), Apply(name, result),
         seen' = seen, batch' \in {"none", "made", "failed"},
         After("validation"), Len(result) = Len(rows),
         \A i \in 1..Len(rows) : SameId(result[i], rows[i]),
         After("tokenization")' =>
           \A i \in 1..Len(rows) :
             Len(result[i].ids) <= MaxLength /\ (pipe.kind = "decoder" => LossOK(pipe, result[i]))
  PROVE  TransformsInv'
  <1>1. /\ TypedInv /\ pipe.kind \in Kinds /\ seen \in Seq(RowType)
        /\ Ordered(rows) /\ Ordered(seen) /\ Len(todo) \in Nat
    BY PipeIs, LenProperties DEF TransformsInv, TypedInv, TodoOK
  <1>2. Ordered(result)
    BY <1>1, OrderedMapped
  <1>3. /\ Len(todo') = Len(todo) - 1 /\ pipe' = pipe /\ input' = input /\ rows' = result
    BY <1>1, Turned
  <1>4. TypedInv'
    BY <1>1, TypedStep
  <1>5. After("deduplication")
    BY <1>1, TurnsAre DEF After
  <1>6. After("deduplication")' /\ After("validation")' /\ DocumentsInv'
    BY <1>3, <1>5, LaterDocuments
  <1>7. DropsOK(pipe, seen, rows, ~ After("validation"))
    BY <1>5 DEF TransformsInv, DropsInv
  <1>8. DropsOK(pipe, seen, result, FALSE)
    BY <1>7, DropsMapped
  <1>9. DropsInv'
    <2>1. DropsOK(pipe, seen, rows, ~ After("validation"))' <=> DropsOK(pipe, seen, result, FALSE)
      BY <1>3, <1>6
    <2> QED
      BY <2>1, <1>8 DEF DropsInv
  <1>10. TokensInv'
    BY <1>3 DEF TokensInv
  <1> QED
    BY <1>1, <1>2, <1>3, <1>4, <1>6, <1>9, <1>10 DEF TransformsInv

\* The exclusion drops what is in the benchmark.
LEMMA ExclusionKeeps == TransformsInv /\ Exclusion => TransformsInv'
  <1> SUFFICES ASSUME TransformsInv, Exclusion PROVE TransformsInv'
    OBVIOUS
  <1> DEFINE I == {i \in DOMAIN rows : rows[i].key \notin Bench}
  <1>1. TypedInv /\ pipe.kind \in Kinds
    BY PipeIs DEF TransformsInv, TypedInv
  <1>2. Apply("exclusion", Kept(rows, I)) /\ UNCHANGED <<seen, batch>>
    BY DEF Exclusion, Such
  <1>3. /\ "exclusion" \in DOMAIN Turn(pipe.kind)
        /\ Len(todo) = Turn(pipe.kind)["exclusion"]
    BY <1>1, <1>2, Turned DEF Names
  <1>4. /\ pipe.kind # "index" /\ Turn(pipe.kind)["exclusion"] # 3
        /\ After("deduplication") /\ ~ After("validation")
    BY <1>1, <1>3, TurnsAre DEF After
  <1>5. I \subseteq DOMAIN rows /\ \A k \in DOMAIN rows \ I : RejectedBy(pipe, rows[k])
    BY <1>4 DEF RejectedBy
  <1> HIDE DEF I
  <1> QED
    BY <1>2, <1>4, <1>5, FilterKeeps DEF Names

\* The validation drops what is not valid.
LEMMA ValidationKeeps == TransformsInv /\ Validation => TransformsInv'
  <1> SUFFICES ASSUME TransformsInv, Validation PROVE TransformsInv'
    OBVIOUS
  <1> DEFINE I == {i \in DOMAIN rows : Valid(rows[i])}
  <1>1. TypedInv /\ pipe.kind \in Kinds
    BY PipeIs DEF TransformsInv, TypedInv
  <1>2. Apply("validation", Kept(rows, I)) /\ UNCHANGED <<seen, batch>>
    BY DEF Validation, Such
  <1>3. Len(todo) = Turn(pipe.kind)["validation"]
    BY <1>1, <1>2, Turned DEF Names
  <1>4. /\ Turn(pipe.kind)["validation"] # 3
        /\ After("deduplication") /\ ~ After("validation")
    BY <1>1, <1>3, TurnsAre DEF After
  <1>5. I \subseteq DOMAIN rows /\ \A k \in DOMAIN rows \ I : ~ Valid(rows[k])
    OBVIOUS
  <1>6. ASSUME NEW k \in DOMAIN rows \ I PROVE RejectedBy(pipe, rows[k])
    <2>1. ~ Valid(rows[k])
      BY <1>5
    <2> QED
      BY <2>1, <1>1 DEF Valid, RejectedBy, Kinds
  <1> HIDE DEF I
  <1> QED
    BY <1>2, <1>4, <1>5, <1>6, FilterKeeps DEF Names

\* The length filter drops nothing: the tokens were truncated to max_length.
LEMMA LengthFilterKeeps == TransformsInv /\ LengthFilter => TransformsInv'
  <1> SUFFICES ASSUME TransformsInv, LengthFilter PROVE TransformsInv'
    OBVIOUS
  <1> DEFINE I == {i \in DOMAIN rows : Len(rows[i].ids) <= MaxLength}
  <1>1. TypedInv /\ pipe.kind \in Kinds /\ rows \in Seq(RowType)
    BY PipeIs DEF TransformsInv, TypedInv
  <1>2. Apply("length", Kept(rows, I)) /\ UNCHANGED <<seen, batch>>
    BY DEF LengthFilter, Such
  <1>3. Len(todo) = Turn(pipe.kind)["length"]
    BY <1>1, <1>2, Turned DEF Names
  <1>4. /\ Turn(pipe.kind)["length"] # 3
        /\ After("deduplication") /\ After("tokenization")
    BY <1>1, <1>3, TurnsAre DEF After
  <1>5. DOMAIN rows = 1..Len(rows) /\ \A i \in 1..Len(rows) : Len(rows[i].ids) <= MaxLength
    BY <1>1, <1>4, Reads DEF TransformsInv, TokensInv
  <1>6. I = DOMAIN rows
    BY <1>5
  <1> HIDE DEF I
  <1> QED
    BY <1>2, <1>4, <1>6, FilterKeeps DEF Names

\* The template is put around a valid prompt.
LEMMA PromptFormattingKeeps == TransformsInv /\ PromptFormatting => TransformsInv'
  <1> SUFFICES ASSUME TransformsInv, PromptFormatting PROVE TransformsInv'
    OBVIOUS
  <1> DEFINE result == Map(Formatted, rows)
  <1>1. TypedInv /\ pipe.kind \in Kinds /\ rows \in Seq(RowType)
    BY PipeIs DEF TransformsInv, TypedInv
  <1>2. Apply("prompt_formatting", result) /\ UNCHANGED <<seen, batch>>
    BY DEF PromptFormatting
  <1>3. /\ DOMAIN rows = 1..Len(rows) /\ \A i \in 1..Len(rows) : rows[i] \in RowType
    BY <1>1, Reads
  <1>4. result = [i \in 1..Len(rows) |-> Formatted(rows[i])]
    BY <1>3 DEF Map
  <1> HIDE DEF result
  <1>5. \A i \in 1..Len(rows) : result[i] \in RowType /\ SameId(result[i], rows[i])
    BY <1>3, <1>4, FormattedIs DEF SameId
  <1>6. result \in Seq(RowType) /\ Len(result) = Len(rows)
    <2>1. result \in [DOMAIN rows -> RowType]
      BY <1>3, <1>4, <1>5
    <2> QED
      BY <2>1, <1>1, Mapped
  <1>7. /\ "prompt_formatting" \in DOMAIN Turn(pipe.kind)
        /\ Len(todo) = Turn(pipe.kind)["prompt_formatting"]
        /\ Len(todo') = Len(todo) - 1 /\ pipe' = pipe
    BY <1>1, <1>2, Turned DEF Names
  <1>8. After("validation") /\ ~ After("tokenization")'
    BY <1>1, <1>7, TurnsAre DEF After
  <1>9. batch \in {"none", "made", "failed"}
    BY <1>1 DEF TypedInv
  <1> QED
    BY <1>2, <1>5, <1>6, <1>8, <1>9, RewritingKeeps DEF Names

\* The tokens are those of the formatted row.
LEMMA TokenizationKeeps == TransformsInv /\ Tokenization => TransformsInv'
  <1> SUFFICES ASSUME TransformsInv, Tokenization PROVE TransformsInv'
    OBVIOUS
  <1> DEFINE result == Map(Tokenized, rows)
  <1>1. TypedInv /\ pipe \in Pipelines /\ pipe.kind \in Kinds /\ rows \in Seq(RowType)
    BY PipeIs DEF TransformsInv, TypedInv
  <1>2. Apply("tokenization", result) /\ UNCHANGED <<seen, batch>>
    BY DEF Tokenization
  <1>3. /\ DOMAIN rows = 1..Len(rows) /\ \A i \in 1..Len(rows) : rows[i] \in RowType
    BY <1>1, Reads
  <1>4. result = [i \in 1..Len(rows) |-> Tokenized(rows[i])]
    BY <1>3 DEF Map
  <1> HIDE DEF result
  <1>5. ASSUME NEW i \in 1..Len(rows)
        PROVE  /\ result[i] \in RowType /\ SameId(result[i], rows[i])
               /\ Len(result[i].ids) <= MaxLength
               /\ pipe.kind = "decoder" => LossOK(pipe, result[i])
    <2>1. result[i] = Tokenized(rows[i]) /\ rows[i] \in RowType
      BY <1>3, <1>4
    <2> QED
      BY <2>1, <1>1, TokenizedIs
  <1>6. result \in Seq(RowType) /\ Len(result) = Len(rows)
    <2>1. result \in [DOMAIN rows -> RowType]
      BY <1>3, <1>4, <1>5
    <2> QED
      BY <2>1, <1>1, Mapped
  <1>7. Len(todo) = Turn(pipe.kind)["tokenization"]
    BY <1>1, <1>2, Turned DEF Names
  <1>8. After("validation")
    BY <1>1, <1>7, TurnsAre DEF After
  <1>9. batch \in {"none", "made", "failed"}
    BY <1>1 DEF TypedInv
  <1> QED
    BY <1>2, <1>5, <1>6, <1>8, <1>9, RewritingKeeps DEF Names

\* The collator leaves the rows alone.
LEMMA CollateKeeps == TransformsInv /\ Collate => TransformsInv'
  <1> SUFFICES ASSUME TransformsInv, Collate PROVE TransformsInv'
    OBVIOUS
  <1>1. TypedInv /\ pipe.kind \in Kinds /\ rows \in Seq(RowType)
    BY PipeIs DEF TransformsInv, TypedInv
  <1>2. /\ Apply("collate", rows) /\ seen' = seen /\ batch' \in {"none", "made", "failed"}
    BY DEF Collate
  <1>3. Len(todo) = Turn(pipe.kind)["collate"]
    BY <1>1, <1>2, Turned DEF Names
  <1>4. After("validation") /\ After("tokenization")
    BY <1>1, <1>3, TurnsAre DEF After
  <1>5. /\ \A i \in 1..Len(rows) : SameId(rows[i], rows[i])
        /\ \A i \in 1..Len(rows) :
             Len(rows[i].ids) <= MaxLength /\ (pipe.kind = "decoder" => LossOK(pipe, rows[i]))
    BY <1>4 DEF SameId, TransformsInv, TokensInv
  <1> QED
    BY <1>1, <1>2, <1>4, <1>5, RewritingKeeps DEF Names

\* A batch is made of tokens.
BatchInv == batch # "none" => After("tokenization")

\* Only the collator makes a batch.
LEMMA BatchKeeps ==
  ASSUME TypedInv, BatchInv, NEW name \in Names, NEW result, Apply(name, result),
         batch' = batch \/ name = "collate"
  PROVE  BatchInv'
  <1>1. /\ pipe.kind \in Kinds /\ Len(todo) = Turn(pipe.kind)[name]
        /\ Len(todo) \in Nat /\ Len(todo') = Len(todo) - 1 /\ pipe' = pipe
    BY PipeIs, Turned, LenProperties DEF TypedInv, TodoOK
  <1>2. CASE batch' = batch
    BY <1>1, <1>2, TurnsAre DEF BatchInv, After
  <1>3. CASE name = "collate"
    BY <1>1, <1>3, TurnsAre DEF BatchInv, After
  <1> QED
    BY <1>2, <1>3

\* Every transform keeps the invariant.
LEMMA TransformsNextKeeps ==
  TransformsInv /\ BatchInv /\ [TransformsNext]_transforms => TransformsInv' /\ BatchInv'
  <1> SUFFICES ASSUME TransformsInv, BatchInv, [TransformsNext]_transforms
               PROVE  TransformsInv' /\ BatchInv'
    OBVIOUS
  <1>1. TypedInv
    BY DEF TransformsInv
  <1>2. CASE Cleaning
    BY <1>1, <1>2, CleaningKeeps, BatchKeeps DEF Cleaning, Names
  <1>3. CASE Chunking
    BY <1>1, <1>3, ChunkingKeeps, BatchKeeps DEF Chunking, Names
  <1>4. CASE MetadataInjector
    BY <1>1, <1>4, MetadataKeeps, BatchKeeps DEF MetadataInjector, Names
  <1>5. CASE Deduplication
    BY <1>1, <1>5, DeduplicationKeeps, BatchKeeps DEF Deduplication, Names
  <1>6. CASE Exclusion
    BY <1>1, <1>6, ExclusionKeeps, BatchKeeps DEF Exclusion, Names
  <1>7. CASE Validation
    BY <1>1, <1>7, ValidationKeeps, BatchKeeps DEF Validation, Names
  <1>8. CASE PromptFormatting
    BY <1>1, <1>8, PromptFormattingKeeps, BatchKeeps DEF PromptFormatting, Names
  <1>9. CASE Tokenization
    BY <1>1, <1>9, TokenizationKeeps, BatchKeeps DEF Tokenization, Names
  <1>10. CASE LengthFilter
    BY <1>1, <1>10, LengthFilterKeeps, BatchKeeps DEF LengthFilter, Names
  <1>11. CASE Collate
    BY <1>1, <1>11, CollateKeeps, BatchKeeps DEF Collate, Names
  <1>12. CASE UNCHANGED transforms
    BY <1>12
    DEF transforms, TransformsInv, BatchInv, TypedInv, TodoOK, DocumentsInv, DropsInv, TokensInv,
        After
  <1> QED
    BY <1>2, <1>3, <1>4, <1>5, <1>6, <1>7, <1>8, <1>9, <1>10, <1>11, <1>12 DEF TransformsNext

\* The invariant holds of every run of a pipeline.
LEMMA TransformsHold == TransformsSpec => [](TransformsInv /\ BatchInv)
  <1>1. TransformsInit => TransformsInv /\ BatchInv
    BY TransformsStart DEF TransformsInit, BatchInv
  <1> QED
    BY <1>1, TransformsNextKeeps, PTL DEF TransformsSpec

-----------------------------------------------------------------------------
(* What follows from the invariant.                                        *)

\* All transforms have had their turn.
LEMMA AllAfter ==
  ASSUME TransformsInv, todo = <<>>
  PROVE  After("deduplication")
  <1>1. pipe.kind \in Kinds /\ Len(todo) = 0
    BY PipeIs DEF TransformsInv, TypedInv
  <1> QED
    BY <1>1, TurnsAre DEF After

\* The properties say of rows and pipe what the lemmas say of any.
LEMMA SameWords ==
  ASSUME TransformsInv
  PROVE  /\ \A r : Survives(r) <=> SurvivesIn(rows, r)
         /\ \A r : Rejected(r) <=> RejectedBy(pipe, r)
         /\ \A a, b : Similar(a, b) <=> Like(pipe, a, b)
  <1>1. pipe.kind \in Kinds /\ DOMAIN rows = 1..Len(rows)
    BY PipeIs, Reads DEF TransformsInv, TypedInv
  <1>2. ASSUME NEW r PROVE Survives(r) <=> SurvivesIn(rows, r)
    <2>1. \A i : <<rows[i].src, rows[i].to>> = <<r.src, r.to>> <=> SameId(rows[i], r)
      BY DEF SameId
    <2> QED
      BY <2>1, <1>1 DEF Survives, SurvivesIn
  <1>3. ASSUME NEW r PROVE Rejected(r) <=> RejectedBy(pipe, r)
    BY <1>1 DEF Rejected, RejectedBy, Valid, Kinds
  <1>4. ASSUME NEW a, NEW b PROVE Similar(a, b) <=> Like(pipe, a, b)
    BY DEF Similar, Like
  <1> QED
    BY <1>2, <1>3, <1>4

\* Each of the three properties follows from it.
LEMMA DropsFollow == TransformsInv => DropsExplained
  <1> SUFFICES ASSUME TransformsInv, todo = <<>>
               PROVE  /\ \A i \in DOMAIN seen :
                           \/ Survives(seen[i])
                           \/ Rejected(seen[i])
                           \/ \E j \in 1..i - 1 :
                                /\ Similar(seen[j], seen[i])
                                /\ Survives(seen[j]) \/ Rejected(seen[j])
                      /\ \A i, j \in DOMAIN seen :
                           i < j /\ Survives(seen[i]) /\ Survives(seen[j])
                             => ~ Similar(seen[i], seen[j])
    BY DEF DropsExplained
  <1>1. /\ seen \in Seq(RowType) /\ Ordered(seen)
        /\ DOMAIN seen = 1..Len(seen) /\ Len(seen) \in Nat
    BY Reads DEF TransformsInv, TypedInv
  <1>2. DropsOK(pipe, seen, rows, ~ After("validation"))
    BY AllAfter DEF TransformsInv, DropsInv
  <1>3. PICK O : /\ Chosen(pipe, seen, O) /\ From(seen, rows, O, ~ After("validation"))
                 /\ Missing(pipe, seen, rows, O)
    BY <1>2 DEF DropsOK
  <1>4. /\ O \in SUBSET (1..Len(seen))
        /\ \A n \in 1..Len(seen) : n \in O <=> \A i \in O : i < n => ~ Like(pipe, seen[i], seen[n])
    BY <1>3 DEF Chosen
  <1>5. \A i \in O : SurvivesIn(rows, seen[i]) \/ RejectedBy(pipe, seen[i])
    BY <1>3 DEF Missing
  <1>6. ASSUME NEW i \in 1..Len(seen), SurvivesIn(rows, seen[i]) PROVE i \in O
    <2>1. PICK k \in 1..Len(rows) : SameId(rows[k], seen[i])
      BY <1>6 DEF SurvivesIn
    <2>2. PICK j \in O : SameId(rows[k], seen[j])
      BY <1>3 DEF From
    <2>3. j \in 1..Len(seen) /\ seen[i].src = seen[j].src /\ seen[i].to = seen[j].to
      BY <2>1, <2>2, <1>4 DEF SameId
    <2> QED
      BY <2>2, <2>3, <1>1, OwnPlace
  <1>7. ASSUME NEW i \in 1..Len(seen)
        PROVE  \/ Survives(seen[i])
               \/ Rejected(seen[i])
               \/ \E j \in 1..i - 1 :
                    Similar(seen[j], seen[i]) /\ (Survives(seen[j]) \/ Rejected(seen[j]))
    <2>1. CASE i \in O
      BY <2>1, <1>5, SameWords
    <2>2. CASE i \notin O
      <3>1. PICK j \in O : j < i /\ Like(pipe, seen[j], seen[i])
        BY <2>2, <1>4
      <3>2. j \in 1..i - 1
        BY <3>1, <1>1, <1>4
      <3> QED
        BY <3>1, <3>2, <1>5, SameWords
    <2> QED
      BY <2>1, <2>2
  <1>8. ASSUME NEW i \in 1..Len(seen), NEW j \in 1..Len(seen),
               i < j, Survives(seen[i]), Survives(seen[j])
        PROVE  ~ Similar(seen[i], seen[j])
    <2>1. i \in O /\ j \in O
      BY <1>6, <1>8, SameWords
    <2> QED
      BY <2>1, <1>4, <1>8, SameWords
  <1> QED
    BY <1>1, <1>7, <1>8

\* The chunks of a document are its own rows, as the deduplication found them.
LEMMA ChunksFollow == TransformsInv => ChunksCover
  <1> SUFFICES ASSUME TransformsInv, pipe.kind = "index", seen # <<>>, NEW d \in DOMAIN input
               PROVE  LET words == Clean(input[d].key)
                          chunks == Such(seen, LAMBDA r : r.src = d)
                          N == Len(chunks)
                      IN  /\ N > 0 /\ chunks[1].from = 1 /\ chunks[N].to = Len(words)
                          /\ \A c \in 1..N :
                               LET k == chunks[c]
                               IN  /\ k.key = (IF k.meta THEN Metadata ELSE <<>>)
                                              \o SubSeq(words, k.from, k.to)
                                   /\ k.from <= k.to =>
                                        Cost(words, k.from, k.to) - 1
                                          < ChunkSize + Width[words[k.to]]
                          /\ \A c \in 1..N - 1 :
                               LET next == chunks[c + 1]
                               IN  /\ next.from \in chunks[c].from..chunks[c].to + 1
                                   /\ chunks[c].to < next.to
                                   /\ Cost(words, next.from, chunks[c].to) <= ChunkOverlap
    BY DEF ChunksCover
  <1> DEFINE words == Clean(input[d].key)
             chunks == Kept(seen, Own(seen, d))
  <1>1. After("deduplication")
    BY DEF TransformsInv
  <1>2. AllCovered(input, seen, TRUE)
    BY <1>1 DEF TransformsInv, DocumentsInv
  <1>3. Covered(words, chunks, TRUE)
    BY <1>2 DEF AllCovered
  <1>4. Such(seen, LAMBDA r : r.src = d) = chunks
    BY DEF Such, Own
  <1> HIDE DEF words, chunks
  <1> QED
    BY <1>3, <1>4 DEF Covered, words

\* The tokens that are trained on are those behind prompt_len.
LEMMA LossFollows == TransformsInv /\ BatchInv => LossOnAnswer
  <1> SUFFICES ASSUME TransformsInv, BatchInv, pipe.kind = "decoder", pipe.right,
                      batch = "made", NEW i \in DOMAIN rows
               PROVE  LET r == rows[i]
                          Of(token) == {n \in DOMAIN r.ids : r.ids[n] = token}
                      IN  /\ Trained(r) \cap (Of("prompt") \cup Of("bos")) = {}
                          /\ \A n \in Of("answer") \ Trained(r) :
                               /\ pipe.task = "sft" /\ ~pipe.bos /\ pipe.merges
                               /\ n - 1 \notin Of("answer")
    BY DEF LossOnAnswer
  <1> DEFINE r == rows[i]
             N == Len(r.ids)
  <1>1. After("tokenization")
    BY DEF BatchInv
  <1>2. i \in 1..Len(rows) /\ r \in RowType
    BY Reads DEF TransformsInv, TypedInv
  <1>3. LossOK(pipe, r)
    BY <1>1, <1>2 DEF TransformsInv, TokensInv
  <1>4. N \in Nat /\ DOMAIN r.ids = 1..N /\ r.plen \in Nat
    <2>1. r.ids \in Seq(Token) /\ r.plen \in Nat
      BY <1>2 DEF RowType
    <2> QED
      BY <2>1, Reads
  <1>5. Trained(r) = {n \in 1..N : n > r.plen}
    <2>1. Trained(r) = {n \in DOMAIN r.ids : n + 0 > r.plen}
      BY DEF Trained
    <2> HIDE DEF r, N
    <2> QED
      BY <2>1, <1>4
  <1> HIDE DEF r, N
  <1>6. /\ \A n \in 1..N : r.ids[n] \in {"prompt", "bos"} => n <= r.plen
        /\ \A n \in 1..N :
             r.ids[n] = "answer" /\ n <= r.plen =>
               /\ pipe.task = "sft" /\ ~ pipe.bos /\ pipe.merges
               /\ n - 1 \in 1..N => r.ids[n - 1] # "answer"
    BY <1>3 DEF LossOK, N
  <1> QED
    BY <1>4, <1>5, <1>6 DEF r

(* The types of a run of the pipeline, for every dataset, order of tokens  *)
(* and tokenizer the constants allow.                                      *)
THEOREM TransformsTyped == TransformsSpec => []TypedInv
  <1>1. TransformsInv => TypedInv
    BY DEF TransformsInv
  <1> QED
    BY <1>1, TransformsHold, PTL

(* Nothing is lost without a reason, and nothing is kept twice: for every  *)
(* dataset, benchmark and relation of near duplicates.                     *)
THEOREM DropsHaveReasons == TransformsSpec => []DropsExplained
  BY TransformsHold, DropsFollow, PTL

(* The chunks of every document cover its words, in order, within the      *)
(* bounds of chunk_size and chunk_overlap: for every text and every sizes. *)
THEOREM ChunksCoverText == TransformsSpec => []ChunksCover
  BY TransformsHold, ChunksFollow, PTL

(* With padding on the right the loss is about the answer: for every text, *)
(* template, max_length and tokenizer.                                     *)
THEOREM LossIsOnAnswer == TransformsSpec => []LossOnAnswer
  BY TransformsHold, LossFollows, PTL
=============================================================================
