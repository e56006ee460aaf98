--------------------------- MODULE ReleaseProofs ---------------------------
(***************************************************************************)
(* Proofs about Release for every set of pipelines, jobs, tasks, scores    *)
(* and every schedule: the type invariant, that the registry implements    *)
(* ProductionRegistry, and what the sections of the manifest hold.         *)
(***************************************************************************)
EXTENDS Release, TLAPS

\* A process that runs a script runs a task, and the version it works on is
\* registered (with p its pipeline).
NeedsVersion(r) ==
  \/ r.task[1] = "train" /\ r.pc \in {"stage", "tag"}
  \/ r.task[1] = "promote" /\ r.pc # "staging"
  \/ r.task[1] = "merge" /\ r.pc # "check"

JobOK(r) ==
  /\ r.pc # "idle" => r.task \in Tasks
  /\ NeedsVersion(r) => r.ver \in 1..Len(versions[r.task[2]])

TypeInv == TypeOK /\ \A j \in Jobs : JobOK(job[j])

\* What a directory holds, and what is appended to it, is a sequence of adapters.
LEMMA WeightsOps ==
  /\ <<>> \in Weights
  /\ \A w \in Weights : Append(w, 0) \in Weights
  /\ \A v, w \in Weights : v \o w \in Weights
  /\ \A v \in 0..MaxVersion : <<v>> \in Weights
  BY ReleaseAssumption DEF Weights

\* What a reference names holds weights, also when nothing is there.
LEMMA ContentsType ==
  ASSUME NEW p \in Pipelines, NEW ref, TypeOK
  PROVE  Contents(p, ref) \in Weights
  <1>1. CASE ref \in Dirs
    <2>1. dirs[p][ref] \in Directory
      BY <1>1 DEF TypeOK
    <2> QED
      BY <1>1, <2>1 DEF Contents, Directory
  <1>2. CASE ref \notin Dirs
    BY <1>2, WeightsOps DEF Contents
  <1> QED
    BY <1>1, <1>2

\* The weights the resolver patches into a configuration are weights.
LEMMA ResolvedBaseType ==
  ASSUME NEW p \in Pipelines, NEW s, TypeOK
  PROVE  ResolvedBase(p, s) \in Weights
  BY WeightsOps, ContentsType DEF ResolvedBase

\* A step that gives one job a good record and loses no version keeps all
\* jobs' records good.
LEMMA JobStep ==
  ASSUME TypeInv, NEW j \in Jobs, NEW r \in Job,
         job' = [job EXCEPT ![j] = r],
         JobOK(r)',
         \A p \in Pipelines : Len(versions[p]) <= Len(versions'[p]),
         \A p \in Pipelines : Len(versions[p]) \in Nat /\ Len(versions'[p]) \in Nat
  PROVE  job' \in [Jobs -> Job] /\ \A i \in Jobs : JobOK(job[i])'
  <1>1. job \in [Jobs -> Job]
    BY DEF TypeInv, TypeOK
  <1>2. job' \in [Jobs -> Job] /\ job'[j] = r
    BY <1>1
  <1>4. JobOK(job[j])'
    BY <1>2 DEF JobOK, NeedsVersion
  <1>3. ASSUME NEW i \in Jobs, i # j PROVE JobOK(job[i])'
    <2>1. job'[i] = job[i] /\ JobOK(job[i])
      BY <1>1, <1>3 DEF TypeInv
    <2>2. job[i] \in Job
      BY <1>1
    <2>3. NeedsVersion(job[i]) => job[i].task[2] \in Pipelines
      <3>1. job[i].task \in Tasks \/ job[i].task = <<"idle", "none">>
        BY <2>2 DEF Job, IdleJob
      <3> QED
        BY <3>1, ReleaseAssumption DEF NeedsVersion
    <2>4. NeedsVersion(job[i]) => job[i].ver \in 1..Len(versions'[job[i].task[2]])
      BY <2>1, <2>3 DEF JobOK
    <2> QED
      BY <2>1, <2>4 DEF JobOK, NeedsVersion
  <1> QED
    BY <1>2, <1>3, <1>4

\* The case of a step that leaves the registered versions alone.
LEMMA JobStepSame ==
  ASSUME TypeInv, NEW j \in Jobs, NEW r \in Job,
         job' = [job EXCEPT ![j] = r], JobOK(r), UNCHANGED versions
  PROVE  job' \in [Jobs -> Job] /\ \A i \in Jobs : JobOK(job[i])'
  <1>1. \A p \in Pipelines : Len(versions[p]) \in Nat
    BY DEF TypeInv, TypeOK
  <1>2. JobOK(r)'
    BY DEF JobOK, NeedsVersion
  <1>3. /\ \A p \in Pipelines : Len(versions[p]) <= Len(versions'[p])
        /\ \A p \in Pipelines : Len(versions[p]) \in Nat /\ Len(versions'[p]) \in Nat
    BY <1>1
  <1> QED
    BY <1>2, <1>3, JobStep

\* A step that changes nothing but the record of one job.
LEMMA LocalStep ==
  ASSUME TypeInv, NEW j \in Jobs, NEW r \in Job,
         job' = [job EXCEPT ![j] = r], JobOK(r), UNCHANGED <<registry, dirs, manifest>>
  PROVE  TypeInv'
  <1>1. job' \in [Jobs -> Job] /\ \A i \in Jobs : JobOK(job[i])'
    BY JobStepSame DEF registry
  <1>2. TypeOK'
    BY <1>1 DEF TypeInv, TypeOK, registry
  <1> QED
    BY <1>1, <1>2 DEF TypeInv

\* What the type invariant says of a running script.
LEMMA JobFacts ==
  ASSUME TypeInv, NEW j \in Jobs
  PROVE  /\ job \in [Jobs -> Job] /\ job[j] \in Job
         /\ job[j].ver \in 0..MaxVersion /\ job[j].out \in Weights
         /\ job[j].man \in Manifest /\ job[j].dst \in Dirs \cup {NoRef}
         /\ job[j].verdict \in {"none", "better", "same", "worse"}
         /\ job[j].pc # "idle" =>
              /\ job[j].task \in Tasks /\ Kind(j) \in Kinds /\ Pipe(j) \in Pipelines
         /\ NeedsVersion(job[j]) => job[j].ver \in 1..Len(versions[Pipe(j)])
  <1>1. job \in [Jobs -> Job] /\ job[j] \in Job /\ JobOK(job[j])
    BY DEF TypeInv, TypeOK
  <1>2. job[j].task \in Tasks => Kind(j) \in Kinds /\ Pipe(j) \in Pipelines
    BY ReleaseAssumption DEF Kind, Pipe
  <1> QED
    BY <1>1, <1>2 DEF JobOK, Job, Pipe

\* The record of a free slot and the empty manifest have their types.
LEMMA IdleJobType == IdleJob \in Job /\ JobOK(IdleJob) /\ NoManifest \in Manifest
  <1>1. EmptySection \in Section
    BY DEF EmptySection, Section, Refs, NoRef
  <1>2. NoManifest \in Manifest
    BY <1>1 DEF NoManifest, Manifest
  <1>3. IdleJob \in Job
    BY <1>2, WeightsOps, ReleaseAssumption DEF IdleJob, Job, Pcs
  <1>4. JobOK(IdleJob)
    BY DEF JobOK, NeedsVersion, IdleJob
  <1> QED
    BY <1>2, <1>3, <1>4

\* The initial state satisfies the inductive invariant.
LEMMA TypeInit == Init => TypeInv
  <1> SUFFICES ASSUME Init PROVE TypeInv
    OBVIOUS
  <1>1. AbsentDir \in Directory
    BY WeightsOps DEF AbsentDir, Directory
  <1>2. TypeOK
    BY <1>1, IdleJobType, ReleaseAssumption DEF Init, TypeOK
  <1>3. ASSUME NEW j \in Jobs PROVE JobOK(job[j])
    BY IdleJobType DEF Init
  <1> QED
    BY <1>2, <1>3 DEF TypeInv
-----------------------------------------------------------------------------
(* Every action keeps the type invariant.                                  *)

\* A script that starts keeps it.
LEMMA TypeStart ==
  ASSUME TypeInv, NEW j \in Jobs, NEW task \in Tasks, Start(j, task)
  PROVE  TypeInv'
  <1> DEFINE r == [IdleJob EXCEPT !.task = task, !.pc = FirstStep(task[1])]
  <1>1. r \in Job
    BY IdleJobType DEF Job, FirstStep, Pcs
  <1>2. JobOK(r)
    BY DEF JobOK, NeedsVersion, FirstStep, IdleJob
  <1>3. job' = [job EXCEPT ![j] = r]
    BY DEF Start
  <1> QED
    BY <1>1, <1>2, <1>3, LocalStep DEF Start

\* A script that dies or gives up keeps it: its slot is free again.
LEMMA TypeStop ==
  ASSUME TypeInv, NEW j \in Jobs, Stop(j)
  PROVE  TypeInv'
  BY IdleJobType, LocalStep DEF Stop, Finish

\* The steps of a trainer keep it; the new alias names the new version.
LEMMA TypeTrain ==
  ASSUME TypeInv, NEW j \in Jobs, Train(j)
  PROVE  TypeInv'
  <1>1. job[j] \in Job /\ job[j].task \in Tasks /\ Pipe(j) \in Pipelines
        /\ Kind(j) = "train"
    BY JobFacts DEF Train, TrainResolve, Register, SetStaging, SetTag, At
  <1>2. CASE TrainResolve(j)
    <2> DEFINE r == [job[j] EXCEPT !.pc = "register",
                                   !.out = ResolvedBase(Pipe(j), manifest[Pipe(j)])]
    <2>1. ResolvedBase(Pipe(j), manifest[Pipe(j)]) \in Weights
      BY <1>1, ResolvedBaseType DEF TypeInv
    <2>2. r \in Job
      BY <1>1, <2>1 DEF Job, Pcs
    <2>3. JobOK(r)
      BY <1>1 DEF JobOK, NeedsVersion, Kind
    <2>4. job' = [job EXCEPT ![j] = r]
      BY <1>2 DEF TrainResolve
    <2> QED
      BY <1>2, <2>2, <2>3, <2>4, LocalStep DEF TrainResolve
  <1>3. CASE Register(j)
    <2>1. PICK p, n, new : p = Pipe(j) /\ n = Len(versions[p]) + 1
                           /\ new = [tag |-> NoTag, on |-> job[j].out]
      OBVIOUS
    <2>2. /\ p \in Pipelines /\ new \in Version
          /\ versions \in [Pipelines -> Seq(Version)]
          /\ versions[p] \in Seq(Version) /\ n \in Nat /\ n <= MaxVersion
      <3>1. versions \in [Pipelines -> Seq(Version)]
        BY DEF TypeInv, TypeOK
      <3>2. job[j].out \in Weights
        BY JobFacts
      <3>3. Len(versions[p]) < MaxVersion
        BY <1>3, <2>1 DEF Register
      <3>4. new \in Version
        BY <2>1, <3>2 DEF Version
      <3>5. p \in Pipelines /\ versions[p] \in Seq(Version)
        BY <1>1, <2>1, <3>1
      <3> QED
        BY <2>1, <3>1, <3>3, <3>4, <3>5, ReleaseAssumption
    <2>3. /\ versions' = [versions EXCEPT ![p] = Append(versions[p], new)]
          /\ UNCHANGED <<staging, production, dirs, manifest>>
      BY <1>3, <2>1 DEF Register
    <2>4. versions' \in [Pipelines -> Seq(Version)]
      BY <2>2, <2>3
    <2>5. \A q \in Pipelines :
            /\ Len(versions[q]) \in Nat /\ Len(versions'[q]) \in Nat
            /\ Len(versions'[q]) = IF q = p THEN n ELSE Len(versions[q])
            /\ Len(versions[q]) <= Len(versions'[q])
      BY <2>1, <2>2, <2>3
    <2>6. PICK r, pc : /\ pc \in {"stage", "register"}
                       /\ r = [job[j] EXCEPT !.pc = pc, !.ver = n]
                       /\ job' = [job EXCEPT ![j] = r]
      <3>1. PICK pc \in {"stage", "register"} :
              job' = [job EXCEPT ![j].pc = pc, ![j].ver = n]
        BY <1>3, <2>1 DEF Register
      <3>2. job' = [job EXCEPT ![j] = [job[j] EXCEPT !.pc = pc, !.ver = n]]
        BY <3>1
      <3> QED
        BY <3>2
    <2>7. r \in Job
      <3>1. n \in 0..MaxVersion /\ pc \in Pcs
        BY <2>2, <2>6, ReleaseAssumption DEF Pcs
      <3> QED
        BY <1>1, <2>6, <3>1 DEF Job
    <2>8. r.task = job[j].task /\ r.ver = n /\ r.task \in Tasks /\ r.task[2] = p
      BY <1>1, <2>1, <2>6 DEF Job, Pipe
    <2>9. n \in 1..Len(versions'[p])
      BY <2>1, <2>2, <2>5
    <2>10. JobOK(r)'
      BY <2>8, <2>9 DEF JobOK, NeedsVersion
    <2>11. job' \in [Jobs -> Job] /\ \A i \in Jobs : JobOK(job[i])'
      BY <2>5, <2>6, <2>7, <2>10, JobStep
    <2>12. \A q \in Pipelines :
             /\ Len(versions'[q]) <= MaxVersion
             /\ staging'[q] \in 0..Len(versions'[q])
             /\ production'[q] \in 0..Len(versions'[q])
      BY <2>2, <2>3, <2>5 DEF TypeInv, TypeOK
    <2>13. TypeOK'
      BY <2>3, <2>4, <2>11, <2>12 DEF TypeInv, TypeOK
    <2> QED
      BY <2>11, <2>13 DEF TypeInv
  <1>4. CASE SetStaging(j)
    <2> DEFINE r == [job[j] EXCEPT !.pc = "tag"]
    <2>1. job[j].ver \in 1..Len(versions[Pipe(j)])
      BY <1>4, JobFacts DEF SetStaging, At, Kind, NeedsVersion
    <2>2. r \in Job /\ JobOK(r)
      BY <1>1, <2>1 DEF Job, Pcs, JobOK, NeedsVersion, Pipe
    <2>3. job' \in [Jobs -> Job] /\ \A i \in Jobs : JobOK(job[i])'
      BY <1>4, <2>2, JobStepSame DEF SetStaging, Goto
    <2>4. \A q \in Pipelines : staging'[q] \in 0..Len(versions[q])
      <3>1. \A q \in Pipelines : /\ Len(versions[q]) \in Nat
                                 /\ staging'[q] \in {staging[q]} \cup 1..Len(versions[q])
                                 /\ staging[q] \in 0..Len(versions[q])
        BY <1>1, <1>4, <2>1 DEF SetStaging, TypeInv, TypeOK
      <3> QED
        BY <3>1
    <2>5. staging' \in [Pipelines -> 0..MaxVersion]
      <3>1. staging \in [Pipelines -> 0..MaxVersion] /\ job[j].ver \in 0..MaxVersion
        BY JobFacts DEF TypeInv, TypeOK
      <3> QED
        BY <1>4, <3>1 DEF SetStaging
    <2>6. TypeOK'
      BY <1>4, <2>3, <2>4, <2>5 DEF SetStaging, TypeInv, TypeOK
    <2> QED
      BY <2>3, <2>6 DEF TypeInv
  <1>5. ASSUME NEW score \in Scores, SetTag(j, score) PROVE TypeInv'
    <2>1. PICK p, v : p = Pipe(j) /\ v = job[j].ver
      OBVIOUS
    <2>2. v \in 1..Len(versions[p]) /\ p \in Pipelines
      BY <1>1, <1>5, <2>1, JobFacts DEF SetTag, At, Kind, NeedsVersion
    <2>3. versions \in [Pipelines -> Seq(Version)]
      BY DEF TypeInv, TypeOK
    <2>4. versions[p] \in Seq(Version) /\ versions[p][v] \in Version
      BY <2>2, <2>3
    <2>5. PICK tagged : tagged = [versions[p] EXCEPT ![v].tag = score]
      OBVIOUS
    <2>6. [versions[p][v] EXCEPT !.tag = score] \in Version
      BY <2>4 DEF Version
    <2>7. tagged \in Seq(Version) /\ Len(tagged) = Len(versions[p])
      BY <2>2, <2>4, <2>5, <2>6
    <2>8. versions' = [versions EXCEPT ![p] = tagged]
      BY <1>5, <2>1, <2>5 DEF SetTag
    <2>9. \A q \in Pipelines : Len(versions'[q]) = Len(versions[q])
                               /\ Len(versions[q]) \in Nat
      BY <2>2, <2>3, <2>7, <2>8
    <2>10. JobOK(IdleJob)'
      BY IdleJobType DEF JobOK, NeedsVersion, IdleJob
    <2>11. PICK r : r = IdleJob /\ job' = [job EXCEPT ![j] = r]
      BY <1>5 DEF SetTag, Finish
    <2>12. job' \in [Jobs -> Job] /\ \A i \in Jobs : JobOK(job[i])'
      <3>1. \A q \in Pipelines : Len(versions[q]) <= Len(versions'[q])
        BY <2>9
      <3>2. \A q \in Pipelines : Len(versions[q]) \in Nat /\ Len(versions'[q]) \in Nat
        BY <2>9
      <3>3. JobOK(r)' /\ r \in Job
        BY <2>10, <2>11, IdleJobType
      <3> QED
        BY <2>11, <3>1, <3>2, <3>3, JobStep
    <2>13. versions' \in [Pipelines -> Seq(Version)]
      BY <2>2, <2>3, <2>7, <2>8
    <2>14. TypeOK'
      BY <1>5, <2>9, <2>12, <2>13 DEF SetTag, TypeInv, TypeOK
    <2> QED
      BY <2>12, <2>14 DEF TypeInv
  <1> QED
    BY <1>2, <1>3, <1>4, <1>5 DEF Train

\* The steps of promote keep it.
LEMMA TypePromote ==
  ASSUME TypeInv, NEW j \in Jobs, Promote(j)
  PROVE  TypeInv'
  <1>1. /\ job[j] \in Job /\ job[j].task \in Tasks /\ Pipe(j) \in Pipelines
        /\ Kind(j) = "promote"
    BY JobFacts DEF Promote, ReadStaging, Compare, SetProduction, LoadAdapter, At
  <1>2. /\ Len(versions[Pipe(j)]) \in Nat /\ Len(versions[Pipe(j)]) <= MaxVersion
        /\ staging[Pipe(j)] \in 0..Len(versions[Pipe(j)])
        /\ production[Pipe(j)] \in 0..Len(versions[Pipe(j)])
    BY <1>1 DEF TypeInv, TypeOK
  <1>3. job[j].pc # "staging" => job[j].ver \in 1..Len(versions[Pipe(j)])
    BY <1>1, JobFacts DEF NeedsVersion, Kind
  <1>4. CASE ReadStaging(j)
    <2> DEFINE r == [job[j] EXCEPT !.pc = "compare", !.ver = staging[Pipe(j)]]
    <2>1. staging[Pipe(j)] \in 1..Len(versions[Pipe(j)])
      BY <1>2, <1>4 DEF ReadStaging
    <2>2. staging[Pipe(j)] \in 0..MaxVersion
      BY <1>2, <2>1, ReleaseAssumption
    <2>3. r \in Job
      BY <1>1, <2>2 DEF Job, Pcs
    <2>4. JobOK(r)
      BY <1>1, <2>1 DEF JobOK, NeedsVersion, Pipe
    <2>5. job' = [job EXCEPT ![j] = r]
      BY <1>4 DEF ReadStaging
    <2> QED
      BY <1>4, <2>3, <2>4, <2>5, LocalStep DEF ReadStaging
  <1>5. CASE Compare(j)
    <2>1. PICK verdict \in {"same", "better", "worse"} :
            job' = [job EXCEPT ![j].pc = IF verdict = "better" THEN "set" ELSE "read",
                               ![j].verdict = verdict]
      BY <1>5 DEF Compare, Verdict
    <2> DEFINE r == [job[j] EXCEPT !.pc = IF verdict = "better" THEN "set" ELSE "read",
                                   !.verdict = verdict]
    <2>2. r \in Job
      BY <1>1 DEF Job, Pcs
    <2>3. job[j].pc = "compare"
      BY <1>5 DEF Compare, At
    <2>4. JobOK(r)
      BY <1>1, <1>3, <2>3 DEF JobOK, NeedsVersion, Pipe
    <2>5. job' = [job EXCEPT ![j] = r]
      BY <2>1
    <2> QED
      BY <1>5, <2>2, <2>4, <2>5, LocalStep DEF Compare
  <1>6. CASE SetProduction(j)
    <2> DEFINE r == [job[j] EXCEPT !.pc = "read"]
    <2>1. job[j].ver \in 1..Len(versions[Pipe(j)])
      BY <1>3, <1>6 DEF SetProduction, At
    <2>2. r \in Job /\ JobOK(r)
      BY <1>1, <2>1 DEF Job, Pcs, JobOK, NeedsVersion, Pipe
    <2>3. job' \in [Jobs -> Job] /\ \A i \in Jobs : JobOK(job[i])'
      BY <1>6, <2>2, JobStepSame DEF SetProduction, Goto
    <2>4. \A q \in Pipelines : production'[q] \in 0..Len(versions[q])
      <3>1. \A q \in Pipelines :
              /\ Len(versions[q]) \in Nat
              /\ production'[q] \in {production[q]} \cup 1..Len(versions[q])
              /\ production[q] \in 0..Len(versions[q])
        BY <1>1, <1>6, <2>1 DEF SetProduction, TypeInv, TypeOK
      <3> QED
        BY <3>1
    <2>5. production' \in [Pipelines -> 0..MaxVersion]
      <3>1. production \in [Pipelines -> 0..MaxVersion] /\ job[j].ver \in 0..MaxVersion
        BY JobFacts DEF TypeInv, TypeOK
      <3> QED
        BY <1>6, <3>1 DEF SetProduction
    <2>6. TypeOK'
      BY <1>6, <2>3, <2>4, <2>5 DEF SetProduction, TypeInv, TypeOK
    <2> QED
      BY <2>3, <2>6 DEF TypeInv
  <1>7. CASE LoadAdapter(j)
    <2> DEFINE r == [job[j] EXCEPT !.pc = "upload", !.dst = Adapter,
                                   !.out = <<production[Pipe(j)]>>]
    <2>1. <<production[Pipe(j)]>> \in Weights
      <3>1. production[Pipe(j)] \in 0..MaxVersion
        BY <1>2, ReleaseAssumption
      <3> QED
        BY <3>1, WeightsOps
    <2>2. r \in Job
      BY <1>1, <2>1 DEF Job, Pcs, Dirs
    <2>3. job[j].pc = "load"
      BY <1>7 DEF LoadAdapter, At
    <2>4. JobOK(r)
      BY <1>1, <1>3, <2>3 DEF JobOK, NeedsVersion, Pipe
    <2>5. job' = [job EXCEPT ![j] = r]
      BY <1>7 DEF LoadAdapter
    <2> QED
      BY <1>7, <2>2, <2>4, <2>5, LocalStep DEF LoadAdapter
  <1> QED
    BY <1>4, <1>5, <1>6, <1>7 DEF Promote

\* Skip and Build of merge_lora and quantize_awq.
LEMMA TypeBuild ==
  ASSUME TypeInv, NEW j \in Jobs, NEW d \in Dirs, NEW w \in Weights,
         job[j].pc # "idle",
         NeedsVersion(job[j]) \/ Kind(j) = "awq",
         Skip(j, d) \/ Build(j, d, w)
  PROVE  TypeInv'
  <1>1. job[j] \in Job /\ job[j].task \in Tasks /\ JobOK(job[j])
    BY JobFacts DEF TypeInv
  <1>2. CASE Skip(j, d)
    <2> DEFINE r == [job[j] EXCEPT !.pc = "read"]
    <2>1. r \in Job /\ JobOK(r)
      BY <1>1 DEF Job, Pcs, JobOK, NeedsVersion, Kind
    <2> QED
      BY <1>2, <2>1, LocalStep DEF Skip, Goto
  <1>3. CASE Build(j, d, w)
    <2> DEFINE r == [job[j] EXCEPT !.pc = "upload", !.dst = d, !.out = w]
    <2>1. r \in Job /\ JobOK(r)
      BY <1>1 DEF Job, Pcs, JobOK, NeedsVersion, Kind
    <2>2. job' = [job EXCEPT ![j] = r]
      BY <1>3 DEF Build
    <2> QED
      BY <1>3, <2>1, <2>2, LocalStep DEF Build
  <1> QED
    BY <1>2, <1>3

\* The steps of the scripts that derive artifacts keep it.
LEMMA TypeDerive ==
  ASSUME TypeInv, NEW j \in Jobs, Derive(j)
  PROVE  TypeInv'
  <1>1. /\ job[j] \in Job /\ job[j].task \in Tasks /\ Pipe(j) \in Pipelines
        /\ Kind(j) \in {"merge", "awq", "gguf", "prepare", "index"}
    BY JobFacts DEF Derive, MergeCheck, Merge, Quantize, GgufRead, PrepareCheck,
                    IndexResolve, At
  <1>2. CASE MergeCheck(j)
    <2> DEFINE r == [job[j] EXCEPT !.pc = "build", !.ver = production[Pipe(j)]]
    <2>1. /\ production[Pipe(j)] \in 1..Len(versions[Pipe(j)])
          /\ production[Pipe(j)] \in 0..MaxVersion
      BY <1>1, <1>2, ReleaseAssumption DEF MergeCheck, TypeInv, TypeOK
    <2>2. r \in Job
      BY <1>1, <2>1 DEF Job, Pcs
    <2>3. JobOK(r)
      BY <1>1, <2>1 DEF JobOK, NeedsVersion, Pipe
    <2>4. job' = [job EXCEPT ![j] = r]
      BY <1>2 DEF MergeCheck
    <2> QED
      BY <1>2, <2>2, <2>3, <2>4, LocalStep DEF MergeCheck
  <1>3. CASE Merge(j)
    <2>1. NeedsVersion(job[j]) /\ job[j].pc # "idle"
      BY <1>3 DEF Merge, At, Kind, NeedsVersion
    <2>2. Merged(job[j].ver) \in Dirs
      <3>1. job[j].ver \in 1..Len(versions[Pipe(j)]) /\ job[j].ver \in 0..MaxVersion
        BY <2>1, JobFacts
      <3>2. job[j].ver \in 1..MaxVersion
        BY <3>1, ReleaseAssumption
      <3> QED
        BY <3>2 DEF Dirs
    <2>3. ResolvedBase(Pipe(j), manifest[Pipe(j)]) \o Contents(Pipe(j), Adapter) \in Weights
      BY <1>1, ContentsType, ResolvedBaseType, WeightsOps DEF TypeInv
    <2> QED
      BY <1>3, <2>1, <2>2, <2>3, TypeBuild DEF Merge
  <1>4. CASE Quantize(j)
    <2>1. Append(ResolvedBase(Pipe(j), manifest[Pipe(j)]), 0) \in Weights
      BY <1>1, ResolvedBaseType, WeightsOps DEF TypeInv
    <2>2. Awq \in Dirs
      BY DEF Dirs
    <2> QED
      BY <1>4, <2>1, <2>2, TypeBuild DEF Quantize, At
  <1>5. CASE GgufRead(j)
    <2> DEFINE r == [job[j] EXCEPT !.pc = "write", !.man = manifest]
    <2>1. r \in Job
      BY <1>1 DEF Job, Pcs, TypeInv, TypeOK
    <2>2. JobOK(r)
      BY <1>1, <1>5 DEF JobOK, NeedsVersion, Kind, GgufRead, At
    <2>3. job' = [job EXCEPT ![j] = r]
      BY <1>5 DEF GgufRead
    <2> QED
      BY <1>5, <2>1, <2>2, <2>3, LocalStep DEF GgufRead
  <1>6. ASSUME NEW pc \in {"write", "upload", "read"}, NEW d \in Dirs \cup {NoRef},
               job' = [job EXCEPT ![j].pc = pc, ![j].dst = d],
               Kind(j) \in {"prepare", "index"}, UNCHANGED <<registry, dirs, manifest>>
        PROVE  TypeInv'
    <2> DEFINE r == [job[j] EXCEPT !.pc = pc, !.dst = d]
    <2>1. r \in Job
      BY <1>1, <1>6 DEF Job, Pcs
    <2>2. JobOK(r)
      BY <1>1, <1>6 DEF JobOK, NeedsVersion, Kind
    <2>3. job' = [job EXCEPT ![j] = r]
      BY <1>6
    <2> QED
      BY <1>6, <2>1, <2>2, <2>3, LocalStep
  <1>7. Prepared \in Dirs /\ VectorDb \in Dirs
    BY DEF Dirs
  <1>8. CASE PrepareCheck(j)
    <2>1. Kind(j) = "prepare" /\ UNCHANGED <<registry, dirs, manifest>>
      BY <1>8 DEF PrepareCheck, At
    <2>2. CASE Goto(j, "write")
      <3>1. job' = [job EXCEPT ![j].pc = "write", ![j].dst = job[j].dst]
        BY <1>1, <2>2, JobFacts DEF Goto, Job
      <3> QED
        BY <1>6, <2>1, <3>1, JobFacts
    <2>3. CASE job' = [job EXCEPT ![j].pc = "upload", ![j].dst = Prepared]
      BY <1>6, <1>7, <2>1, <2>3
    <2> QED
      BY <1>8, <2>2, <2>3 DEF PrepareCheck
  <1>9. CASE IndexResolve(j)
    BY <1>6, <1>7, <1>9 DEF IndexResolve, At
  <1> QED
    BY <1>2, <1>3, <1>4, <1>5, <1>8, <1>9 DEF Derive

\* What a script writes into its section has the keys of a section.
LEMMA EditedType ==
  ASSUME TypeInv, NEW j \in Jobs, job[j].pc = "write"
  PROVE  Edited(j) \in Section
  <1>1. Pipe(j) \in Pipelines /\ Kind(j) \in Kinds /\ job[j].man \in Manifest
    BY JobFacts
  <1> DEFINE s == [job[j].man[Pipe(j)] EXCEPT !.there = TRUE]
  <1>2. s \in Section
    BY <1>1 DEF Manifest, Section
  <1>3. Adapter \in Refs /\ Awq \in Refs /\ Prepared \in Refs /\ Hub \in Refs /\ NoRef \in Refs
    BY DEF Refs, Dirs
  <1>4. BaseOf(s) \in Refs
    BY <1>2, <1>3 DEF BaseOf, Section
  <1>5. Kind(j) = "merge" => Merged(job[j].ver) \in Refs
    <2>1. Kind(j) = "merge" => job[j].ver \in 1..Len(versions[Pipe(j)])
      BY JobFacts DEF NeedsVersion, Kind
    <2>2. Len(versions[Pipe(j)]) \in Nat /\ Len(versions[Pipe(j)]) <= MaxVersion
      BY <1>1 DEF TypeInv, TypeOK
    <2>3. Kind(j) = "merge" => job[j].ver \in 1..MaxVersion
      BY <2>1, <2>2, ReleaseAssumption
    <2> QED
      BY <2>3 DEF Refs, Dirs
  <1>6. ASSUME NEW ref \in Refs
        PROVE  [s EXCEPT !.load = "full", !.model = ref, !.base = NoRef, !.lora = FALSE]
                 \in Section
    BY <1>2, <1>3 DEF Section
  <1>7. CASE Kind(j) = "promote"
    <2>1. [s EXCEPT !.load = "lora", !.base = BaseOf(s), !.lora = TRUE, !.model = NoRef]
            \in Section
      BY <1>2, <1>3, <1>4 DEF Section
    <2> QED
      BY <1>7, <2>1 DEF Edited
  <1>8. CASE Kind(j) = "merge"
    BY <1>5, <1>6, <1>8 DEF Edited
  <1>9. CASE Kind(j) = "awq"
    <2>1. [[s EXCEPT !.load = "full", !.model = Awq, !.base = NoRef, !.lora = FALSE]
             EXCEPT !.quant = TRUE] \in Section
      BY <1>3, <1>6 DEF Section
    <2> QED
      BY <1>9, <2>1 DEF Edited
  <1>10. CASE Kind(j) = "prepare"
    <2>1. [s EXCEPT !.load = "full", !.model = Prepared] \in Section
      BY <1>2, <1>3 DEF Section
    <2> QED
      BY <1>10, <2>1 DEF Edited
  <1>11. CASE Kind(j) \notin {"promote", "merge", "awq", "prepare"}
    <2>1. [s EXCEPT !.gguf = TRUE] \in Section /\ [s EXCEPT !.db = TRUE] \in Section
      BY <1>2 DEF Section
    <2> QED
      BY <1>11, <2>1 DEF Edited
  <1> QED
    BY <1>7, <1>8, <1>9, <1>10, <1>11

\* Uploading a directory and writing the manifest keep it.
LEMMA TypePublish ==
  ASSUME TypeInv, NEW j \in Jobs, Publish(j)
  PROVE  TypeInv'
  <1>1. /\ job[j].pc \in {"read", "upload", "uploading", "write"}
        /\ job[j] \in Job /\ job[j].task \in Tasks /\ Pipe(j) \in Pipelines
    BY JobFacts DEF Publish, ReadManifest, UploadBegin, UploadEnd, WriteManifest
  <1>2. NeedsVersion(job[j]) => job[j].ver \in 1..Len(versions[Pipe(j)])
    BY JobFacts
  <1>3. ASSUME NEW m \in Manifest, NEW pc \in {"load", "check", "write", "read", "uploading"}
        PROVE  [job[j] EXCEPT !.man = m, !.pc = pc] \in Job
    BY <1>1 DEF Job, Pcs
  <1>4. CASE ReadManifest(j)
    <2>1. PICK m \in {manifest, NoManifest} :
            job' = [job EXCEPT ![j].man = m,
                               ![j].pc = CASE Kind(j) = "promote" -> "load"
                                           [] Kind(j) = "prepare" -> "check"
                                           [] OTHER               -> "write"]
      BY <1>4 DEF ReadManifest
    <2>2. m \in Manifest
      BY IdleJobType DEF TypeInv, TypeOK
    <2>3. PICK pc \in {"load", "check", "write"} :
            /\ job' = [job EXCEPT ![j] = [job[j] EXCEPT !.man = m, !.pc = pc]]
            /\ pc = "check" => Kind(j) = "prepare"
      BY <2>1
    <2> DEFINE r == [job[j] EXCEPT !.man = m, !.pc = pc]
    <2>4. r \in Job
      BY <1>3, <2>2
    <2>5. job[j].pc = "read"
      BY <1>4 DEF ReadManifest
    <2>6. JobOK(r)
      BY <1>1, <1>2, <2>3, <2>5 DEF JobOK, NeedsVersion, Pipe, Kind, Job
    <2> QED
      BY <1>4, <2>3, <2>4, <2>6, LocalStep DEF ReadManifest
  <1>5. ASSUME NEW d \in Dirs \cup {NoRef}, NEW w \in Directory,
               NEW pc \in {"read", "write", "uploading"},
               pc = "read" \/ pc = "write" => job[j].pc = "uploading",
               pc = "uploading" => job[j].pc = "upload",
               dirs' = [dirs EXCEPT ![Pipe(j)][d] = w], Goto(j, pc),
               UNCHANGED <<registry, manifest>>
        PROVE  TypeInv'
    <2> DEFINE r == [job[j] EXCEPT !.pc = pc]
    <2>1. r \in Job
      BY <1>1 DEF Job, Pcs
    <2>2. JobOK(r)
      BY <1>1, <1>2, <1>5 DEF JobOK, NeedsVersion, Pipe, Job
    <2>3. job' \in [Jobs -> Job] /\ \A i \in Jobs : JobOK(job[i])'
      BY <1>5, <2>1, <2>2, JobStepSame DEF Goto, registry
    <2>4. dirs' \in [Pipelines -> [Dirs -> Directory]]
      <3>1. dirs[Pipe(j)] \in [Dirs -> Directory] /\ dirs \in [Pipelines -> [Dirs -> Directory]]
        BY <1>1 DEF TypeInv, TypeOK
      <3>2. [dirs[Pipe(j)] EXCEPT ![d] = w] \in [Dirs -> Directory]
        BY <3>1
      <3> QED
        BY <1>5, <3>1, <3>2
    <2>5. TypeOK'
      BY <1>5, <2>3, <2>4 DEF TypeInv, TypeOK, registry
    <2> QED
      BY <2>3, <2>5 DEF TypeInv
  <1>6. job[j].dst \in Dirs \cup {NoRef} /\ job[j].out \in Weights
    BY JobFacts
  <1>7. CASE UploadBegin(j)
    <2>1. AbsentDir \in Directory /\ [st |-> "partial", w |-> job[j].out] \in Directory
      BY <1>6, WeightsOps DEF AbsentDir, Directory
    <2>2. (IF Local THEN AbsentDir ELSE [st |-> "partial", w |-> job[j].out]) \in Directory
      BY <2>1
    <2> QED
      BY <1>5, <1>6, <1>7, <2>2 DEF UploadBegin
  <1>8. CASE UploadEnd(j)
    <2>1. PICK st \in {"mixed", "complete"}, pc \in {"read", "write"} :
            /\ dirs' = [dirs EXCEPT ![Pipe(j)][job[j].dst] = [st |-> st, w |-> job[j].out]]
            /\ Goto(j, pc)
      BY <1>8 DEF UploadEnd
    <2>2. [st |-> st, w |-> job[j].out] \in Directory
      BY <1>6 DEF Directory
    <2>3. job[j].pc = "uploading" /\ UNCHANGED <<registry, manifest>>
      BY <1>8 DEF UploadEnd
    <2> QED
      BY <1>5, <1>6, <2>1, <2>2, <2>3
  <1>9. CASE WriteManifest(j)
    <2>1. manifest' \in Manifest
      BY <1>1, <1>9, EditedType, JobFacts DEF WriteManifest, Manifest
    <2>2. job' \in [Jobs -> Job] /\ \A i \in Jobs : JobOK(job[i])'
      BY <1>9, IdleJobType, JobStepSame DEF WriteManifest, Finish, registry
    <2>3. TypeOK'
      BY <1>9, <2>1, <2>2 DEF WriteManifest, TypeInv, TypeOK, registry
    <2> QED
      BY <2>2, <2>3 DEF TypeInv
  <1> QED
    BY <1>4, <1>7, <1>8, <1>9 DEF Publish

\* Every step keeps it.
LEMMA TypeNext == TypeInv /\ [Next]_vars => TypeInv'
  <1> SUFFICES ASSUME TypeInv, [Next]_vars PROVE TypeInv'
    OBVIOUS
  <1>1. CASE Next
    <2>1. PICK j \in Jobs : \/ \E task \in Tasks : Start(j, task)
                            \/ Stop(j) \/ Train(j) \/ Promote(j) \/ Derive(j) \/ Publish(j)
      BY <1>1 DEF Next
    <2> QED
      BY <2>1, TypeStart, TypeStop, TypeTrain, TypePromote, TypeDerive, TypePublish
  <1>2. CASE UNCHANGED vars
    BY <1>2 DEF vars, TypeInv, TypeOK, JobOK, NeedsVersion
  <1> QED
    BY <1>1, <1>2

\* Type correctness: in every reachable state, for any number of jobs and
\* pipelines and any schedule, each variable has its type, and the aliases
\* Staging and Production name registered versions.
THEOREM TypeCorrect == Spec => []TypeOK
  <1>1. TypeInv => TypeOK
    BY DEF TypeInv
  <1> QED
    BY <1>1, TypeInit, TypeNext, PTL DEF Spec
-----------------------------------------------------------------------------
(* The manifest: every section loadable, each changed by its own scripts.  *)

Loadable(s) ==
  /\ s.load = "lora" => s.base # NoRef /\ s.lora
  /\ s.load = "full" => s.model # NoRef

\* Also the sections a script has in memory are loadable.
LoadInv ==
  /\ TypeInv
  /\ \A p \in Pipelines : Loadable(manifest[p])
  /\ \A j \in Jobs, p \in Pipelines : Loadable(job[j].man[p])

\* A step other than a write leaves the manifest alone, and of what scripts
\* have in memory it changes at most that of one, to the manifest or to nothing.
LEMMA MemoryStep ==
  ASSUME TypeInv, NEW j \in Jobs,
         \/ \E task \in Tasks : Start(j, task)
         \/ Stop(j) \/ Train(j) \/ Promote(j) \/ Derive(j) \/ Publish(j),
         ~WriteManifest(j)
  PROVE  /\ UNCHANGED manifest
         /\ \A i \in Jobs : job'[i].man \in {job[i].man, manifest, NoManifest}
  <1>1. job \in [Jobs -> Job] /\ job[j] \in Job /\ IdleJob.man = NoManifest
    BY DEF TypeInv, TypeOK, IdleJob
  <1>2. CASE \E task \in Tasks : Start(j, task)
    <2>1. PICK task \in Tasks : Start(j, task)
      BY <1>2
    <2>2. PICK pc : pc = FirstStep(task[1])
      OBVIOUS
    <2>3. job' = [job EXCEPT ![j].task = task, ![j].pc = pc] /\ UNCHANGED manifest
      BY <2>1, <2>2 DEF Start
    <2>4. job'[j].man = job[j].man
      BY <1>1, <2>3 DEF Job
    <2>5. \A i \in Jobs : i # j => job'[i] = job[i]
      BY <1>1, <2>3
    <2> QED
      BY <2>3, <2>4, <2>5
  <1>3. CASE Stop(j)
    BY <1>1, <1>3 DEF Stop, Finish
  <1>4. CASE Train(j)
    <2>1. CASE TrainResolve(j)
      BY <1>1, <2>1 DEF TrainResolve, Job
    <2>2. CASE Register(j)
      BY <1>1, <2>2 DEF Register, Job
    <2>3. CASE SetStaging(j)
      BY <1>1, <2>3 DEF SetStaging, Goto, Job
    <2>4. CASE \E score \in Scores : SetTag(j, score)
      BY <1>1, <2>4 DEF SetTag, Finish
    <2> QED
      BY <1>4, <2>1, <2>2, <2>3, <2>4 DEF Train
  <1>5. CASE Promote(j)
    <2>1. CASE ReadStaging(j)
      BY <1>1, <2>1 DEF ReadStaging, Job
    <2>2. CASE Compare(j)
      BY <1>1, <2>2 DEF Compare, Job
    <2>3. CASE SetProduction(j)
      BY <1>1, <2>3 DEF SetProduction, Goto, Job
    <2>4. CASE LoadAdapter(j)
      BY <1>1, <2>4 DEF LoadAdapter, Job
    <2> QED
      BY <1>5, <2>1, <2>2, <2>3, <2>4 DEF Promote
  <1>6. CASE Derive(j)
    <2>1. CASE MergeCheck(j)
      BY <1>1, <2>1 DEF MergeCheck, Job
    <2>7. ASSUME NEW d, NEW w, Skip(j, d) \/ Build(j, d, w)
          PROVE  /\ UNCHANGED manifest
                 /\ \A i \in Jobs : job'[i].man = job[i].man
      <3>1. CASE Skip(j, d)
        BY <1>1, <3>1 DEF Skip, Goto, Job
      <3>2. CASE Build(j, d, w)
        BY <1>1, <3>2 DEF Build, Job
      <3> QED
        BY <2>7, <3>1, <3>2
    <2>2. CASE Merge(j)
      BY <2>2, <2>7 DEF Merge
    <2>3. CASE Quantize(j)
      BY <2>3, <2>7 DEF Quantize
    <2>4. CASE GgufRead(j)
      BY <1>1, <2>4 DEF GgufRead, Job
    <2>5. CASE PrepareCheck(j)
      BY <1>1, <2>5 DEF PrepareCheck, Goto, Job
    <2>6. CASE IndexResolve(j)
      BY <1>1, <2>6 DEF IndexResolve, Job
    <2> QED
      BY <1>6, <2>1, <2>2, <2>3, <2>4, <2>5, <2>6 DEF Derive
  <1>7. CASE Publish(j)
    <2>1. CASE ReadManifest(j)
      BY <1>1, <2>1 DEF ReadManifest, Job
    <2>2. CASE UploadBegin(j)
      BY <1>1, <2>2 DEF UploadBegin, Goto, Job
    <2>3. CASE UploadEnd(j)
      BY <1>1, <2>3 DEF UploadEnd, Goto, Job
    <2> QED
      BY <1>7, <2>1, <2>2, <2>3 DEF Publish
  <1> QED
    BY <1>2, <1>3, <1>4, <1>5, <1>6, <1>7

\* What a script makes of a loadable section is loadable: each that sets
\* load_type sets the keys it needs.
LEMMA EditedLoadable ==
  ASSUME TypeInv, NEW j \in Jobs, Pipe(j) \in Pipelines,
         Loadable(job[j].man[Pipe(j)])
  PROVE  Loadable(Edited(j))
  <1>1. PICK s : s = job[j].man[Pipe(j)]
    OBVIOUS
  <1>2. s \in Section
    BY <1>1, JobFacts DEF Manifest
  <1>3. BaseOf([s EXCEPT !.there = TRUE]) # NoRef
    BY <1>2 DEF BaseOf, Section, Hub, NoRef
  <1>4. Merged(job[j].ver) # NoRef /\ Awq # NoRef /\ Prepared # NoRef
    BY DEF Merged, Awq, Prepared, NoRef
  <1> QED
    BY <1>1, <1>2, <1>3, <1>4 DEF Edited, Loadable, Section

\* Every section of the first manifest is loadable.
LEMMA LoadInit == Init => LoadInv
  <1> SUFFICES ASSUME Init PROVE LoadInv
    OBVIOUS
  <1>1. \A p \in Pipelines : Loadable(NoManifest[p])
    BY DEF NoManifest, EmptySection, Loadable
  <1> QED
    BY <1>1, TypeInit DEF Init, LoadInv, IdleJob

\* A step keeps the manifest and what scripts have in memory loadable.
LEMMA LoadNext == LoadInv /\ [Next]_vars => LoadInv'
  <1> SUFFICES ASSUME LoadInv, [Next]_vars PROVE LoadInv'
    OBVIOUS
  <1>1. TypeInv /\ TypeInv'
    BY TypeNext DEF LoadInv
  <1>2. \A p \in Pipelines : Loadable(NoManifest[p])
    BY DEF NoManifest, EmptySection, Loadable
  <1>3. CASE Next
    <2>1. PICK j \in Jobs : \/ \E task \in Tasks : Start(j, task)
                            \/ Stop(j) \/ Train(j) \/ Promote(j) \/ Derive(j) \/ Publish(j)
      BY <1>3 DEF Next
    <2>2. CASE WriteManifest(j)
      <3>1. job[j].pc = "write" /\ job \in [Jobs -> Job] /\ job[j].man \in Manifest
            /\ Pipe(j) \in Pipelines
        BY <1>1, <2>2, JobFacts DEF WriteManifest
      <3>2. Loadable(Edited(j))
        BY <1>1, <3>1, EditedLoadable DEF LoadInv
      <3>3. manifest' = [job[j].man EXCEPT ![Pipe(j)] = Edited(j)] /\ job' = [job EXCEPT ![j] = IdleJob]
        BY <2>2 DEF WriteManifest, Finish
      <3>4. \A p \in Pipelines : Loadable(manifest'[p])
        BY <3>1, <3>2, <3>3 DEF LoadInv, Manifest
      <3>5. \A i \in Jobs : job'[i].man \in {job[i].man, NoManifest}
        BY <3>1, <3>3 DEF IdleJob
      <3> QED
        BY <1>1, <1>2, <3>4, <3>5 DEF LoadInv, Loadable
    <2>3. CASE ~WriteManifest(j)
      <3>1. UNCHANGED manifest
            /\ \A i \in Jobs : job'[i].man \in {job[i].man, manifest, NoManifest}
        BY <1>1, <2>1, <2>3, MemoryStep
      <3> QED
        BY <1>1, <1>2, <3>1 DEF LoadInv, Loadable
    <2> QED
      BY <2>2, <2>3
  <1>4. CASE UNCHANGED vars
    BY <1>1, <1>4 DEF vars, LoadInv, Loadable
  <1> QED
    BY <1>3, <1>4

\* In whatever order promote, merge_lora, quantize_awq, prepare_artifacts,
\* prepare_gguf and index_db edit the manifest, overlap, die and fail to read
\* it, a section has the keys that its load_type needs.
THEOREM SectionsLoadable == Spec => []LoadableSections
  <1>1. ASSUME LoadInv PROVE LoadableSections
    <2>1. SUFFICES ASSUME NEW p \in Pipelines
                   PROVE  /\ manifest[p].load = "lora" => manifest[p].base # NoRef /\ manifest[p].lora
                          /\ manifest[p].load = "full" => manifest[p].model # NoRef
      BY Zenon DEF LoadableSections
    <2> QED
      BY <1>1 DEF LoadInv, Loadable
  <1> QED
    BY <1>1, LoadInit, LoadNext, PTL DEF Spec
-----------------------------------------------------------------------------
\* Where a trainer is, and what a script that publishes is.
TrainPc(r) == r.task[1] = "train" => r.pc \in {"resolve", "register", "stage", "tag"}
Publishes(r) == r # IdleJob /\ r.task[1] # "train"
-----------------------------------------------------------------------------
(* What a script has read of the manifest, and what was edited since.      *)

\* Script j has in memory what is in the storage, except for the sections that
\* were edited since it read them, and after a failed read that it forgives.
Remembers(j) ==
  \A p \in Pipelines :
    job[j].man[p] # manifest[p] => p \in behind[j] \/ (LossyReads /\ Forgiving(j))

HistInv ==
  /\ TypeInv
  /\ behind \in [Jobs -> SUBSET Pipelines]
  /\ \A j \in Jobs : HasRead(job[j]) => Remembers(j)

\* What a step of script j does to the manifest it has in memory.
KeepsOrReads(j) ==
  \/ ~HasRead(job'[j])
  \/ HasRead(job[j]) /\ job'[j].man = job[j].man /\ job'[j].task = job[j].task
  \/ job'[j].man = manifest
  \/ LossyReads /\ Forgiving(j)'

\* A trainer has no manifest in memory.
LEMMA ReadTrain ==
  ASSUME TypeInv, NEW j \in Jobs, Train(j)
  PROVE  ~HasRead(job'[j]) /\ \A i \in Jobs : i # j => job'[i] = job[i]
  <1>1. job \in [Jobs -> Job] /\ job[j] \in Job
    BY DEF TypeInv, TypeOK
  <1>2. CASE TrainResolve(j)
    <2>1. job'[j].task[1] = "train" /\ job'[j].pc = "register"
      BY <1>1, <1>2 DEF TrainResolve, Job, At, Kind
    <2>2. \A i \in Jobs : i # j => job'[i] = job[i]
      BY <1>1, <1>2 DEF TrainResolve
    <2> QED
      BY <2>1, <2>2 DEF HasRead
  <1>3. CASE Register(j)
    <2>1. PICK pc \in {"stage", "register"} :
            job' = [job EXCEPT ![j].pc = pc, ![j].ver = Len(versions[Pipe(j)]) + 1]
      BY <1>3 DEF Register
    <2>2. job'[j].task[1] = "train" /\ job'[j].pc = pc
      BY <1>1, <1>3, <2>1 DEF Register, Job, At, Kind
    <2>3. \A i \in Jobs : i # j => job'[i] = job[i]
      BY <1>1, <2>1
    <2> QED
      BY <2>2, <2>3 DEF HasRead
  <1>4. CASE SetStaging(j)
    <2>1. job'[j].task[1] = "train" /\ job'[j].pc = "tag"
      BY <1>1, <1>4 DEF SetStaging, Goto, Job, At, Kind
    <2>2. \A i \in Jobs : i # j => job'[i] = job[i]
      BY <1>1, <1>4 DEF SetStaging, Goto
    <2> QED
      BY <2>1, <2>2 DEF HasRead
  <1>5. CASE \E score \in Scores : SetTag(j, score)
    BY <1>1, <1>5 DEF SetTag, Finish, HasRead, IdleJob
  <1> QED
    BY <1>2, <1>3, <1>4, <1>5 DEF Train

\* promote keeps what it read until it writes.
LEMMA ReadPromote ==
  ASSUME TypeInv, NEW j \in Jobs, Promote(j)
  PROVE  KeepsOrReads(j) /\ \A i \in Jobs : i # j => job'[i] = job[i]
  <1>1. job \in [Jobs -> Job] /\ job[j] \in Job
    BY DEF TypeInv, TypeOK
  <1>2. PICK pc \in {"compare", "set", "read", "upload"} :
          /\ job'[j].task = job[j].task /\ job'[j].man = job[j].man
          /\ job'[j].pc = pc /\ job[j].task[1] = "promote"
          /\ pc = "upload" => job[j].pc = "load"
          /\ \A i \in Jobs : i # j => job'[i] = job[i]
    <2>1. CASE ReadStaging(j)
      BY <1>1, <2>1 DEF ReadStaging, Job, At, Kind
    <2>2. CASE Compare(j)
      <3>1. PICK verdict :
              job' = [job EXCEPT ![j].pc = IF verdict = "better" THEN "set" ELSE "read",
                                 ![j].verdict = verdict]
        BY <2>2 DEF Compare
      <3> QED
        BY <1>1, <2>2, <3>1 DEF Compare, Job, At, Kind
    <2>3. CASE SetProduction(j)
      BY <1>1, <2>3 DEF SetProduction, Goto, Job, At, Kind
    <2>4. CASE LoadAdapter(j)
      BY <1>1, <2>4 DEF LoadAdapter, Job, At, Kind
    <2> QED
      BY <2>1, <2>2, <2>3, <2>4 DEF Promote
  <1> QED
    BY <1>2 DEF KeepsOrReads, HasRead

\* The scripts that derive a model from it: prepare_gguf reads the manifest
\* here, prepare_artifacts keeps what it read.
LEMMA ReadDerive ==
  ASSUME TypeInv, NEW j \in Jobs, Derive(j)
  PROVE  KeepsOrReads(j) /\ \A i \in Jobs : i # j => job'[i] = job[i]
  <1>1. job \in [Jobs -> Job] /\ job[j] \in Job
    BY DEF TypeInv, TypeOK
  <1>2. CASE MergeCheck(j)
    <2>1. job'[j].task[1] = "merge" /\ job'[j].pc = "build"
          /\ \A i \in Jobs : i # j => job'[i] = job[i]
      BY <1>1, <1>2 DEF MergeCheck, Job, At, Kind
    <2> QED
      BY <2>1 DEF HasRead, KeepsOrReads
  <1>3. ASSUME NEW d, NEW w, Skip(j, d) \/ Build(j, d, w), job[j].task[1] \in {"merge", "awq"}
        PROVE  KeepsOrReads(j) /\ \A i \in Jobs : i # j => job'[i] = job[i]
    <2>1. /\ job'[j].task = job[j].task /\ job'[j].pc \in {"read", "upload"}
          /\ \A i \in Jobs : i # j => job'[i] = job[i]
      <3>1. CASE Skip(j, d)
        BY <1>1, <3>1 DEF Skip, Goto, Job
      <3>2. CASE Build(j, d, w)
        BY <1>1, <3>2 DEF Build, Job
      <3> QED
        BY <1>3, <3>1, <3>2
    <2> QED
      BY <1>3, <2>1 DEF HasRead, KeepsOrReads
  <1>4. CASE Merge(j)
    BY <1>3, <1>4 DEF Merge, At, Kind
  <1>5. CASE Quantize(j)
    BY <1>3, <1>5 DEF Quantize, At, Kind
  <1>6. CASE GgufRead(j)
    <2>1. job'[j].man = manifest /\ \A i \in Jobs : i # j => job'[i] = job[i]
      BY <1>1, <1>6 DEF GgufRead, Job
    <2> QED
      BY <2>1 DEF KeepsOrReads
  <1>7. CASE PrepareCheck(j)
    <2>1. /\ job'[j].task = job[j].task /\ job'[j].man = job[j].man
          /\ job[j].pc = "check" /\ job[j].task[1] = "prepare"
          /\ \A i \in Jobs : i # j => job'[i] = job[i]
      BY <1>1, <1>7 DEF PrepareCheck, Goto, Job, At, Kind
    <2> QED
      BY <2>1 DEF HasRead, KeepsOrReads
  <1>8. CASE IndexResolve(j)
    <2>1. job'[j].task[1] = "index" /\ job'[j].pc \in {"read", "upload"}
          /\ \A i \in Jobs : i # j => job'[i] = job[i]
      BY <1>1, <1>8 DEF IndexResolve, Job, At, Kind
    <2> QED
      BY <2>1 DEF HasRead, KeepsOrReads
  <1> QED
    BY <1>2, <1>4, <1>5, <1>6, <1>7, <1>8 DEF Derive

\* What all publishing scripts do before they write.
LEMMA ReadPublish ==
  ASSUME TypeInv, NEW j \in Jobs, ReadManifest(j) \/ UploadBegin(j) \/ UploadEnd(j)
  PROVE  KeepsOrReads(j) /\ \A i \in Jobs : i # j => job'[i] = job[i]
  <1>1. job \in [Jobs -> Job] /\ job[j] \in Job
    BY DEF TypeInv, TypeOK
  <1>3. CASE ReadManifest(j)
    <2>1. PICK m \in {manifest} \cup (IF LossyReads /\ Forgiving(j) THEN {NoManifest} ELSE {}) :
            \E pc : job' = [job EXCEPT ![j].man = m, ![j].pc = pc]
      BY <1>3 DEF ReadManifest
    <2>2. /\ job'[j].man = m /\ job'[j].task = job[j].task
          /\ \A i \in Jobs : i # j => job'[i] = job[i]
      BY <1>1, <2>1 DEF Job
    <2>3. m = manifest \/ (LossyReads /\ Forgiving(j))
      BY <2>1
    <2> QED
      BY <2>2, <2>3 DEF KeepsOrReads, Forgiving, Kind
  <1>4. CASE UploadBegin(j)
    <2>1. /\ job'[j].task = job[j].task /\ job'[j].man = job[j].man
          /\ job[j].pc = "upload" /\ job'[j].pc = "uploading"
          /\ \A i \in Jobs : i # j => job'[i] = job[i]
      BY <1>1, <1>4 DEF UploadBegin, Goto, Job
    <2> QED
      BY <2>1 DEF HasRead, KeepsOrReads
  <1>5. CASE UploadEnd(j)
    <2>1. PICK pc : /\ pc = IF Kind(j) \in {"promote", "prepare"} THEN "write" ELSE "read"
                    /\ job' = [job EXCEPT ![j].pc = pc]
      BY <1>5 DEF UploadEnd, Goto
    <2>2. /\ job'[j].task = job[j].task /\ job'[j].man = job[j].man
          /\ job[j].pc = "uploading" /\ job'[j].pc = pc
          /\ \A i \in Jobs : i # j => job'[i] = job[i]
      BY <1>1, <1>5, <2>1 DEF UploadEnd, Job
    <2> QED
      BY <2>1, <2>2 DEF HasRead, KeepsOrReads, Kind
  <1> QED
    BY <1>3, <1>4, <1>5

\* The same of every step that is not a write; a script that starts or ends
\* has read nothing.
LEMMA ReadStep ==
  ASSUME TypeInv, NEW j \in Jobs,
         \/ \E task \in Tasks : Start(j, task)
         \/ Stop(j) \/ Train(j) \/ Promote(j) \/ Derive(j) \/ Publish(j),
         ~WriteManifest(j)
  PROVE  KeepsOrReads(j) /\ \A i \in Jobs : i # j => job'[i] = job[i]
  <1>1. job \in [Jobs -> Job] /\ job[j] \in Job
    BY DEF TypeInv, TypeOK
  <1>2. CASE \E task \in Tasks : Start(j, task)
    <2>1. PICK task \in Tasks : Start(j, task)
      BY <1>2
    <2>2. PICK pc : pc = FirstStep(task[1])
      OBVIOUS
    <2>3. job' = [job EXCEPT ![j].task = task, ![j].pc = pc]
      BY <2>1, <2>2 DEF Start
    <2>4. /\ job'[j].task = task /\ job'[j].pc = pc
          /\ \A i \in Jobs : i # j => job'[i] = job[i]
      BY <1>1, <2>3 DEF Job
    <2>5. task[1] \in Kinds
      BY ReleaseAssumption
    <2> QED
      BY <2>2, <2>4, <2>5 DEF FirstStep, HasRead, KeepsOrReads, Kinds
  <1>3. CASE Stop(j)
    BY <1>1, <1>3 DEF Stop, Finish, HasRead, KeepsOrReads, IdleJob
  <1>4. CASE Train(j)
    BY <1>4, ReadTrain DEF KeepsOrReads
  <1>5. CASE Publish(j)
    <2>1. ReadManifest(j) \/ UploadBegin(j) \/ UploadEnd(j)
      BY <1>5 DEF Publish
    <2> QED
      BY <2>1, ReadPublish
  <1> QED
    BY <1>2, <1>3, <1>4, <1>5, ReadPromote, ReadDerive

\* What is recorded: each edit, for all that have read before it.
LEMMA RecordStep ==
  ASSUME NEW j \in Jobs,
         \/ \E task \in Tasks : Start(j, task)
         \/ Stop(j) \/ Train(j) \/ Promote(j) \/ Derive(j) \/ Publish(j)
  PROVE  Recorded \/ UNCHANGED <<manifest, behind>>
  <1>1. CASE \E task \in Tasks : Start(j, task)
    BY <1>1 DEF Start
  <1>2. CASE Stop(j)
    BY <1>2 DEF Stop
  <1>3. CASE Train(j)
    BY <1>3 DEF Train, TrainResolve, Register, SetStaging, SetTag
  <1>4. CASE Promote(j)
    BY <1>4 DEF Promote, ReadStaging, Compare, SetProduction, LoadAdapter
  <1>5. CASE Derive(j)
    BY <1>5 DEF Derive, MergeCheck, Merge, Quantize, Skip, Build, GgufRead, PrepareCheck,
                IndexResolve
  <1>6. CASE Publish(j)
    BY <1>6 DEF Publish, ReadManifest, UploadBegin, UploadEnd, WriteManifest
  <1> QED
    BY <1>1, <1>2, <1>3, <1>4, <1>5, <1>6

\* Nothing was read and nothing edited.
LEMMA HistInit == Init => HistInv
  <1> SUFFICES ASSUME Init PROVE HistInv
    OBVIOUS
  <1>1. \A j \in Jobs : job[j] = IdleJob
    BY DEF Init
  <1>2. ~HasRead(IdleJob)
    BY DEF HasRead, IdleJob
  <1>3. TypeInv /\ behind \in [Jobs -> SUBSET Pipelines]
    BY TypeInit DEF Init
  <1> QED
    BY <1>1, <1>2, <1>3 DEF HistInv

\* A step keeps it: whoever edits a section puts it behind every reader.
LEMMA HistNext == HistInv /\ [Next]_vars => HistInv'
  <1> SUFFICES ASSUME HistInv, [Next]_vars PROVE HistInv'
    OBVIOUS
  <1>1. TypeInv /\ TypeInv'
    BY TypeNext DEF HistInv
  <1>2. CASE Next
    <2>1. PICK j \in Jobs : \/ \E task \in Tasks : Start(j, task)
                            \/ Stop(j) \/ Train(j) \/ Promote(j) \/ Derive(j) \/ Publish(j)
      BY <1>2 DEF Next
    <2>2. Recorded \/ UNCHANGED <<manifest, behind>>
      BY <2>1, RecordStep
    <2>3. behind' \in [Jobs -> SUBSET Pipelines]
      BY <2>2 DEF HistInv, Recorded, EditedSections
    <2>7. ASSUME NEW i \in Jobs, HasRead(job'[i])
          PROVE  behind[i] \subseteq behind'[i] /\ EditedSections \subseteq behind'[i]
      BY <2>2, <2>7 DEF Recorded, EditedSections
    <2>4. ASSUME NEW i \in Jobs, HasRead(job'[i]), job'[i] = job[i]
          PROVE  Remembers(i)'
      <3>1. Remembers(i) /\ behind[i] \cup EditedSections \subseteq behind'[i]
        BY <2>4, <2>7 DEF HistInv
      <3>2. ASSUME NEW p \in Pipelines, job'[i].man[p] # manifest'[p]
            PROVE  p \in behind'[i] \/ (LossyReads /\ Forgiving(i)')
        <4>1. CASE manifest'[p] # manifest[p]
          BY <3>1, <4>1 DEF EditedSections
        <4>2. CASE manifest'[p] = manifest[p]
          BY <2>4, <3>1, <3>2, <4>2 DEF Remembers, Forgiving, Kind
        <4> QED
          BY <4>1, <4>2
      <3> QED
        BY <3>2 DEF Remembers
    <2>5. CASE WriteManifest(j)
      <3>1. job'[j] = IdleJob /\ \A i \in Jobs : i # j => job'[i] = job[i]
        BY <1>1, <2>5 DEF WriteManifest, Finish, TypeInv, TypeOK
      <3>2. ~HasRead(IdleJob)
        BY DEF HasRead, IdleJob
      <3>3. ASSUME NEW i \in Jobs, HasRead(job'[i]) PROVE Remembers(i)'
        BY <2>4, <3>1, <3>2, <3>3
      <3> QED
        BY <1>1, <2>3, <3>3 DEF HistInv, HasRead
    <2>6. CASE ~WriteManifest(j)
      <3>1. UNCHANGED manifest
        BY <1>1, <2>1, <2>6, MemoryStep
      <3>2. KeepsOrReads(j) /\ \A i \in Jobs : i # j => job'[i] = job[i]
        BY <1>1, <2>1, <2>6, ReadStep
      <3>3. ASSUME HasRead(job'[j]) PROVE Remembers(j)'
        <4>1. CASE HasRead(job[j]) /\ job'[j].man = job[j].man /\ job'[j].task = job[j].task
          <5>1. Remembers(j) /\ behind[j] \subseteq behind'[j]
            BY <2>7, <3>3, <4>1 DEF HistInv
          <5> QED
            BY <3>1, <4>1, <5>1 DEF Remembers, Forgiving, Kind
        <4>2. CASE job'[j].man = manifest
          BY <3>1, <4>2 DEF Remembers
        <4>3. CASE LossyReads /\ Forgiving(j)'
          BY <4>3 DEF Remembers
        <4> QED
          BY <3>2, <3>3, <4>1, <4>2, <4>3 DEF KeepsOrReads
      <3>4. ASSUME NEW i \in Jobs, HasRead(job'[i]) PROVE Remembers(i)'
        BY <2>4, <3>2, <3>3, <3>4
      <3> QED
        BY <1>1, <2>3, <3>4 DEF HistInv, HasRead
    <2> QED
      BY <2>5, <2>6
  <1>3. CASE UNCHANGED vars
    BY <1>1, <1>3 DEF vars, HistInv, Remembers, HasRead, Forgiving, Kind
  <1> QED
    BY <1>2, <1>3

\* Whatever scripts overlap, start, die and fail to read, the upload of the
\* whole of manifest.json by one of them undoes in the sections of other
\* pipelines only what was edited since that script read the file.
THEOREM OneSectionChanged == Spec => OnlyOwnSection
  <1> DEFINE Own == \A p \in EditedSections :
                      \E j \in Jobs :
                        /\ job[j].pc = "write" /\ job'[j] = IdleJob
                        /\ Pipe(j) = p \/ p \in behind[j] \/ (LossyReads /\ Forgiving(j))
  <1>1. HistInv /\ [Next]_vars => [Own]_vars
    <2> SUFFICES ASSUME HistInv, Next PROVE Own
      BY Zenon
    <2>1. PICK j \in Jobs : \/ \E task \in Tasks : Start(j, task)
                            \/ Stop(j) \/ Train(j) \/ Promote(j) \/ Derive(j) \/ Publish(j)
      BY DEF Next
    <2>2. CASE WriteManifest(j)
      <3>1. /\ job[j].pc = "write" /\ job \in [Jobs -> Job] /\ job[j].man \in Manifest
            /\ Remembers(j)
        BY <2>2, JobFacts DEF WriteManifest, HistInv, HasRead
      <3>2. /\ manifest' = [job[j].man EXCEPT ![Pipe(j)] = Edited(j)] /\ job'[j] = IdleJob
        BY <2>2, <3>1 DEF WriteManifest, Finish
      <3>3. ASSUME NEW p \in Pipelines, manifest'[p] # manifest[p]
            PROVE  Pipe(j) = p \/ p \in behind[j] \/ (LossyReads /\ Forgiving(j))
        <4>1. CASE Pipe(j) # p
          <5>1. manifest'[p] = job[j].man[p]
            BY <3>1, <3>2, <4>1 DEF Manifest
          <5> QED
            BY <3>1, <3>3, <5>1 DEF Remembers
        <4> QED
          BY <4>1
      <3> QED
        BY <3>1, <3>2, <3>3 DEF EditedSections
    <2>3. CASE ~WriteManifest(j)
      <3>1. UNCHANGED manifest
        BY <2>1, <2>3, MemoryStep DEF HistInv
      <3> QED
        BY <3>1 DEF EditedSections
    <2> QED
      BY <2>2, <2>3
  <1> QED
    BY <1>1, HistInit, HistNext, PTL DEF Spec, OnlyOwnSection
-----------------------------------------------------------------------------
(* The monoliths: whole when they are named, and built once.               *)

\* merge_lora and quantize_awq build a monolith, and which.
Built == {"merge", "awq"}
Target(r) == IF r.task[1] = "merge" THEN Merged(r.ver) ELSE Awq

\* The monoliths that section s of pipeline p names are whole.
NamesWhole(s, p) ==
  \A d \in Monoliths : d \in {s.model, s.base} => dirs[p][d].st = "complete"

\* What a script uploads to was not there or is no monolith, and what it is
\* going to name is.
UploadOK(r) ==
  /\ TrainPc(r)
  /\ r.pc \in {"upload", "uploading"} /\ r.task[1] \in Built =>
       r.dst = Target(r) /\ dirs[r.task[2]][Target(r)].st = "absent"
  /\ r.pc \in {"upload", "uploading"} /\ r.task[1] \notin Built => r.dst \notin Monoliths
  /\ r.pc \in {"read", "write"} /\ r.task[1] \in Built =>
       dirs[r.task[2]][Target(r)].st = "complete"

\* A manifest in memory may be older than the stored one, when scripts of two
\* pipelines overlap: what it names is whole too.
MonoInv ==
  /\ TypeInv
  /\ \A p \in Pipelines, d \in Dirs : dirs[p][d].st \in {"absent", "complete"}
  /\ \A p \in Pipelines : NamesWhole(manifest[p], p)
  /\ \A j \in Jobs, p \in Pipelines : NamesWhole(job[j].man[p], p)
  /\ \A j \in Jobs : UploadOK(job[j])
  /\ \A i, j \in Jobs : i # j /\ Publishes(job[i]) /\ Publishes(job[j]) => Pipe(i) # Pipe(j)

\* A step that leaves dirs alone and changes the record of one script.
LEMMA MonoRecord ==
  ASSUME MonoInv, TypeInv', NEW j \in Jobs, UNCHANGED <<dirs, manifest>>,
         \A i \in Jobs : job'[i].man \in {job[i].man, manifest, NoManifest},
         \A i \in Jobs : i # j => job'[i] = job[i],
         UploadOK(job'[j]),
         Publishes(job'[j]) =>
           \A i \in Jobs : i # j /\ Publishes(job[i]) => Pipe(i) # job'[j].task[2]
  PROVE  MonoInv'
  <1>1. \A p \in Pipelines : NamesWhole(NoManifest[p], p)
    BY DEF NamesWhole, NoManifest, EmptySection, NoRef, Monoliths, Awq, Merged
  <1>2. \A i \in Jobs, p \in Pipelines : NamesWhole(job'[i].man[p], p)
    BY <1>1 DEF MonoInv
  <1>3. \A i \in Jobs : i = j \/ job'[i] = job[i]
    OBVIOUS
  <1>4. \A i \in Jobs : UploadOK(job'[i])
    BY <1>3 DEF MonoInv
  <1>5. ASSUME NEW i \in Jobs, NEW k \in Jobs, i # k, Publishes(job'[i]), Publishes(job'[k])
        PROVE  job'[i].task[2] # job'[k].task[2]
    BY <1>3, <1>5 DEF MonoInv, Pipe
  <1>6. \A p \in Pipelines : NamesWhole(manifest[p], p)
    BY DEF MonoInv
  <1>7. /\ (\A p \in Pipelines : NamesWhole(manifest[p], p))'
        /\ (\A i \in Jobs, p \in Pipelines : NamesWhole(job[i].man[p], p))'
    BY <1>2, <1>6 DEF NamesWhole
  <1>8. (\A i \in Jobs : UploadOK(job[i]))'
    BY <1>4 DEF UploadOK, TrainPc, Target
  <1>9. (\A i, k \in Jobs : i # k /\ Publishes(job[i]) /\ Publishes(job[k]) => Pipe(i) # Pipe(k))'
    BY <1>5 DEF Publishes, Pipe
  <1>10. (\A p \in Pipelines, d \in Dirs : dirs[p][d].st \in {"absent", "complete"})'
    BY DEF MonoInv
  <1> QED
    BY <1>7, <1>8, <1>9, <1>10 DEF MonoInv

\* A script that goes on.
LEMMA MonoMove ==
  ASSUME MonoInv, TypeInv', NEW j \in Jobs, UNCHANGED <<dirs, manifest>>,
         \A i \in Jobs : job'[i].man \in {job[i].man, manifest, NoManifest},
         \A i \in Jobs : i # j => job'[i] = job[i],
         job[j].pc # "idle", job'[j].task = job[j].task, UploadOK(job'[j])
  PROVE  MonoInv'
  <1>1. job[j] # IdleJob
    BY DEF IdleJob
  <1>2. Publishes(job'[j]) =>
          \A i \in Jobs : i # j /\ Publishes(job[i]) => Pipe(i) # job'[j].task[2]
    BY <1>1 DEF MonoInv, Publishes, Pipe
  <1> QED
    BY <1>2, MonoRecord

\* The free slot uploads nothing.
LEMMA MonoIdle == UploadOK(IdleJob) /\ ~Publishes(IdleJob)
  BY DEF UploadOK, TrainPc, Publishes, IdleJob

\* The steps that leave the storage alone, but the write of the manifest.
LEMMA MonoLocal ==
  ASSUME Local, MonoInv, TypeInv', NEW j \in Jobs,
         \/ \E task \in Tasks : Start(j, task)
         \/ Stop(j) \/ Train(j) \/ Promote(j)
  PROVE  MonoInv'
  <1>1. job \in [Jobs -> Job] /\ job[j] \in Job /\ TypeInv
    BY DEF MonoInv, TypeInv, TypeOK
  <1>2. ~WriteManifest(j) \/ Stop(j)
    <2>1. (\E task \in Tasks : Start(j, task)) => job[j].pc = "idle"
      BY DEF Start, IdleJob
    <2>2. Train(j) => job[j].pc \in {"resolve", "register", "stage", "tag"}
      BY DEF Train, TrainResolve, Register, SetStaging, SetTag, At
    <2>3. Promote(j) => job[j].pc \in {"staging", "compare", "set", "load"}
      BY DEF Promote, ReadStaging, Compare, SetProduction, LoadAdapter, At
    <2> QED
      BY <2>1, <2>2, <2>3 DEF WriteManifest
  <1>3. CASE Stop(j)
    <2>1. job'[j] = IdleJob /\ (\A i \in Jobs : i # j => job'[i] = job[i])
          /\ UNCHANGED <<dirs, manifest>>
      BY <1>1, <1>3 DEF Stop, Finish
    <2>2. \A i \in Jobs : job'[i].man \in {job[i].man, manifest, NoManifest}
      BY <2>1 DEF IdleJob
    <2> QED
      BY <2>1, <2>2, MonoIdle, MonoRecord
  <1>4. CASE ~Stop(j) /\ ~WriteManifest(j)
    <2>0. UNCHANGED manifest /\ \A i \in Jobs : job'[i].man \in {job[i].man, manifest, NoManifest}
      BY <1>1, <1>4, MemoryStep
    <2>1. CASE \E task \in Tasks : Start(j, task)
      <3>1. PICK task \in Tasks : Start(j, task)
        BY <2>1
      <3>2. PICK pc : pc = FirstStep(task[1])
        OBVIOUS
      <3>3. job' = [job EXCEPT ![j].task = task, ![j].pc = pc] /\ UNCHANGED dirs
        BY <3>1, <3>2 DEF Start
      <3>4. /\ job'[j].task = task /\ job'[j].pc = pc
            /\ \A i \in Jobs : i # j => job'[i] = job[i]
        BY <1>1, <3>3 DEF Job
      <3>5. UploadOK(job'[j])
        BY <3>2, <3>4, ReleaseAssumption DEF UploadOK, TrainPc, FirstStep, Built, Kinds
      <3>6. ASSUME NEW i \in Jobs, i # j, Publishes(job[i]), Publishes(job'[j])
            PROVE  Pipe(i) # job'[j].task[2]
        <4>1. <<job[i].task, task>> \in Concurrent
          BY <3>1, <3>6 DEF Start, Publishes
        <4>2. job[i].task[1] # "train" /\ task[1] # "train"
          BY <3>4, <3>6 DEF Publishes
        <4> QED
          BY <3>4, <4>1, <4>2, ReleaseAssumption DEF Pipe
      <3> QED
        BY <2>0, <3>3, <3>4, <3>5, <3>6, MonoRecord
    <2>2. CASE Train(j)
      <3>1. CASE \E score \in Scores : SetTag(j, score)
        <4>1. job'[j] = IdleJob /\ (\A i \in Jobs : i # j => job'[i] = job[i])
              /\ UNCHANGED <<dirs, manifest>>
          BY <1>1, <3>1 DEF SetTag, Finish
        <4> QED
          BY <2>0, <4>1, MonoIdle, MonoRecord
      <3>2. CASE TrainResolve(j) \/ Register(j) \/ SetStaging(j)
        <4>1. /\ job'[j].task = job[j].task /\ job[j].task[1] = "train" /\ job[j].pc # "idle"
              /\ job'[j].pc \in {"register", "stage", "tag"} /\ UNCHANGED dirs
              /\ \A i \in Jobs : i # j => job'[i] = job[i]
          <5>1. CASE TrainResolve(j)
            BY <1>1, <5>1 DEF TrainResolve, Job, At, Kind
          <5>2. CASE Register(j)
            <6>1. PICK pc \in {"stage", "register"} :
                    job' = [job EXCEPT ![j].pc = pc, ![j].ver = Len(versions[Pipe(j)]) + 1]
              BY <5>2 DEF Register
            <6> QED
              BY <1>1, <5>2, <6>1 DEF Register, Job, At, Kind
          <5>3. CASE SetStaging(j)
            BY <1>1, <5>3 DEF SetStaging, Goto, Job, At, Kind
          <5> QED
            BY <3>2, <5>1, <5>2, <5>3
        <4>2. UploadOK(job'[j])
          BY <4>1 DEF UploadOK, TrainPc
        <4> QED
          BY <2>0, <4>1, <4>2, MonoMove
      <3> QED
        BY <2>2, <3>1, <3>2 DEF Train
    <2>3. CASE Promote(j)
      <3>1. /\ job'[j].task = job[j].task /\ job[j].task[1] = "promote" /\ job[j].pc # "idle"
            /\ job'[j].pc \in {"compare", "set", "read", "upload"} /\ UNCHANGED dirs
            /\ job'[j].pc = "upload" => job'[j].dst = Adapter
            /\ \A i \in Jobs : i # j => job'[i] = job[i]
        <4>1. CASE ReadStaging(j)
          BY <1>1, <4>1 DEF ReadStaging, Job, At, Kind
        <4>2. CASE Compare(j)
          <5>1. PICK verdict :
                  job' = [job EXCEPT ![j].pc = IF verdict = "better" THEN "set" ELSE "read",
                                     ![j].verdict = verdict]
            BY <4>2 DEF Compare
          <5> QED
            BY <1>1, <4>2, <5>1 DEF Compare, Job, At, Kind
        <4>3. CASE SetProduction(j)
          BY <1>1, <4>3 DEF SetProduction, Goto, Job, At, Kind
        <4>4. CASE LoadAdapter(j)
          BY <1>1, <4>4 DEF LoadAdapter, Job, At, Kind
        <4> QED
          BY <2>3, <4>1, <4>2, <4>3, <4>4 DEF Promote
      <3>2. Adapter \notin Monoliths /\ "promote" \notin Built
        BY DEF Adapter, Monoliths, Awq, Merged, Built
      <3>3. UploadOK(job'[j])
        BY <3>1, <3>2 DEF UploadOK, TrainPc
      <3> QED
        BY <2>0, <3>1, <3>3, MonoMove
    <2> QED
      BY <1>4, <2>1, <2>2, <2>3
  <1> QED
    BY <1>2, <1>3, <1>4

\* A script that finds its monolith names it, one that does not builds it.
LEMMA MonoDerive ==
  ASSUME MonoInv, TypeInv', NEW j \in Jobs, Derive(j)
  PROVE  MonoInv'
  <1>1. job \in [Jobs -> Job] /\ job[j] \in Job /\ TypeInv
    BY DEF MonoInv, TypeInv, TypeOK
  <1>2. job[j].pc \in {"check", "build", "read", "resolve"} /\ UNCHANGED <<dirs, manifest>>
    BY DEF Derive, MergeCheck, Merge, Quantize, Skip, Build, GgufRead, PrepareCheck,
           IndexResolve, At
  <1>3. \A i \in Jobs : job'[i].man \in {job[i].man, manifest, NoManifest}
    <2>1. ~WriteManifest(j)
      BY <1>2 DEF WriteManifest
    <2> QED
      BY <1>1, <2>1, MemoryStep
  <1>4. ASSUME NEW d \in Dirs, NEW w, Skip(j, d) \/ Build(j, d, w),
               job[j].task[1] \in Built, d = Target(job[j]), Pipe(j) \in Pipelines
        PROVE  MonoInv'
    <2>1. CASE Skip(j, d)
      <3>1. /\ job'[j].task = job[j].task /\ job'[j].pc = "read" /\ job'[j].ver = job[j].ver
            /\ \A i \in Jobs : i # j => job'[i] = job[i]
        BY <1>1, <2>1 DEF Skip, Goto, Job
      <3>2. dirs[Pipe(j)][d].st = "complete" /\ Target(job'[j]) = d
        BY <1>4, <2>1, <3>1 DEF Skip, Exists, MonoInv, Target
      <3>3. UploadOK(job'[j])
        BY <1>4, <3>1, <3>2 DEF UploadOK, TrainPc, Built, Pipe
      <3> QED
        BY <1>2, <1>3, <3>1, <3>3, MonoMove
    <2>2. CASE Build(j, d, w)
      <3>1. /\ job'[j].task = job[j].task /\ job'[j].pc = "upload" /\ job'[j].ver = job[j].ver
            /\ job'[j].dst = d
            /\ \A i \in Jobs : i # j => job'[i] = job[i]
        BY <1>1, <2>2 DEF Build, Job
      <3>2. dirs[Pipe(j)][d].st = "absent" /\ Target(job'[j]) = d
        BY <1>4, <2>2, <3>1 DEF Build, Exists, Target
      <3>3. UploadOK(job'[j])
        BY <1>4, <3>1, <3>2 DEF UploadOK, TrainPc, Built, Pipe
      <3> QED
        BY <1>2, <1>3, <3>1, <3>3, MonoMove
    <2> QED
      BY <1>4, <2>1, <2>2
  <1>5. CASE MergeCheck(j)
    <2>1. /\ job'[j].task = job[j].task /\ job'[j].pc = "build" /\ job[j].task[1] = "merge"
          /\ \A i \in Jobs : i # j => job'[i] = job[i]
      BY <1>1, <1>5 DEF MergeCheck, Job, At, Kind
    <2>2. UploadOK(job'[j])
      BY <2>1 DEF UploadOK, TrainPc
    <2> QED
      BY <1>2, <1>3, <2>1, <2>2, MonoMove
  <1>6. CASE Merge(j)
    <2>1. /\ job[j].task[1] = "merge" /\ job[j].pc = "build" /\ Pipe(j) \in Pipelines
          /\ job[j].ver \in 1..Len(versions[Pipe(j)])
      BY <1>1, <1>6, JobFacts DEF Merge, At, Kind, NeedsVersion
    <2>2. job[j].ver \in 1..MaxVersion
      BY <1>1, <2>1, ReleaseAssumption DEF TypeInv, TypeOK
    <2>3. Merged(job[j].ver) \in Dirs /\ Target(job[j]) = Merged(job[j].ver)
      BY <2>1, <2>2 DEF Dirs, Target
    <2> QED
      BY <1>4, <1>6, <2>1, <2>3 DEF Merge, Built
  <1>7. CASE Quantize(j)
    <2>1. job[j].task[1] = "awq" /\ Pipe(j) \in Pipelines
      BY <1>1, <1>7, JobFacts DEF Quantize, At, Kind
    <2>2. Awq \in Dirs /\ Target(job[j]) = Awq
      BY <2>1 DEF Dirs, Target
    <2> QED
      BY <1>4, <1>7, <2>1, <2>2 DEF Quantize, Built
  <1>8. CASE GgufRead(j) \/ PrepareCheck(j) \/ IndexResolve(j)
    <2>1. /\ job'[j].task = job[j].task /\ job[j].task[1] \in {"gguf", "prepare", "index"}
          /\ job'[j].pc = "upload" => job'[j].dst \in {Prepared, VectorDb}
          /\ job'[j].pc \in {"read", "write", "upload"}
          /\ \A i \in Jobs : i # j => job'[i] = job[i]
      <3>1. CASE GgufRead(j)
        BY <1>1, <3>1 DEF GgufRead, Job, At, Kind
      <3>2. CASE PrepareCheck(j)
        BY <1>1, <3>2 DEF PrepareCheck, Goto, Job, At, Kind
      <3>3. CASE IndexResolve(j)
        BY <1>1, <3>3 DEF IndexResolve, Job, At, Kind
      <3> QED
        BY <1>8, <3>1, <3>2, <3>3
    <2>2. Prepared \notin Monoliths /\ VectorDb \notin Monoliths
      BY DEF Prepared, VectorDb, Monoliths, Awq, Merged
    <2>3. UploadOK(job'[j])
      BY <2>1, <2>2 DEF UploadOK, TrainPc, Built
    <2> QED
      BY <1>2, <1>3, <2>1, <2>3, MonoMove
  <1> QED
    BY <1>5, <1>6, <1>7, <1>8 DEF Derive

\* What is in the storage of the script's own pipeline is nobody else's matter,
\* and an upload touches no monolith that is whole.
LEMMA MonoUpload ==
  ASSUME Local, MonoInv, TypeInv', NEW j \in Jobs, UploadBegin(j) \/ UploadEnd(j)
  PROVE  /\ MonoInv'
         /\ \A p \in Pipelines, d \in Monoliths :
              dirs[p][d].st = "complete" => dirs'[p][d] = dirs[p][d]
  <1>1. /\ job \in [Jobs -> Job] /\ job[j] \in Job /\ TypeInv /\ UploadOK(job[j])
        /\ dirs \in [Pipelines -> [Dirs -> Directory]]
    BY DEF MonoInv, TypeInv, TypeOK
  <1>2. job[j].pc \in {"upload", "uploading"} /\ UNCHANGED manifest
    BY DEF UploadBegin, UploadEnd
  <1>3. /\ Pipe(j) \in Pipelines /\ Kind(j) \in Kinds /\ Publishes(job[j])
        /\ NeedsVersion(job[j]) => job[j].ver \in 1..Len(versions[Pipe(j)])
    BY <1>1, <1>2, JobFacts DEF UploadOK, TrainPc, Publishes, IdleJob, Kind
  <1>4. PICK x, pc :
          /\ dirs' = [dirs EXCEPT ![Pipe(j)][job[j].dst] = x]
          /\ x.st = IF job[j].pc = "upload" THEN "absent" ELSE "complete"
          /\ job' = [job EXCEPT ![j].pc = pc]
          /\ pc = IF job[j].pc = "upload" THEN "uploading"
                  ELSE IF Kind(j) \in {"promote", "prepare"} THEN "write" ELSE "read"
    <2>1. CASE UploadBegin(j)
      BY <2>1 DEF UploadBegin, Goto, AbsentDir
    <2>2. CASE UploadEnd(j)
      <3>1. PICK x, pc :
              /\ x = [st |-> "complete", w |-> job[j].out]
              /\ pc = IF Kind(j) \in {"promote", "prepare"} THEN "write" ELSE "read"
        OBVIOUS
      <3>2. /\ dirs' = [dirs EXCEPT ![Pipe(j)][job[j].dst] = x] /\ job[j].pc = "uploading"
            /\ job' = [job EXCEPT ![j].pc = pc]
        BY <2>2, <3>1 DEF UploadEnd, Goto
      <3>3. x.st = "complete"
        BY <3>1
      <3> QED
        BY <3>1, <3>2, <3>3
    <2> QED
      BY <2>1, <2>2
  <1>5. /\ job'[j].task = job[j].task /\ job'[j].ver = job[j].ver /\ job'[j].dst = job[j].dst
        /\ job'[j].man = job[j].man /\ job'[j].pc = pc
        /\ \A i \in Jobs : i # j => job'[i] = job[i]
    BY <1>1, <1>4 DEF Job
  <1>6. /\ \A p \in Pipelines, d \in Dirs :
             p # Pipe(j) \/ d # job[j].dst => dirs'[p][d] = dirs[p][d]
        /\ job[j].dst \in Dirs => dirs'[Pipe(j)][job[j].dst] = x
    <2>1. dirs'[Pipe(j)] = [dirs[Pipe(j)] EXCEPT ![job[j].dst] = x]
          /\ \A p \in Pipelines : p # Pipe(j) => dirs'[p] = dirs[p]
      BY <1>1, <1>3, <1>4
    <2>2. dirs[Pipe(j)] \in [Dirs -> Directory]
      BY <1>1, <1>3
    <2>3. \A d \in Dirs : dirs'[Pipe(j)][d] = IF d = job[j].dst THEN x ELSE dirs[Pipe(j)][d]
      BY <2>1, <2>2
    <2> QED
      BY <2>1, <2>3
  <1>7. Monoliths \subseteq Dirs
    BY DEF Monoliths, Dirs
  <1>8. ASSUME NEW p \in Pipelines, NEW d \in Monoliths, dirs[p][d].st = "complete"
        PROVE  dirs'[p][d] = dirs[p][d]
    <2>1. CASE p # Pipe(j) \/ d # job[j].dst
      BY <1>6, <1>7, <2>1
    <2>2. CASE p = Pipe(j) /\ d = job[j].dst
      <3>1. CASE job[j].task[1] \in Built
        <4>1. dirs[p][d].st = "absent"
          BY <1>1, <1>2, <2>2, <3>1 DEF UploadOK, Pipe
        <4> QED
          BY <1>8, <4>1
      <3>2. CASE job[j].task[1] \notin Built
        BY <1>1, <1>2, <2>2, <3>2 DEF UploadOK
      <3> QED
        BY <3>1, <3>2
    <2> QED
      BY <2>1, <2>2
  <1>9. \A p \in Pipelines, d \in Dirs : dirs'[p][d].st \in {"absent", "complete"}
    BY <1>4, <1>6 DEF MonoInv
  <1>10. /\ \A p \in Pipelines, d \in Monoliths :
              d \in {manifest[p].model, manifest[p].base} => dirs'[p][d].st = "complete"
         /\ \A i \in Jobs, p \in Pipelines, d \in Monoliths :
              d \in {job'[i].man[p].model, job'[i].man[p].base} => dirs'[p][d].st = "complete"
    <2>1. \A i \in Jobs : job'[i].man = job[i].man
      BY <1>5
    <2> QED
      BY <1>8, <2>1 DEF MonoInv, NamesWhole
  <1>11. (UploadOK(job[j]))'
    <2>1. job[j].task[1] \in Built => Target(job[j]) \in Dirs /\ Target(job'[j]) = Target(job[j])
      <3>1. CASE job[j].task[1] = "merge"
        <4>1. job[j].ver \in 1..Len(versions[Pipe(j)])
          BY <1>2, <1>3, <3>1 DEF NeedsVersion
        <4>2. job[j].ver \in 1..MaxVersion
          BY <1>1, <1>3, <4>1, ReleaseAssumption DEF TypeInv, TypeOK
        <4> QED
          BY <1>5, <3>1, <4>2 DEF Target, Dirs
      <3>2. CASE job[j].task[1] # "merge"
        BY <1>5, <3>2 DEF Target, Dirs
      <3> QED
        BY <3>1, <3>2
    <2>2. job'[j].pc = "uploading" \/ job'[j].pc \in {"read", "write"}
      BY <1>4, <1>5
    <2>3. job'[j].task[1] # "train"
      BY <1>3, <1>5 DEF Publishes
    <2>4. CASE job[j].task[1] \in Built
      <3>1. job[j].dst = Target(job[j]) /\ job[j].dst \in Dirs
        BY <1>1, <1>2, <2>1, <2>4 DEF UploadOK
      <3>2. dirs'[job'[j].task[2]][Target(job'[j])] = x
        BY <1>5, <1>6, <2>1, <2>4, <3>1 DEF Pipe
      <3>3. CASE job[j].pc = "upload"
        BY <1>4, <1>5, <2>1, <2>3, <2>4, <3>1, <3>2, <3>3 DEF UploadOK, TrainPc, Target
      <3>4. CASE job[j].pc = "uploading"
        BY <1>4, <1>5, <2>1, <2>3, <2>4, <3>1, <3>2, <3>4 DEF UploadOK, TrainPc, Target
      <3> QED
        BY <1>2, <3>3, <3>4
    <2>5. CASE job[j].task[1] \notin Built
      <3>1. job'[j].dst \notin Monoliths /\ job'[j].task[1] \notin Built
        BY <1>1, <1>2, <1>5, <2>5 DEF UploadOK
      <3> QED
        BY <2>3, <3>1 DEF UploadOK, TrainPc
    <2> QED
      BY <2>4, <2>5
  <1>12. ASSUME NEW i \in Jobs, i # j PROVE (UploadOK(job[i]))'
    <2>1. job'[i] = job[i] /\ UploadOK(job[i])
      BY <1>5, <1>12 DEF MonoInv
    <2>2. CASE ~Publishes(job[i])
      <3>1. CASE job[i] = IdleJob
        <4>1. job'[i].pc = "idle" /\ job'[i].task[1] = "idle"
          BY <2>1, <3>1 DEF IdleJob
        <4> QED
          BY <4>1 DEF UploadOK, TrainPc
      <3>2. CASE job[i].task[1] = "train"
        <4>1. job'[i].task[1] = "train" /\ job'[i].pc \in {"resolve", "register", "stage", "tag"}
          BY <2>1, <3>2 DEF UploadOK, TrainPc
        <4> QED
          BY <4>1 DEF UploadOK, TrainPc
      <3> QED
        BY <2>2, <3>1, <3>2 DEF Publishes
    <2>3. CASE Publishes(job[i])
      <3>1. Pipe(i) # Pipe(j)
        BY <1>3, <1>12, <2>3 DEF MonoInv
      <3>2. \A d : dirs'[Pipe(i)][d] = dirs[Pipe(i)][d]
        BY <1>1, <1>4, <3>1
      <3> QED
        BY <2>1, <3>2 DEF UploadOK, TrainPc, Target, Pipe
    <2> QED
      BY <2>2, <2>3
  <1>13. ASSUME NEW i \in Jobs, NEW k \in Jobs, i # k, Publishes(job'[i]), Publishes(job'[k])
         PROVE  job'[i].task[2] # job'[k].task[2]
    <2>1. \A h \in Jobs : job'[h].task = job[h].task
      BY <1>5
    <2>2. \A h \in Jobs : Publishes(job'[h]) => Publishes(job[h])
      BY <1>3, <1>5 DEF Publishes
    <2> QED
      BY <1>13, <2>1, <2>2 DEF MonoInv, Pipe
  <1>14. MonoInv'
    <2>1. (\A i \in Jobs : UploadOK(job[i]))'
      BY <1>11, <1>12
    <2>2. /\ (\A p \in Pipelines : NamesWhole(manifest[p], p))'
          /\ (\A i \in Jobs, p \in Pipelines : NamesWhole(job[i].man[p], p))'
      BY <1>2, <1>10 DEF NamesWhole
    <2>3. (\A i, k \in Jobs : i # k /\ Publishes(job[i]) /\ Publishes(job[k]) => Pipe(i) # Pipe(k))'
      BY <1>13 DEF Publishes, Pipe
    <2> QED
      BY <1>9, <2>1, <2>2, <2>3 DEF MonoInv
  <1> QED
    BY <1>8, <1>14

\* What a script writes names only what it has checked or uploaded, besides
\* what was named before.
LEMMA MonoPublish ==
  ASSUME MonoInv, TypeInv', NEW j \in Jobs, ReadManifest(j) \/ WriteManifest(j)
  PROVE  MonoInv'
  <1>1. job \in [Jobs -> Job] /\ job[j] \in Job /\ TypeInv /\ UploadOK(job[j])
    BY DEF MonoInv, TypeInv, TypeOK
  <1>2. job[j].pc \in {"read", "write"} /\ UNCHANGED dirs
    BY DEF ReadManifest, WriteManifest
  <1>3. Pipe(j) \in Pipelines /\ job[j].man \in Manifest
    BY <1>1, <1>2, JobFacts
  <1>4. CASE ReadManifest(j)
    <2>1. UNCHANGED manifest /\ \A i \in Jobs : job'[i].man \in {job[i].man, manifest, NoManifest}
      <3>1. ~WriteManifest(j)
        BY <1>4 DEF ReadManifest, WriteManifest
      <3> QED
        BY <1>1, <1>4, <3>1, MemoryStep DEF Publish
    <2>2. PICK m : job' = [job EXCEPT ![j].man = m,
                                      ![j].pc = CASE Kind(j) = "promote" -> "load"
                                                  [] Kind(j) = "prepare" -> "check"
                                                  [] OTHER               -> "write"]
      BY <1>4 DEF ReadManifest
    <2>3. /\ job'[j].task = job[j].task /\ job'[j].ver = job[j].ver
          /\ job'[j].pc \in {"load", "check", "write"}
          /\ \A i \in Jobs : i # j => job'[i] = job[i]
      BY <1>1, <2>2 DEF Job
    <2>4. job[j].pc = "read" /\ job[j].task[1] # "train"
      BY <1>1, <1>4 DEF ReadManifest, UploadOK, TrainPc
    <2>5. job[j].task[1] \in Built => dirs[job'[j].task[2]][Target(job'[j])].st = "complete"
      BY <1>1, <2>3, <2>4 DEF UploadOK, Target
    <2>6. UploadOK(job'[j])
      BY <2>3, <2>4, <2>5 DEF UploadOK, TrainPc
    <2> QED
      BY <1>2, <2>1, <2>3, <2>4, <2>6, MonoMove
  <1>5. CASE WriteManifest(j)
    <2>1. /\ job'[j] = IdleJob /\ \A i \in Jobs : i # j => job'[i] = job[i]
      BY <1>1, <1>5 DEF WriteManifest, Finish
    <2>2. manifest' = [job[j].man EXCEPT ![Pipe(j)] = Edited(j)] /\ job[j].pc = "write"
      BY <1>5 DEF WriteManifest
    <2>3. PICK s \in Section : s = job[j].man[Pipe(j)]
      BY <1>3 DEF Manifest
    <2>4. NamesWhole(s, Pipe(j))
      BY <1>3, <2>3 DEF MonoInv
    <2>5. /\ Edited(j).model \in {s.model, NoRef, Prepared} \cup
               (IF job[j].task[1] \in Built THEN {Target(job[j])} ELSE {})
          /\ Edited(j).base \in {s.base, s.model, Hub, NoRef}
      BY <2>3 DEF Edited, BaseOf, Section, Kind, Built, Target
    <2>6. Prepared \notin Monoliths /\ NoRef \notin Monoliths /\ Hub \notin Monoliths
      BY DEF Prepared, Hub, NoRef, Monoliths, Awq, Merged
    <2>7. job[j].task[1] \in Built => dirs[Pipe(j)][Target(job[j])].st = "complete"
      BY <1>1, <2>2 DEF UploadOK, Pipe
    <2>8. NamesWhole(Edited(j), Pipe(j))
      BY <2>4, <2>5, <2>6, <2>7 DEF NamesWhole
    <2>9. \A p \in Pipelines : NamesWhole(manifest'[p], p)
      BY <1>3, <2>2, <2>8 DEF MonoInv, Manifest
    <2>10. \A p \in Pipelines : NamesWhole(NoManifest[p], p)
      BY DEF NamesWhole, NoManifest, EmptySection, NoRef, Monoliths, Awq, Merged
    <2>11. \A i \in Jobs, p \in Pipelines : NamesWhole(job'[i].man[p], p)
      BY <2>1, <2>10 DEF MonoInv, IdleJob
    <2>12. \A i \in Jobs : UploadOK(job'[i])
      BY <2>1, MonoIdle DEF MonoInv
    <2>13. ASSUME NEW i \in Jobs, NEW k \in Jobs, i # k, Publishes(job'[i]), Publishes(job'[k])
           PROVE  job'[i].task[2] # job'[k].task[2]
      BY <2>1, <2>13, MonoIdle DEF MonoInv, Pipe
    <2>14. /\ (\A p \in Pipelines : NamesWhole(manifest[p], p))'
           /\ (\A i \in Jobs, p \in Pipelines : NamesWhole(job[i].man[p], p))'
      BY <1>2, <2>9, <2>11 DEF NamesWhole
    <2>15. (\A i \in Jobs : UploadOK(job[i]))'
      BY <1>2, <2>12 DEF UploadOK, TrainPc, Target
    <2>16. (\A i, k \in Jobs : i # k /\ Publishes(job[i]) /\ Publishes(job[k]) => Pipe(i) # Pipe(k))'
      BY <2>13 DEF Publishes, Pipe
    <2>17. (\A p \in Pipelines, d \in Dirs : dirs[p][d].st \in {"absent", "complete"})'
      BY <1>2 DEF MonoInv
    <2> QED
      BY <2>14, <2>15, <2>16, <2>17 DEF MonoInv
  <1> QED
    BY <1>4, <1>5

\* The storage is empty at first.
LEMMA MonoInit == Init => MonoInv
  <1> SUFFICES ASSUME Init PROVE MonoInv
    OBVIOUS
  <1>1. \A p \in Pipelines : NamesWhole(NoManifest[p], p)
    BY DEF NamesWhole, NoManifest, EmptySection, NoRef, Monoliths, Awq, Merged
  <1>2. /\ \A j \in Jobs : job[j] = IdleJob
        /\ manifest = NoManifest /\ IdleJob.man = NoManifest
        /\ \A p \in Pipelines, d \in Dirs : dirs[p][d].st = "absent"
    BY DEF Init, IdleJob, AbsentDir
  <1> QED
    BY <1>1, <1>2, TypeInit, MonoIdle DEF MonoInv

\* A step keeps the invariant, and no whole monolith changes.
LEMMA MonoNext ==
  ASSUME Local, MonoInv, [Next]_vars
  PROVE  /\ MonoInv'
         /\ \A p \in Pipelines, d \in Monoliths :
              dirs[p][d].st = "complete" => dirs'[p][d] = dirs[p][d]
  <1>1. TypeInv'
    BY TypeNext DEF MonoInv
  <1>2. CASE Next
    <2>1. PICK j \in Jobs : \/ \E task \in Tasks : Start(j, task)
                            \/ Stop(j) \/ Train(j) \/ Promote(j) \/ Derive(j) \/ Publish(j)
      BY <1>2 DEF Next
    <2>2. CASE UploadBegin(j) \/ UploadEnd(j)
      BY <1>1, <2>2, MonoUpload
    <2>3. CASE ReadManifest(j) \/ WriteManifest(j)
      <3>1. UNCHANGED dirs
        BY <2>3 DEF ReadManifest, WriteManifest
      <3> QED
        BY <1>1, <2>3, <3>1, MonoPublish
    <2>4. CASE Derive(j)
      <3>1. UNCHANGED dirs
        BY <2>4 DEF Derive, MergeCheck, Merge, Quantize, Skip, Build, GgufRead, PrepareCheck,
                    IndexResolve
      <3> QED
        BY <1>1, <2>4, <3>1, MonoDerive
    <2>5. CASE (\E task \in Tasks : Start(j, task)) \/ Stop(j) \/ Train(j) \/ Promote(j)
      <3>1. UNCHANGED dirs
        BY <2>5 DEF Start, Stop, Train, TrainResolve, Register, SetStaging, SetTag,
                    Promote, ReadStaging, Compare, SetProduction, LoadAdapter
      <3> QED
        BY <1>1, <2>5, <3>1, MonoLocal
    <2> QED
      BY <2>1, <2>2, <2>3, <2>4, <2>5 DEF Publish
  <1>3. CASE UNCHANGED vars
    BY <1>1, <1>3 DEF vars, MonoInv, NamesWhole, UploadOK, TrainPc, Target, Publishes, Pipe
  <1> QED
    BY <1>2, <1>3

\* With storage that renames a finished upload into place, a merged or quantized
\* model that a section names is there with all its files, also when scripts
\* of different pipelines undo each other's sections.
THEOREM MonolithsWhole == Local => (Spec => []PublishedMonolithIntact)
  <1> SUFFICES ASSUME Local PROVE Spec => []PublishedMonolithIntact
    OBVIOUS
  <1>1. MonoInv /\ [Next]_vars => MonoInv'
    BY MonoNext
  <1>2. MonoInv => PublishedMonolithIntact
    <2>1. Monoliths \subseteq Dirs
      BY DEF Monoliths, Dirs
    <2> QED
      BY <2>1 DEF MonoInv, NamesWhole, PublishedMonolithIntact
  <1> QED
    BY <1>1, <1>2, MonoInit, PTL DEF Spec

\* ... and it never changes: the check for the directory and its upload are far
\* apart, but nobody else of the pipeline publishes in between.
THEOREM MonolithsFixed == Local => (Spec => MonolithWriteOnce)
  <1> SUFFICES ASSUME Local PROVE Spec => MonolithWriteOnce
    OBVIOUS
  <1> DEFINE Kept == \A p \in Pipelines, d \in Monoliths :
                       dirs[p][d].st = "complete" => dirs'[p][d] = dirs[p][d]
  <1>1. MonoInv /\ [Next]_vars => MonoInv'
    BY MonoNext
  <1>2. MonoInv /\ [Next]_vars => [Kept]_vars
    BY MonoNext
  <1> QED
    BY <1>1, <1>2, MonoInit, PTL DEF Spec, MonolithWriteOnce
-----------------------------------------------------------------------------
(* What promote publishes.                                                 *)

\* From the read of the alias to the write of the manifest.
PromOK(r) ==
  r.task[1] = "promote" =>
    /\ r.pc \in {"upload", "uploading"} =>
         r.dst = Adapter /\ r.out = <<production[r.task[2]]>>
    /\ r.pc = "write" =>
         dirs[r.task[2]][Adapter] = [st |-> "complete", w |-> <<production[r.task[2]]>>]

PromInv == MonoInv /\ \A j \in Jobs : PromOK(job[j])

\* A step changes the record of one script only.
LEMMA OnlyActor ==
  ASSUME MonoInv, NEW j \in Jobs, NEW i \in Jobs, i # j,
         \/ \E task \in Tasks : Start(j, task)
         \/ Stop(j) \/ Train(j) \/ Promote(j) \/ Derive(j) \/ Publish(j)
  PROVE  job'[i] = job[i]
  <1>1. job \in [Jobs -> Job]
    BY DEF MonoInv, TypeInv, TypeOK
  <1>2. CASE \E task \in Tasks : Start(j, task)
    BY <1>1, <1>2 DEF Start
  <1>3. CASE Stop(j)
    BY <1>1, <1>3 DEF Stop, Finish
  <1>4. CASE Train(j)
    BY <1>1, <1>4 DEF Train, TrainResolve, Register, SetStaging, SetTag, Goto, Finish
  <1>5. CASE Promote(j)
    BY <1>1, <1>5 DEF Promote, ReadStaging, Compare, SetProduction, LoadAdapter, Goto
  <1>6. CASE Derive(j)
    BY <1>1, <1>6 DEF Derive, MergeCheck, Merge, Quantize, Skip, Build, GgufRead,
                      PrepareCheck, IndexResolve, Goto
  <1>7. CASE Publish(j)
    BY <1>1, <1>7 DEF Publish, ReadManifest, UploadBegin, UploadEnd, WriteManifest, Goto, Finish
  <1> QED
    BY <1>2, <1>3, <1>4, <1>5, <1>6, <1>7

\* Another script moves neither the alias nor the directories of a pipeline
\* that is being promoted.
LEMMA PromOther ==
  ASSUME MonoInv, NEW j \in Jobs, NEW i \in Jobs, i # j,
         \/ \E task \in Tasks : Start(j, task)
         \/ Stop(j) \/ Train(j) \/ Promote(j) \/ Derive(j) \/ Publish(j),
         job[i].task[1] = "promote"
  PROVE  /\ job'[i] = job[i]
         /\ production'[Pipe(i)] = production[Pipe(i)]
         /\ dirs'[Pipe(i)] = dirs[Pipe(i)]
  <1>1. /\ job \in [Jobs -> Job] /\ job[j] \in Job /\ UploadOK(job[j])
        /\ dirs \in [Pipelines -> [Dirs -> Directory]]
        /\ production \in [Pipelines -> 0..MaxVersion]
    BY DEF MonoInv, TypeInv, TypeOK
  <1>2. Publishes(job[i])
    BY DEF Publishes, IdleJob
  <1>3. Publishes(job[j]) => Pipe(i) # Pipe(j)
    BY <1>2 DEF MonoInv
  <1>4. CASE SetProduction(j)
    <2>1. Publishes(job[j])
      BY <1>4 DEF SetProduction, At, Kind, Publishes, IdleJob
    <2>2. /\ production' = [production EXCEPT ![Pipe(j)] = job[j].ver] /\ UNCHANGED dirs
          /\ job'[i] = job[i]
      BY <1>1, <1>4 DEF SetProduction, Goto
    <2> QED
      BY <1>1, <1>3, <2>1, <2>2
  <1>5. CASE UploadBegin(j) \/ UploadEnd(j)
    <2>1. Publishes(job[j])
      BY <1>1, <1>5 DEF UploadBegin, UploadEnd, UploadOK, TrainPc, Publishes, IdleJob
    <2>2. PICK x : dirs' = [dirs EXCEPT ![Pipe(j)][job[j].dst] = x]
      BY <1>5 DEF UploadBegin, UploadEnd
    <2>3. UNCHANGED production /\ job'[i] = job[i]
      BY <1>1, <1>5 DEF UploadBegin, UploadEnd, Goto, registry
    <2> QED
      BY <1>1, <1>3, <2>1, <2>2, <2>3
  <1>6. CASE \/ \E task \in Tasks : Start(j, task)
             \/ Stop(j) \/ Train(j)
             \/ ReadStaging(j) \/ Compare(j) \/ LoadAdapter(j)
             \/ Derive(j) \/ ReadManifest(j) \/ WriteManifest(j)
    <2>1. UNCHANGED <<production, dirs>>
      BY <1>6 DEF Start, Stop, Train, TrainResolve, Register, SetStaging, SetTag,
                  ReadStaging, Compare, LoadAdapter, Derive, MergeCheck, Merge, Quantize,
                  Skip, Build, GgufRead, PrepareCheck, IndexResolve, ReadManifest,
                  WriteManifest, registry
    <2>2. job'[i] = job[i]
      BY OnlyActor
    <2> QED
      BY <2>1, <2>2
  <1> QED
    BY <1>4, <1>5, <1>6 DEF Promote, Publish

\* The promoter's own steps.
LEMMA PromSelf ==
  ASSUME Local, MonoInv, NEW j \in Jobs, PromOK(job[j]), job'[j].task[1] = "promote",
         \/ \E task \in Tasks : Start(j, task)
         \/ Stop(j) \/ Train(j) \/ Promote(j) \/ Derive(j) \/ Publish(j)
  PROVE  PromOK(job[j])'
  <1>1. /\ job \in [Jobs -> Job] /\ job[j] \in Job /\ TypeInv
        /\ dirs \in [Pipelines -> [Dirs -> Directory]]
    BY DEF MonoInv, TypeInv, TypeOK
  <1>2. CASE \E task \in Tasks : Start(j, task)
    <2>1. PICK task \in Tasks : Start(j, task)
      BY <1>2
    <2>2. PICK pc : pc = FirstStep(task[1])
      OBVIOUS
    <2>3. job' = [job EXCEPT ![j].task = task, ![j].pc = pc]
      BY <2>1, <2>2 DEF Start
    <2>4. job'[j].task = task /\ job'[j].pc = pc
      BY <1>1, <2>3 DEF Job
    <2>5. job'[j].pc = "staging"
      BY <2>2, <2>4 DEF FirstStep
    <2> QED
      BY <2>5 DEF PromOK
  <1>3. CASE Stop(j) \/ WriteManifest(j) \/ \E score \in Scores : SetTag(j, score)
    <2>1. job'[j] = IdleJob
      BY <1>1, <1>3 DEF Stop, WriteManifest, SetTag, Finish
    <2> QED
      BY <2>1 DEF IdleJob
  <1>4. CASE TrainResolve(j) \/ Register(j) \/ SetStaging(j) \/ Derive(j)
    <2>1. job'[j].task = job[j].task
      <3>1. CASE TrainResolve(j) \/ SetStaging(j)
        BY <1>1, <3>1 DEF TrainResolve, SetStaging, Goto, Job
      <3>2. CASE MergeCheck(j) \/ GgufRead(j) \/ PrepareCheck(j) \/ IndexResolve(j)
        BY <1>1, <3>2 DEF MergeCheck, GgufRead, PrepareCheck, IndexResolve, Goto, Job
      <3>3. CASE Merge(j) \/ Quantize(j)
        <4>1. ASSUME NEW d, NEW w, Skip(j, d) \/ Build(j, d, w)
              PROVE  job'[j].task = job[j].task
          BY <1>1, <4>1 DEF Skip, Build, Goto, Job
        <4> QED
          BY <3>3, <4>1 DEF Merge, Quantize
      <3>4. CASE Register(j)
        <4>1. PICK pc \in {"stage", "register"} :
                job' = [job EXCEPT ![j].pc = pc, ![j].ver = Len(versions[Pipe(j)]) + 1]
          BY <3>4 DEF Register
        <4> QED
          BY <1>1, <4>1 DEF Job
      <3> QED
        BY <1>4, <3>1, <3>2, <3>3, <3>4 DEF Derive
    <2>2. job[j].task[1] # "promote"
      BY <1>4 DEF TrainResolve, Register, SetStaging, Derive, MergeCheck, Merge, Quantize,
                  GgufRead, PrepareCheck, IndexResolve, At, Kind
    <2> QED
      BY <2>1, <2>2
  <1>5. CASE ReadStaging(j) \/ Compare(j) \/ SetProduction(j)
    <2>1. job'[j].pc \in {"compare", "set", "read"}
      <3>1. CASE ReadStaging(j)
        BY <1>1, <3>1 DEF ReadStaging, Job
      <3>2. CASE Compare(j)
        <4>1. PICK verdict :
                job' = [job EXCEPT ![j].pc = IF verdict = "better" THEN "set" ELSE "read",
                                   ![j].verdict = verdict]
          BY <3>2 DEF Compare
        <4> QED
          BY <1>1, <4>1 DEF Job
      <3>3. CASE SetProduction(j)
        BY <1>1, <3>3 DEF SetProduction, Goto, Job
      <3> QED
        BY <1>5, <3>1, <3>2, <3>3
    <2> QED
      BY <2>1 DEF PromOK
  <1>6. CASE LoadAdapter(j)
    <2>1. /\ job'[j].pc = "upload" /\ job'[j].dst = Adapter /\ job'[j].task = job[j].task
          /\ job'[j].out = <<production[Pipe(j)]>> /\ UNCHANGED production
      BY <1>1, <1>6 DEF LoadAdapter, Job, registry
    <2> QED
      BY <2>1 DEF PromOK, Pipe
  <1>7. CASE ReadManifest(j)
    <2>1. PICK m : job' = [job EXCEPT ![j].man = m,
                                      ![j].pc = CASE Kind(j) = "promote" -> "load"
                                                  [] Kind(j) = "prepare" -> "check"
                                                  [] OTHER               -> "write"]
      BY <1>7 DEF ReadManifest
    <2>2. job'[j].pc = "load"
      BY <1>1, <2>1 DEF Job, Kind
    <2> QED
      BY <2>2 DEF PromOK
  <1>8. CASE UploadBegin(j)
    <2>1. /\ job'[j].pc = "uploading" /\ job'[j].dst = job[j].dst /\ job'[j].task = job[j].task
          /\ job'[j].out = job[j].out /\ UNCHANGED production /\ job[j].pc = "upload"
      BY <1>1, <1>8 DEF UploadBegin, Goto, Job, registry
    <2> QED
      BY <2>1 DEF PromOK
  <1>9. CASE UploadEnd(j)
    <2>1. /\ job[j].pc = "uploading" /\ UNCHANGED production
          /\ dirs' = [dirs EXCEPT ![Pipe(j)][job[j].dst] = [st |-> "complete", w |-> job[j].out]]
      BY <1>9 DEF UploadEnd, registry
    <2>2. job'[j].task = job[j].task /\ job'[j].pc \in {"read", "write"}
      <3>1. PICK pc \in {"read", "write"} : job' = [job EXCEPT ![j].pc = pc]
        BY <1>9 DEF UploadEnd, Goto
      <3> QED
        BY <1>1, <3>1 DEF Job
    <2>3. Pipe(j) \in Pipelines /\ Adapter \in Dirs
      BY <1>1, <2>1, JobFacts DEF Dirs
    <2>4. job[j].dst = Adapter /\ job[j].out = <<production[Pipe(j)]>>
      BY <2>1, <2>2 DEF PromOK, Pipe
    <2>5. dirs'[Pipe(j)][Adapter] = [st |-> "complete", w |-> <<production[Pipe(j)]>>]
      <3>1. PICK x : x = [st |-> "complete", w |-> <<production[Pipe(j)]>>]
        OBVIOUS
      <3>2. dirs[Pipe(j)] \in [Dirs -> Directory]
        BY <1>1, <2>3
      <3>3. dirs'[Pipe(j)] = [dirs[Pipe(j)] EXCEPT ![Adapter] = x]
        BY <1>1, <2>1, <2>3, <2>4, <3>1
      <3> QED
        BY <2>3, <3>1, <3>2, <3>3
    <2> QED
      BY <2>1, <2>2, <2>5 DEF PromOK, Pipe
  <1> QED
    BY <1>2, <1>3, <1>4, <1>5, <1>6, <1>7, <1>8, <1>9 DEF Train, Promote, Publish

\* A step keeps PromInv.
LEMMA PromNext ==
  ASSUME Local, PromInv, [Next]_vars
  PROVE  PromInv'
  <1>1. MonoInv /\ MonoInv'
    BY MonoNext DEF PromInv
  <1>2. CASE Next
    <2>1. PICK j \in Jobs : \/ \E task \in Tasks : Start(j, task)
                            \/ Stop(j) \/ Train(j) \/ Promote(j) \/ Derive(j) \/ Publish(j)
      BY <1>2 DEF Next
    <2>2. PromOK(job[j])'
      <3>1. CASE job'[j].task[1] = "promote"
        BY <1>1, <2>1, <3>1, PromSelf DEF PromInv
      <3>2. CASE job'[j].task[1] # "promote"
        BY <3>2 DEF PromOK
      <3> QED
        BY <3>1, <3>2
    <2>3. ASSUME NEW i \in Jobs, i # j PROVE PromOK(job[i])'
      <3>1. CASE job[i].task[1] = "promote"
        <4>1. /\ job'[i] = job[i]
              /\ production'[Pipe(i)] = production[Pipe(i)]
              /\ dirs'[Pipe(i)] = dirs[Pipe(i)]
          BY <1>1, <2>1, <2>3, <3>1, PromOther
        <4>2. PromOK(job[i])
          BY DEF PromInv
        <4> QED
          BY <4>1, <4>2 DEF PromOK, Pipe
      <3>2. CASE job[i].task[1] # "promote"
        <4>1. job'[i] = job[i]
          BY <1>1, <2>1, <2>3, OnlyActor
        <4> QED
          BY <3>2, <4>1 DEF PromOK
      <3> QED
        BY <3>1, <3>2
    <2> QED
      BY <1>1, <2>2, <2>3 DEF PromInv
  <1>3. CASE UNCHANGED vars
    BY <1>1, <1>3 DEF vars, PromInv, PromOK
  <1> QED
    BY <1>2, <1>3

\* On storage that renames uploads into place, what promote is about to name in
\* the manifest is the version that Production names, whatever was killed and
\* whoever trains meanwhile.
THEOREM PromotedIsProduction == Local => (Spec => []PromotePublishesProduction)
  <1> SUFFICES ASSUME Local PROVE Spec => []PromotePublishesProduction
    OBVIOUS
  <1>1. Init => PromInv
    <2> SUFFICES ASSUME Init PROVE PromInv
      OBVIOUS
    <2>1. \A j \in Jobs : job[j] = IdleJob
      BY DEF Init
    <2>2. PromOK(IdleJob)
      BY DEF PromOK, IdleJob
    <2> QED
      BY <2>1, <2>2, MonoInit DEF PromInv
  <1>2. PromInv /\ [Next]_vars => PromInv'
    BY PromNext
  <1>3. PromInv => PromotePublishesProduction
    BY DEF PromInv, PromOK, PromotePublishesProduction, At, Kind, Pipe
  <1> QED
    BY <1>1, <1>2, <1>3, PTL DEF Spec
-----------------------------------------------------------------------------
(***************************************************************************)
(* The registry of Release implements ProductionRegistry, for every number *)
(* of jobs and every schedule that runs one promotion of a pipeline at a   *)
(* time, when reads of the registry do not fail.                           *)
(***************************************************************************)
\* The two assumptions; the run release_flaky shows what happens without the
\* second.
PromotersExclude ==
  /\ \A p \in Pipelines : <<<<"promote", p>>, <<"promote", p>>>> \notin Concurrent
  /\ ~LossyReads

Untagged(r) == r.task[1] = "train" /\ r.pc \in {"stage", "tag"}

\* What a record says of the tag of the version it works on.
TagOK(r) ==
  /\ Untagged(r) => Tag(r.task[2], r.ver) = NoTag
  /\ r.task[1] = "promote" /\ r.pc # "staging" => Tag(r.task[2], r.ver) # NoTag
  /\ r.task[1] = "promote" /\ r.pc = "set" => Better(r.task[2], r.ver)

\* The records of two processes: no version is tagged by two trainers, no
\* pipeline has two promoters.
Apart(q, r) ==
  /\ Untagged(q) /\ Untagged(r) /\ q.task = r.task => q.ver # r.ver
  /\ q.task[1] = "promote" => q.task # r.task

\* The inductive invariant.
RegInv ==
  /\ TypeInv
  /\ \A p \in Pipelines : production[p] # 0 => Tag(p, production[p]) # NoTag
  /\ \A j \in Jobs : TagOK(job[j])
  /\ \A i, j \in Jobs : i # j => Apart(job[i], job[j])

\* The initial state satisfies the inductive invariant.
LEMMA RegInit == Init => RegInv
  <1> SUFFICES ASSUME Init PROVE RegInv
    OBVIOUS
  <1>1. ASSUME NEW j \in Jobs PROVE job[j] = IdleJob
    BY DEF Init
  <1>2. TagOK(IdleJob) /\ Apart(IdleJob, IdleJob)
    BY DEF TagOK, Apart, Untagged, IdleJob
  <1>3. \A p \in Pipelines : production[p] = 0
    BY DEF Init
  <1> QED
    BY <1>1, <1>2, <1>3, TypeInit DEF RegInv

\* A step of job j that leaves the registry alone and gives j the record r.
LEMMA RegRecord ==
  ASSUME RegInv, TypeInv', NEW j \in Jobs, NEW r \in Job,
         job' = [job EXCEPT ![j] = r], UNCHANGED registry, TagOK(r),
         \A i \in Jobs : i # j => Apart(job[i], r) /\ Apart(r, job[i])
  PROVE  RegInv'
  <1>1. job \in [Jobs -> Job] /\ job'[j] = r /\ \A i \in Jobs : i # j => job'[i] = job[i]
    BY DEF RegInv, TypeInv, TypeOK
  <1>2. ASSUME NEW i \in Jobs PROVE TagOK(job[i])'
    BY <1>1 DEF RegInv, TagOK, Untagged, Tag, Better, registry
  <1>3. ASSUME NEW i \in Jobs, NEW k \in Jobs, i # k PROVE Apart(job'[i], job'[k])
    BY <1>1, <1>3 DEF RegInv
  <1>4. \A p \in Pipelines : production'[p] # 0 => Tag(p, production[p])' # NoTag
    BY DEF RegInv, Tag, registry
  <1> QED
    BY <1>2, <1>3, <1>4 DEF RegInv, Apart, Untagged

\* ... when j goes on with its task, and is no trainer with a new version.
LEMMA RegGoesOn ==
  ASSUME RegInv, TypeInv', NEW j \in Jobs, NEW r \in Job,
         job' = [job EXCEPT ![j] = r], UNCHANGED registry, TagOK(r),
         r.task = job[j].task,
         Untagged(r) => Untagged(job[j]) /\ r.ver = job[j].ver
  PROVE  RegInv'
  <1>1. \A i \in Jobs : i # j => Apart(job[i], job[j]) /\ Apart(job[j], job[i])
    BY DEF RegInv
  <1>2. \A i \in Jobs : i # j => Apart(job[i], r) /\ Apart(r, job[i])
    BY <1>1 DEF Apart
  <1> QED
    BY <1>2, RegRecord

\* ... when its process ends.
LEMMA RegEnds ==
  ASSUME RegInv, TypeInv', NEW j \in Jobs, Finish(j), UNCHANGED registry
  PROVE  RegInv'
  <1>1. TagOK(IdleJob)
    BY DEF TagOK, Untagged, IdleJob
  <1>2. \A i \in Jobs : Apart(job[i], IdleJob) /\ Apart(IdleJob, job[i])
    BY DEF Apart, Untagged, IdleJob
  <1> QED
    BY <1>1, <1>2, IdleJobType, RegRecord DEF Finish
-----------------------------------------------------------------------------
(* Every action keeps the invariant.                                       *)

\* A promoter starts only where no promoter of its pipeline runs.
LEMMA RegStart ==
  ASSUME PromotersExclude, RegInv, TypeInv', NEW j \in Jobs, NEW task \in Tasks,
         Start(j, task)
  PROVE  RegInv'
  <1> DEFINE r == [IdleJob EXCEPT !.task = task, !.pc = FirstStep(task[1])]
  <1>1. r \in Job /\ r.task = task /\ r.pc = FirstStep(task[1])
    BY IdleJobType DEF Job, FirstStep, Pcs, IdleJob
  <1>2. job' = [job EXCEPT ![j] = r] /\ UNCHANGED registry
    BY DEF Start
  <1>3. TagOK(r) /\ ~Untagged(r)
    BY <1>1 DEF TagOK, Untagged, FirstStep
  <1>4. ASSUME NEW i \in Jobs, i # j, job[i].task = task, task[1] = "promote" PROVE FALSE
    <2>1. task[2] \in Pipelines /\ task = <<"promote", task[2]>>
      BY <1>4, ReleaseAssumption
    <2>2. job[i] # IdleJob
      BY <1>4 DEF IdleJob
    <2> QED
      BY <1>4, <2>1, <2>2 DEF Start, PromotersExclude
  <1>5. \A i \in Jobs : i # j => Apart(job[i], r) /\ Apart(r, job[i])
    BY <1>1, <1>3, <1>4 DEF Apart
  <1> QED
    BY <1>1, <1>2, <1>3, <1>5, RegRecord

\* What a change of the registered versions must respect: every tag that is
\* there stays, and the new records fit.
LEMMA RegTrain ==
  ASSUME RegInv, TypeInv', NEW j \in Jobs, Train(j)
  PROVE  RegInv'
  <1>1. /\ job[j] \in Job /\ job \in [Jobs -> Job] /\ Pipe(j) \in Pipelines
        /\ Kind(j) = "train" /\ job[j].task[1] = "train" /\ job[j].task[2] = Pipe(j)
    BY JobFacts DEF RegInv, Train, TrainResolve, Register, SetStaging, SetTag, At, Kind, Pipe
  <1>2. CASE TrainResolve(j)
    <2> DEFINE r == [job[j] EXCEPT !.pc = "register",
                                   !.out = ResolvedBase(Pipe(j), manifest[Pipe(j)])]
    <2>1. r \in Job /\ r.task = job[j].task /\ r.pc = "register"
      BY <1>1, ResolvedBaseType DEF RegInv, TypeInv, Job, Pcs
    <2>2. TagOK(r) /\ ~Untagged(r)
      BY <1>1, <2>1 DEF TagOK, Untagged
    <2>3. job' = [job EXCEPT ![j] = r] /\ UNCHANGED registry
      BY <1>2 DEF TrainResolve
    <2> QED
      BY <2>1, <2>2, <2>3, RegGoesOn
  <1>3. CASE Register(j)
    <2>1. PICK p, n, new : p = Pipe(j) /\ n = Len(versions[p]) + 1
                           /\ new = [tag |-> NoTag, on |-> job[j].out]
      OBVIOUS
    <2>2. /\ p \in Pipelines /\ versions \in [Pipelines -> Seq(Version)]
          /\ versions[p] \in Seq(Version)
          /\ versions' = [versions EXCEPT ![p] = Append(versions[p], new)]
          /\ UNCHANGED production
      BY <1>1, <1>3, <2>1 DEF Register, RegInv, TypeInv, TypeOK
    <2>3. Tag(p, n)' = NoTag
      BY <2>1, <2>2 DEF Tag
    <2>4. ASSUME NEW q \in Pipelines, NEW v \in 1..Len(versions[q])
          PROVE  Tag(q, v)' = Tag(q, v)
      <3>1. v \in 1..Len(versions[q]) /\ versions[q] \in Seq(Version)
        BY <2>2
      <3>2. CASE q = p
        BY <2>2, <3>1, <3>2 DEF Tag
      <3>3. CASE q # p
        BY <2>2, <3>3 DEF Tag
      <3> QED
        BY <3>2, <3>3
    <2>5. \A q \in Pipelines : production[q] \in 0..Len(versions[q]) /\ Len(versions[q]) \in Nat
      BY DEF RegInv, TypeInv, TypeOK
    <2>6. \A q \in Pipelines : production'[q] # 0 => Tag(q, production[q])' # NoTag
      BY <2>2, <2>4, <2>5 DEF RegInv, Tag
    <2>7. PICK pc \in {"stage", "register"} :
            job' = [job EXCEPT ![j].pc = pc, ![j].ver = n]
      BY <1>3, <2>1 DEF Register
    <2>8. /\ job'[j].task = job[j].task /\ job'[j].ver = n
          /\ \A i \in Jobs : i # j => job'[i] = job[i]
      BY <1>1, <2>7 DEF Job
    <2>9. TagOK(job[j])'
      BY <1>1, <2>1, <2>3, <2>8 DEF TagOK, Untagged
    <2>10. ASSUME NEW i \in Jobs, i # j PROVE TagOK(job[i])'
      <3>1. TagOK(job[i]) /\ job'[i] = job[i]
        BY <2>8, <2>10 DEF RegInv
      <3>2. Untagged(job[i]) \/ (job[i].task[1] = "promote" /\ job[i].pc # "staging")
              => job[i].task[2] \in Pipelines
                 /\ job[i].ver \in 1..Len(versions[job[i].task[2]])
        <4>1. Untagged(job[i]) => NeedsVersion(job[i]) /\ job[i].pc # "idle"
          BY DEF Untagged, NeedsVersion
        <4>2. job[i].task[1] = "promote" /\ job[i].pc # "staging" => NeedsVersion(job[i])
          BY DEF NeedsVersion
        <4>3. job[i].task[1] = "promote" => job[i].task \in Tasks
          BY JobFacts DEF RegInv, Job, IdleJob
        <4> QED
          BY <4>1, <4>2, <4>3, JobFacts, ReleaseAssumption DEF RegInv, Pipe
      <3>3. \A q \in Pipelines : \A v \in 1..Len(versions[q]) : Better(q, v) => Better(q, v)'
        BY <2>2, <2>4, <2>5 DEF Better
      <3> QED
        BY <2>4, <3>1, <3>2, <3>3 DEF TagOK, Untagged
    <2>11. ASSUME NEW i \in Jobs, i # j PROVE Apart(job'[i], job'[j]) /\ Apart(job'[j], job'[i])
      <3>1. Untagged(job[i]) /\ job[i].task = job[j].task => job[i].ver \in 1..Len(versions[p])
        BY <1>1, <2>1, JobFacts DEF RegInv, Untagged, NeedsVersion, Pipe
      <3>2. Untagged(job[i]) /\ job[i].task = job[j].task => job[i].ver # n
        BY <2>1, <2>5, <2>2, <3>1
      <3> QED
        BY <1>1, <2>8, <2>11, <3>2 DEF Apart, Untagged
    <2>12. ASSUME NEW i \in Jobs, NEW k \in Jobs, i # k PROVE Apart(job'[i], job'[k])
      BY <2>8, <2>11, <2>12 DEF RegInv
    <2> QED
      BY <2>6, <2>9, <2>10, <2>12 DEF RegInv, Apart, Untagged
  <1>4. CASE SetStaging(j)
    <2>1. /\ job[j].pc = "stage" /\ job'[j] = [job[j] EXCEPT !.pc = "tag"]
          /\ \A i \in Jobs : i # j => job'[i] = job[i]
          /\ UNCHANGED <<versions, production>>
      BY <1>1, <1>4 DEF SetStaging, Goto, At
    <2>2. /\ job'[j].task = job[j].task /\ job'[j].pc = "tag" /\ job'[j].ver = job[j].ver
      BY <1>1, <2>1 DEF Job
    <2>3. ASSUME NEW i \in Jobs PROVE TagOK(job[i])'
      <3>1. TagOK(job[i])
        BY DEF RegInv
      <3>2. CASE i = j
        BY <1>1, <2>1, <2>2, <3>1, <3>2 DEF TagOK, Untagged, Tag
      <3>3. CASE i # j
        BY <2>1, <3>1, <3>3 DEF TagOK, Untagged, Tag, Better
      <3> QED
        BY <3>2, <3>3
    <2>4. ASSUME NEW i \in Jobs, NEW k \in Jobs, i # k PROVE Apart(job'[i], job'[k])
      <3>1. Apart(job[i], job[k])
        BY <2>4 DEF RegInv
      <3>2. Untagged(job[j]) /\ Untagged(job'[j])
        BY <1>1, <2>1, <2>2 DEF Untagged
      <3>3. CASE i = j
        BY <2>1, <2>2, <2>4, <3>1, <3>2, <3>3 DEF Apart
      <3>4. CASE k = j
        BY <2>1, <2>2, <2>4, <3>1, <3>2, <3>4 DEF Apart
      <3>5. CASE i # j /\ k # j
        BY <2>1, <3>1, <3>5
      <3> QED
        BY <3>3, <3>4, <3>5
    <2>5. \A q \in Pipelines : production'[q] # 0 => Tag(q, production[q])' # NoTag
      BY <2>1 DEF RegInv, Tag
    <2> QED
      BY <2>3, <2>4, <2>5 DEF RegInv, Apart, Untagged
  <1>5. ASSUME NEW score \in Scores, SetTag(j, score) PROVE RegInv'
    <2>1. PICK p, v : p = Pipe(j) /\ v = job[j].ver
      OBVIOUS
    <2>2. /\ Untagged(job[j]) /\ p \in Pipelines /\ v \in 1..Len(versions[p])
          /\ Tag(p, v) = NoTag
      BY <1>1, <1>5, <2>1, JobFacts DEF RegInv, SetTag, At, Untagged, NeedsVersion, TagOK
    <2>3. /\ versions' = [versions EXCEPT ![p][v].tag = score] /\ UNCHANGED production
          /\ job'[j] = IdleJob /\ \A i \in Jobs : i # j => job'[i] = job[i]
      BY <1>1, <1>5, <2>1 DEF SetTag, Finish
    <2>4. \A q \in Pipelines : \A w \in 1..Len(versions[q]) :
            q # p \/ w # v => Tag(q, w)' = Tag(q, w)
      <3>1. versions \in [Pipelines -> Seq(Version)] /\ versions[p] \in Seq(Version)
        BY <2>2 DEF RegInv, TypeInv, TypeOK
      <3>2. \A q \in Pipelines : q # p => versions'[q] = versions[q]
        BY <2>2, <2>3, <3>1
      <3>3. versions'[p] = [versions[p] EXCEPT ![v].tag = score]
        BY <2>2, <2>3, <3>1
      <3>4. \A w \in 1..Len(versions[p]) : w # v => versions'[p][w] = versions[p][w]
        BY <3>1, <3>3
      <3> QED
        BY <3>2, <3>4 DEF Tag
    <2>5. \A q \in Pipelines : production[q] \in 0..Len(versions[q]) /\ Len(versions[q]) \in Nat
      BY DEF RegInv, TypeInv, TypeOK
    <2>6. \A q \in Pipelines : production[q] # 0 =>
            /\ Tag(q, production[q])' = Tag(q, production[q])
            /\ production[q] \in 1..Len(versions[q])
      <3>1. ASSUME NEW q \in Pipelines, production[q] # 0
            PROVE  /\ production[q] \in 1..Len(versions[q])
                   /\ Tag(q, production[q]) # NoTag
        BY <2>5, <3>1 DEF RegInv
      <3>2. ASSUME NEW q \in Pipelines, NEW w \in 1..Len(versions[q]), q # p \/ w # v
            PROVE  versions'[q][w].tag = versions[q][w].tag
        BY <2>4, <3>2 DEF Tag
      <3> QED
        BY <2>2, <2>3, <3>1, <3>2 DEF Tag
    <2>7. ASSUME NEW i \in Jobs, i # j PROVE TagOK(job[i])'
      <3>1. TagOK(job[i]) /\ job'[i] = job[i]
        BY <2>3, <2>7 DEF RegInv
      <3>2. Untagged(job[i]) \/ (job[i].task[1] = "promote" /\ job[i].pc # "staging")
              => job[i].task[2] \in Pipelines
                 /\ job[i].ver \in 1..Len(versions[job[i].task[2]])
        <4>1. Untagged(job[i]) => NeedsVersion(job[i]) /\ job[i].pc # "idle"
          BY DEF Untagged, NeedsVersion
        <4>2. job[i].task[1] = "promote" /\ job[i].pc # "staging" => NeedsVersion(job[i])
          BY DEF NeedsVersion
        <4>3. job[i].task[1] = "promote" => job[i].task \in Tasks
          BY JobFacts DEF RegInv, Job, IdleJob
        <4> QED
          BY <4>1, <4>2, <4>3, JobFacts, ReleaseAssumption DEF RegInv, Pipe
      <3>3. Untagged(job[i]) => job[i].task[2] # p \/ job[i].ver # v
        <4>1. Apart(job[i], job[j])
          BY <2>7 DEF RegInv
        <4>2. Untagged(job[i]) => job[i].task \in Tasks
          BY JobFacts DEF RegInv, Untagged
        <4>3. job[j].task \in Tasks
          BY <2>2, JobFacts DEF RegInv, Untagged
        <4>4. Untagged(job[i]) /\ job[i].task[2] = p => job[i].task = job[j].task
          BY <1>1, <2>1, <4>2, <4>3, ReleaseAssumption DEF Untagged
        <4> QED
          BY <2>1, <2>2, <4>1, <4>4 DEF Apart
      <3>4. job[i].task[1] = "promote" /\ job[i].pc # "staging" =>
              Tag(job[i].task[2], job[i].ver)' = Tag(job[i].task[2], job[i].ver)
        BY <2>2, <2>4, <3>1, <3>2 DEF TagOK
      <3>5. job[i].task[1] = "promote" /\ job[i].pc = "set" => Better(job[i].task[2], job[i].ver)'
        BY <2>3, <2>6, <3>1, <3>2, <3>4 DEF TagOK, Better
      <3> QED
        BY <2>4, <3>1, <3>2, <3>3, <3>4, <3>5 DEF TagOK, Untagged
    <2>8. TagOK(job[j])'
      BY <2>3 DEF TagOK, Untagged, IdleJob
    <2>9. ASSUME NEW i \in Jobs, NEW k \in Jobs, i # k PROVE Apart(job'[i], job'[k])
      BY <2>3, <2>9 DEF RegInv, Apart, Untagged, IdleJob
    <2>10. \A q \in Pipelines : production'[q] # 0 => Tag(q, production[q])' # NoTag
      BY <2>3, <2>6 DEF RegInv, Tag
    <2> QED
      BY <2>7, <2>8, <2>9, <2>10 DEF RegInv, Apart, Untagged
  <1> QED
    BY <1>2, <1>3, <1>4, <1>5 DEF Train

\* The steps of promote keep it; what they compared stays true until they set.
LEMMA RegPromote ==
  ASSUME PromotersExclude, RegInv, TypeInv', NEW j \in Jobs, Promote(j)
  PROVE  RegInv'
  <1>1. /\ job[j] \in Job /\ job \in [Jobs -> Job] /\ Pipe(j) \in Pipelines
        /\ Kind(j) = "promote" /\ job[j].task[1] = "promote" /\ job[j].task[2] = Pipe(j)
        /\ TagOK(job[j])
    BY JobFacts DEF RegInv, Promote, ReadStaging, Compare, SetProduction, LoadAdapter,
                    At, Kind, Pipe
  <1>2. job' \in [Jobs -> Job]
    BY DEF TypeInv, TypeOK
  <1>3. CASE SetProduction(j)
    <2>1. PICK p, v : p = Pipe(j) /\ v = job[j].ver
      OBVIOUS
    <2>2. /\ job[j].pc = "set" /\ UNCHANGED versions
          /\ production' = [production EXCEPT ![p] = v]
          /\ job' = [job EXCEPT ![j] = [job[j] EXCEPT !.pc = "read"]]
      BY <1>3, <2>1 DEF SetProduction, Goto, At
    <2>3. p \in Pipelines /\ Tag(p, v) # NoTag /\ production \in [Pipelines -> 0..MaxVersion]
      BY <1>1, <2>1, <2>2 DEF TagOK, RegInv, TypeInv, TypeOK
    <2>4. \A q \in Pipelines : production'[q] # 0 => Tag(q, production[q])' # NoTag
      BY <2>2, <2>3 DEF RegInv, Tag
    <2>5. /\ job'[j].task = job[j].task /\ job'[j].pc = "read" /\ job'[j].ver = job[j].ver
          /\ \A i \in Jobs : i # j => job'[i] = job[i]
      BY <1>1, <2>2 DEF Job
    <2>6. ASSUME NEW i \in Jobs PROVE TagOK(job[i])'
      <3>1. TagOK(job[i])
        BY DEF RegInv
      <3>2. CASE i = j
        BY <1>1, <2>1, <2>2, <2>3, <2>5, <3>2 DEF TagOK, Untagged, Tag
      <3>3. CASE i # j
        <4>1. job[i].task[1] = "promote" /\ job[i].task \in Tasks => job[i].task[2] # p
          <5>1. Apart(job[i], job[j]) /\ job[j].task \in Tasks
            BY <1>1, <2>2, <3>3, JobFacts DEF RegInv
          <5> QED
            BY <1>1, <2>1, <5>1, ReleaseAssumption DEF Apart
        <4>2. job[i].task[1] = "promote" => job[i].task \in Tasks
          BY JobFacts DEF RegInv, Job, IdleJob
        <4>3. job[i].task[1] = "promote" =>
                production'[job[i].task[2]] = production[job[i].task[2]]
          BY <2>2, <2>3, <4>1, <4>2, ReleaseAssumption
        <4> QED
          BY <2>2, <2>5, <3>1, <3>3, <4>3 DEF TagOK, Untagged, Tag, Better
      <3> QED
        BY <3>2, <3>3
    <2>7. ASSUME NEW i \in Jobs, NEW k \in Jobs, i # k PROVE Apart(job'[i], job'[k])
      <3>1. Apart(job[i], job[k])
        BY <2>7 DEF RegInv
      <3> QED
        BY <1>1, <2>5, <3>1 DEF Apart, Untagged
    <2> QED
      BY <2>4, <2>6, <2>7 DEF RegInv, Apart, Untagged
  <1>4. CASE ReadStaging(j) \/ Compare(j) \/ LoadAdapter(j)
    <2>1. UNCHANGED registry
      BY <1>4 DEF ReadStaging, Compare, LoadAdapter
    <2>2. PICK r \in Job : job' = [job EXCEPT ![j] = r] /\ r.task = job[j].task
      <3> SUFFICES job' = [job EXCEPT ![j] = job'[j]] /\ job'[j].task = job[j].task
        BY <1>2
      <3>1. CASE ReadStaging(j)
        BY <1>1, <1>2, <3>1 DEF ReadStaging, Job
      <3>2. CASE Compare(j)
        <4>1. PICK verdict, pc : job' = [job EXCEPT ![j].pc = pc, ![j].verdict = verdict]
          BY <3>2 DEF Compare
        <4> QED
          BY <1>1, <1>2, <4>1 DEF Job
      <3>3. CASE LoadAdapter(j)
        BY <1>1, <1>2, <3>3 DEF LoadAdapter, Job
      <3> QED
        BY <1>4, <3>1, <3>2, <3>3
    <2>3. job'[j] = r
      BY <1>1, <2>2
    <2>4. TagOK(r)
      <3>1. CASE ReadStaging(j)
        <4>1. r.ver = staging[Pipe(j)] /\ r.pc = "compare" /\ Tag(Pipe(j), r.ver) # NoTag
          BY <1>1, <2>3, <3>1 DEF ReadStaging, Job
        <4> QED
          BY <1>1, <2>2, <4>1 DEF TagOK, Untagged
      <3>2. CASE Compare(j)
        <4>1. job[j].pc = "compare" /\ Tag(Pipe(j), job[j].ver) # NoTag
          BY <1>1, <3>2 DEF Compare, At, TagOK
        <4>2. PICK verdict : /\ verdict = Verdict(j)
                             /\ job' = [job EXCEPT
                                  ![j].pc = IF verdict = "better" THEN "set" ELSE "read",
                                  ![j].verdict = verdict]
          BY <3>2 DEF Compare, PromotersExclude
        <4>3. r.ver = job[j].ver /\ r.pc = IF verdict = "better" THEN "set" ELSE "read"
          BY <1>1, <2>3, <4>2 DEF Job
        <4>4. verdict = "better" => Better(Pipe(j), job[j].ver)
          BY <4>2 DEF Verdict
        <4> QED
          BY <1>1, <2>2, <4>1, <4>3, <4>4 DEF TagOK, Untagged
      <3>3. CASE LoadAdapter(j)
        <4>1. job[j].pc = "load" /\ r.ver = job[j].ver /\ r.pc = "upload"
          BY <1>1, <2>3, <3>3 DEF LoadAdapter, At, Job
        <4> QED
          BY <1>1, <2>2, <4>1 DEF TagOK, Untagged
      <3> QED
        BY <1>4, <3>1, <3>2, <3>3
    <2>5. ~Untagged(r)
      BY <1>1, <2>2 DEF Untagged
    <2> QED
      BY <2>1, <2>2, <2>4, <2>5, RegGoesOn
  <1> QED
    BY <1>3, <1>4 DEF Promote

\* The other scripts neither touch the registry nor promote.
LEMMA RegOthers ==
  ASSUME RegInv, TypeInv', NEW j \in Jobs, Stop(j) \/ Derive(j) \/ Publish(j)
  PROVE  RegInv'
  <1>1. job[j] \in Job /\ job \in [Jobs -> Job] /\ job' \in [Jobs -> Job] /\ TagOK(job[j])
    BY JobFacts DEF RegInv, TypeInv, TypeOK
  <1>2. UNCHANGED registry
    BY DEF Stop, Derive, MergeCheck, Merge, Quantize, Skip, Build, GgufRead, PrepareCheck,
           IndexResolve, Publish, ReadManifest, UploadBegin, UploadEnd, WriteManifest
  <1>3. CASE Finish(j)
    BY <1>2, <1>3, RegEnds
  <1>4. ASSUME NEW r \in Job, job' = [job EXCEPT ![j] = r], r.task = job[j].task,
               r.pc \in Pcs \ {"stage", "tag", "staging", "set"},
               Kind(j) = "promote" => r.ver = job[j].ver /\ job[j].pc # "staging"
        PROVE  RegInv'
    <2>1. TagOK(r) /\ ~Untagged(r)
      BY <1>1, <1>4 DEF TagOK, Untagged, Kind
    <2> QED
      BY <1>2, <1>4, <2>1, RegGoesOn
  <1>5. CASE Derive(j)
    <2>1. Kind(j) # "promote"
      BY <1>5 DEF Derive, MergeCheck, Merge, Quantize, GgufRead, PrepareCheck,
                  IndexResolve, At
    <2>2. PICK r : /\ job' = [job EXCEPT ![j] = r] /\ r.task = job[j].task
                   /\ r.pc \in {"build", "read", "upload", "write"}
      BY <1>1, <1>5 DEF Derive, MergeCheck, Merge, Quantize, Skip, Build, GgufRead,
                        PrepareCheck, IndexResolve, Goto, Job
    <2>3. r \in Job
      BY <1>1, <2>2
    <2> QED
      BY <1>4, <2>1, <2>2, <2>3 DEF Pcs
  <1>6. CASE ReadManifest(j) \/ UploadBegin(j) \/ UploadEnd(j)
    <2>1. PICK r : /\ job' = [job EXCEPT ![j] = r]
                   /\ r.task = job[j].task /\ r.ver = job[j].ver
                   /\ r.pc \in {"load", "check", "write", "uploading", "read"}
      <3> SUFFICES /\ job' = [job EXCEPT ![j] = job'[j]]
                   /\ job'[j].task = job[j].task /\ job'[j].ver = job[j].ver
                   /\ job'[j].pc \in {"load", "check", "write", "uploading", "read"}
        OBVIOUS
      <3>1. CASE ReadManifest(j)
        <4>1. PICK m, pc : /\ job' = [job EXCEPT ![j].man = m, ![j].pc = pc]
                           /\ pc \in {"load", "check", "write"}
          BY <3>1 DEF ReadManifest
        <4> QED
          BY <1>1, <4>1 DEF Job
      <3>2. CASE UploadBegin(j)
        BY <1>1, <3>2 DEF UploadBegin, Goto, Job
      <3>3. CASE UploadEnd(j)
        BY <1>1, <3>3 DEF UploadEnd, Goto, Job
      <3> QED
        BY <1>6, <3>1, <3>2, <3>3
    <2>2. r \in Job /\ job[j].pc # "staging"
      BY <1>1, <1>6, <2>1 DEF ReadManifest, UploadBegin, UploadEnd
    <2> QED
      BY <1>4, <2>1, <2>2 DEF Pcs
  <1> QED
    BY <1>3, <1>5, <1>6 DEF Stop, Publish, WriteManifest

\* Every step keeps it.
LEMMA RegNext ==
  ASSUME PromotersExclude, RegInv, [Next]_vars
  PROVE  RegInv'
  <1>1. TypeInv'
    BY TypeNext DEF RegInv
  <1>2. CASE Next
    <2>1. PICK j \in Jobs : \/ \E task \in Tasks : Start(j, task)
                            \/ Stop(j) \/ Train(j) \/ Promote(j) \/ Derive(j) \/ Publish(j)
      BY <1>2 DEF Next
    <2> QED
      BY <1>1, <2>1, RegStart, RegTrain, RegPromote, RegOthers
  <1>3. CASE UNCHANGED vars
    BY <1>1, <1>3 DEF vars, RegInv, TagOK, Apart, Untagged, Tag, Better
  <1> QED
    BY <1>2, <1>3
-----------------------------------------------------------------------------
(* The refinement mapping.                                                 *)

\* The tags of a pipeline as a sequence.
LEMMA ValLossFacts ==
  ASSUME TypeInv, NEW p \in Pipelines
  PROVE  /\ versions[p] \in Seq(Version) /\ DOMAIN versions[p] = 1..Len(versions[p])
         /\ DOMAIN ValLoss[p] = 1..Len(versions[p])
         /\ ValLoss[p] \in Seq(Scores \cup {NoTag}) /\ Len(ValLoss[p]) = Len(versions[p])
         /\ \A v \in 1..Len(versions[p]) : ValLoss[p][v] = Tag(p, v)
  <1>1. versions[p] \in Seq(Version) /\ DOMAIN versions[p] = 1..Len(versions[p])
    BY DEF TypeInv, TypeOK
  <1>2. ValLoss[p] = [v \in 1..Len(versions[p]) |-> versions[p][v].tag]
    BY <1>1 DEF ValLoss
  <1>3. ASSUME NEW v \in 1..Len(versions[p])
        PROVE  versions[p][v].tag \in Scores \cup {NoTag}
    <2>1. versions[p][v] \in Version
      BY <1>1, <1>3
    <2> QED
      BY <2>1 DEF Version
  <1>4. ValLoss[p] \in Seq(Scores \cup {NoTag}) /\ Len(ValLoss[p]) = Len(versions[p])
    BY <1>1, <1>2, <1>3
  <1> QED
    BY <1>1, <1>2, <1>4 DEF Tag

\* A step that does not change the registry is a stutter.
LEMMA Stutter ==
  ASSUME UNCHANGED <<versions, production>>
  PROVE  UNCHANGED Registry!regVars
  BY DEF Registry!regVars, ValLoss

\* A registration is the Register of the abstract registry.
LEMMA RegisterRefines ==
  ASSUME TypeInv, TypeInv', NEW j \in Jobs, Register(j)
  PROVE  Registry!Next
  <1>1. PICK p, new : p = Pipe(j) /\ new = [tag |-> NoTag, on |-> job[j].out]
    OBVIOUS
  <1>2. /\ p \in Pipelines /\ versions \in [Pipelines -> Seq(Version)]
        /\ versions' = [versions EXCEPT ![p] = Append(versions[p], new)]
        /\ UNCHANGED production
    BY <1>1, JobFacts DEF Register, At, TypeInv, TypeOK
  <1>3. ValLoss'[p] = Append(ValLoss[p], NoTag)
    <2>1. versions'[p] = Append(versions[p], new)
      BY <1>2
    <2>2. /\ versions[p] \in Seq(Version) /\ Len(versions[p]) \in Nat
          /\ ValLoss[p] = [v \in 1..Len(versions[p]) |-> versions[p][v].tag]
      BY <1>2, ValLossFacts DEF ValLoss
    <2>3. ValLoss'[p] = [v \in 1..(Len(versions[p]) + 1) |-> versions'[p][v].tag]
      BY <1>2, <2>1, <2>2 DEF ValLoss
    <2>4. \A v \in 1..(Len(versions[p]) + 1) :
            versions'[p][v].tag = IF v <= Len(versions[p]) THEN versions[p][v].tag ELSE NoTag
      BY <1>1, <2>1, <2>2
    <2>5. ValLoss[p] \in Seq(Scores \cup {NoTag}) /\ Len(ValLoss[p]) = Len(versions[p])
      BY <1>2, ValLossFacts
    <2>6. Append(ValLoss[p], NoTag) =
            [v \in 1..(Len(versions[p]) + 1) |->
               IF v <= Len(versions[p]) THEN versions[p][v].tag ELSE NoTag]
      BY <2>2, <2>5
    <2> QED
      BY <2>3, <2>4, <2>6
  <1>4. \A q \in Pipelines : q # p => ValLoss'[q] = ValLoss[q]
    BY <1>2 DEF ValLoss
  <1>5. ValLoss' = [ValLoss EXCEPT ![p] = Append(@, NoTag)]
    BY <1>2, <1>3, <1>4 DEF ValLoss
  <1> QED
    BY <1>2, <1>5 DEF Registry!Next, Registry!Register

\* A trainer that sets val_loss takes the Tag step: its version has none yet.
LEMMA SetTagRefines ==
  ASSUME RegInv, NEW j \in Jobs, NEW score \in Scores, SetTag(j, score)
  PROVE  Registry!Next
  <1>1. PICK p, v : p = Pipe(j) /\ v = job[j].ver
    OBVIOUS
  <1>2. /\ p \in Pipelines /\ v \in 1..Len(versions[p]) /\ Tag(p, v) = NoTag
        /\ versions \in [Pipelines -> Seq(Version)]
        /\ versions' = [versions EXCEPT ![p][v].tag = score] /\ UNCHANGED production
    BY <1>1, JobFacts DEF RegInv, SetTag, At, NeedsVersion, TagOK, Untagged, Kind, Pipe,
                          TypeInv, TypeOK
  <1>3. v \in DOMAIN ValLoss[p] /\ ValLoss[p][v] = NoTag
    BY <1>2, ValLossFacts DEF RegInv
  <1>4. ValLoss'[p] = [ValLoss[p] EXCEPT ![v] = score]
    <2>1. /\ versions[p] \in Seq(Version) /\ DOMAIN versions[p] = 1..Len(versions[p])
          /\ ValLoss[p] = [w \in 1..Len(versions[p]) |-> versions[p][w].tag]
      BY <1>2, ValLossFacts DEF ValLoss, RegInv
    <2>2. versions'[p] = [versions[p] EXCEPT ![v] = [versions[p][v] EXCEPT !.tag = score]]
      BY <1>2
    <2>3. versions[p][v] \in Version
      BY <1>2, <2>1
    <2>4. DOMAIN versions'[p] = 1..Len(versions[p])
      BY <2>1, <2>2
    <2>5. \A w \in 1..Len(versions[p]) :
            versions'[p][w].tag = IF w = v THEN score ELSE versions[p][w].tag
      BY <1>2, <2>1, <2>2, <2>3 DEF Version
    <2>6. ValLoss'[p] = [w \in 1..Len(versions[p]) |-> versions'[p][w].tag]
      BY <1>2, <2>4 DEF ValLoss
    <2> QED
      BY <1>2, <2>1, <2>5, <2>6
  <1>5. \A q \in Pipelines : q # p => ValLoss'[q] = ValLoss[q]
    BY <1>2 DEF ValLoss
  <1>6. ValLoss' = [ValLoss EXCEPT ![p][v] = score]
    BY <1>2, <1>4, <1>5 DEF ValLoss
  <1> QED
    BY <1>2, <1>3, <1>6 DEF Registry!Next, Registry!Tag

\* A promoter that sets the alias takes the Promote step.
LEMMA SetProductionRefines ==
  ASSUME RegInv, NEW j \in Jobs, SetProduction(j)
  PROVE  Registry!Next
  <1>1. PICK p, v : p = Pipe(j) /\ v = job[j].ver
    OBVIOUS
  <1>2. /\ p \in Pipelines /\ v \in 1..Len(versions[p]) /\ Tag(p, v) # NoTag /\ Better(p, v)
        /\ production' = [production EXCEPT ![p] = v] /\ UNCHANGED versions
    BY <1>1, JobFacts DEF RegInv, SetProduction, At, NeedsVersion, TagOK, Kind, Pipe
  <1>3. v \in DOMAIN ValLoss[p] /\ ValLoss[p][v] = Tag(p, v)
    BY <1>2, ValLossFacts DEF RegInv
  <1>4. production[p] # 0 => ValLoss[p][production[p]] = Tag(p, production[p])
    <2>1. production[p] \in 0..Len(versions[p]) /\ Len(versions[p]) \in Nat
      BY <1>2 DEF RegInv, TypeInv, TypeOK
    <2>2. production[p] # 0 => production[p] \in 1..Len(versions[p])
      BY <2>1
    <2> QED
      BY <1>2, <2>2, ValLossFacts DEF RegInv
  <1>5. UNCHANGED ValLoss
    BY <1>2 DEF ValLoss
  <1>6. production[p] # 0 => ValLoss[p][v] < ValLoss[p][production[p]]
    <2>1. production[p] # 0 => Tag(p, production[p]) # NoTag
      BY <1>2 DEF RegInv
    <2> QED
      BY <1>2, <1>3, <1>4, <2>1 DEF Better
  <1> QED
    BY <1>2, <1>3, <1>5, <1>6 DEF Registry!Next, Registry!Promote

\* Every step is a step of the abstract registry or a stutter.
LEMMA RegistryStep ==
  ASSUME PromotersExclude, RegInv, [Next]_vars
  PROVE  [Registry!Next]_Registry!regVars
  <1>1. TypeInv /\ TypeInv'
    BY TypeNext DEF RegInv
  <1>2. CASE Next
    <2>1. PICK j \in Jobs : \/ \E task \in Tasks : Start(j, task)
                            \/ Stop(j) \/ Train(j) \/ Promote(j) \/ Derive(j) \/ Publish(j)
      BY <1>2 DEF Next
    <2>2. CASE Register(j)
      BY <1>1, <2>2, RegisterRefines
    <2>3. CASE \E score \in Scores : SetTag(j, score)
      BY <2>3, SetTagRefines
    <2>4. CASE SetProduction(j)
      BY <2>4, SetProductionRefines
    <2>5. CASE TrainResolve(j) \/ SetStaging(j) \/ ReadStaging(j) \/ Compare(j) \/ LoadAdapter(j)
      BY <2>5, Stutter DEF TrainResolve, SetStaging, ReadStaging, Compare, LoadAdapter, registry
    <2>6. CASE (\E task \in Tasks : Start(j, task)) \/ Stop(j)
      BY <2>6, Stutter DEF Start, Stop, registry
    <2>7. CASE Derive(j)
      BY <2>7, Stutter DEF Derive, MergeCheck, Merge, Quantize, Skip, Build, GgufRead,
                           PrepareCheck, IndexResolve, registry
    <2>8. CASE Publish(j)
      BY <2>8, Stutter DEF Publish, ReadManifest, UploadBegin, UploadEnd, WriteManifest,
                           registry
    <2> QED
      BY <2>1, <2>2, <2>3, <2>4, <2>5, <2>6, <2>7, <2>8 DEF Train, Promote
  <1>3. CASE UNCHANGED vars
    BY <1>3, Stutter DEF vars
  <1> QED
    BY <1>2, <1>3

\* The registry keeps its promise: whatever trainers, promoters and crashes
\* there are, each step of Release is a step of ProductionRegistry or leaves
\* tags and Production alone.  So Production always has a val_loss, and moves
\* only to a strictly lower one.
THEOREM RegistryImplemented == PromotersExclude => (Spec => RegistrySpec)
  <1> SUFFICES ASSUME PromotersExclude PROVE Spec => RegistrySpec
    OBVIOUS
  <1>1. Init => Registry!Init
    BY DEF Init, Registry!Init, ValLoss
  <1>2. RegInv /\ [Next]_vars => RegInv'
    BY RegNext
  <1>3. RegInv /\ [Next]_vars => [Registry!Next]_Registry!regVars
    BY RegistryStep
  <1> QED
    BY <1>1, <1>2, <1>3, RegInit, PTL DEF Spec, RegistrySpec, Registry!Spec

\* The safety half alone: a version that Production names carries a val_loss,
\* so promote_model never falls back to comparing with infinity.
THEOREM ProductionTagged ==
  PromotersExclude =>
    (Spec => [](\A p \in Pipelines : production[p] # 0 => Tag(p, production[p]) # NoTag))
  <1> SUFFICES ASSUME PromotersExclude
        PROVE Spec => [](\A p \in Pipelines : production[p] # 0 => Tag(p, production[p]) # NoTag)
    OBVIOUS
  <1>1. RegInv /\ [Next]_vars => RegInv'
    BY RegNext
  <1>2. RegInv => \A p \in Pipelines : production[p] # 0 => Tag(p, production[p]) # NoTag
    BY DEF RegInv
  <1> QED
    BY <1>1, <1>2, RegInit, PTL DEF Spec
=============================================================================
