--------------------------- MODULE IndexingProofs ---------------------------
(***************************************************************************)
(* Proofs about Indexing for every corpus, batch size and number of        *)
(* overlapping runs: the type invariant, that what a finished run was      *)
(* given can be found, and how many points a document can have.            *)
(***************************************************************************)
EXTENDS Indexing, FiniteSetTheorems, TLAPS

InBuffer(r, d) == \E i \in DOMAIN r.buffer : r.buffer[i] = d

\* A document a run has examined and not kept.
Skipped(r, d) == d \in r.existing \cup r.new \/ \E e \in r.new : <<d, e>> \in Near

\* What a run knows of the collection: the ids it read are there, what it kept
\* is there or in its buffer, and it dropped nothing else.
RunOK(r) ==
  /\ r.existing \subseteq Present
  /\ \A d \in r.new : d \in Present \/ InBuffer(r, d)
  /\ \A d \in r.data \ r.todo : Skipped(r, d)
  /\ r.pc = "done" => r.todo = {} /\ r.buffer = <<>>
  /\ r.pc # "idle" => r.adapter # 0

\* The inductive invariant.
IndexInv == TypeOK /\ FinishedSearchable /\ \A j \in Jobs : RunOK(job[j])

\* What the chunks of an insert leave out is in the rest of the buffer.
LEMMA RestOfBuffer ==
  ASSUME NEW b \in Seq(Docs), NEW n \in Nat \ {0}
  PROVE  LET rest == SubSeq(b, n + 1, Len(b))
         IN  /\ rest \in Seq(Docs)
             /\ \A i \in DOMAIN b : i <= n \/ \E k \in DOMAIN rest : rest[k] = b[i]
             /\ \A k \in DOMAIN rest : k + n \in DOMAIN b /\ rest[k] = b[k + n]
  <1> DEFINE rest == SubSeq(b, n + 1, Len(b))
  <1>1. Len(b) \in Nat /\ DOMAIN b = 1..Len(b)
    OBVIOUS
  <1>2. rest = [k \in 1..(Len(b) - n) |-> b[k + n]]
    BY <1>1 DEF rest
  <1>3. \A k \in 1..(Len(b) - n) : k + n \in 1..Len(b) /\ b[k + n] \in Docs
    BY <1>1
  <1>4. rest \in Seq(Docs) /\ DOMAIN rest = 1..(Len(b) - n)
    <2>1. CASE n <= Len(b)
      BY <1>1, <1>2, <1>3, <2>1
    <2>2. CASE n > Len(b)
      BY <1>1, <1>2, <1>3, <2>2
    <2> QED
      BY <1>1, <2>1, <2>2
  <1>5. ASSUME NEW i \in DOMAIN b, ~(i <= n) PROVE \E k \in DOMAIN rest : rest[k] = b[i]
    <2>1. i - n \in 1..(Len(b) - n) /\ (i - n) + n = i
      BY <1>1, <1>5
    <2> QED
      BY <1>2, <1>4, <2>1
  <1> QED
    BY <1>1, <1>2, <1>3, <1>4, <1>5

\* A step of one run that removes no document from the collection keeps the
\* invariant when the new record of the run is good.
LEMMA RunStep ==
  ASSUME IndexInv, NEW j \in Jobs, NEW r \in Job, job' = [job EXCEPT ![j] = r],
         points' \in [Docs -> Seq(1..MaxAdapter)], adapter' = adapter, finished' = finished,
         Present \subseteq Present', RunOK(r)'
  PROVE  IndexInv'
  <1>1. job' \in [Jobs -> Job] /\ job'[j] = r /\ \A i \in Jobs : i # j => job'[i] = job[i]
    BY DEF IndexInv, TypeOK
  <1>2. ASSUME NEW i \in Jobs PROVE RunOK(job[i])'
    <2>1. CASE i = j
      BY <1>1, <2>1
    <2>2. CASE i # j
      <3>1. PICK q : q = job[i] /\ q = job'[i] /\ RunOK(q)
        BY <1>1, <2>2 DEF IndexInv
      <3>2. RunOK(q)'
        BY <3>1 DEF RunOK, Skipped, InBuffer
      <3> QED
        BY <3>1, <3>2
    <2> QED
      BY <2>1, <2>2
  <1>3. FinishedSearchable'
    BY DEF IndexInv, FinishedSearchable, Searchable
  <1> QED
    BY <1>1, <1>2, <1>3 DEF IndexInv, TypeOK

\* The initial state satisfies the invariant.
LEMMA IndexInit == Init => IndexInv
  <1> SUFFICES ASSUME Init PROVE IndexInv
    OBVIOUS
  <1>1. IdleJob \in Job /\ RunOK(IdleJob)
    BY IndexingAssumption DEF IdleJob, Job, RunOK, Skipped, InBuffer
  <1>2. TypeOK
    BY <1>1, IndexingAssumption DEF Init, TypeOK
  <1> QED
    BY <1>1, <1>2 DEF Init, IndexInv, FinishedSearchable

\* A run that ends, well or not, leaves the others as they are.
LEMMA IdleJobOK == IdleJob \in Job /\ (RunOK(IdleJob) /\ RunOK(IdleJob)')
  BY IndexingAssumption DEF IdleJob, Job, RunOK, Skipped, InBuffer

\* The steps in which a run only reads: start, scroll, and the end of a batch.
LEMMA IndexRead ==
  ASSUME IndexInv, NEW j \in Jobs,
         \/ \E data \in Datasets : Start(j, data)
         \/ ScrollBegin(j) \/ ScrollEnd(j) \/ EndBatch(j) \/ Stop(j)
  PROVE  IndexInv'
  <1>1. job[j] \in Job /\ job \in [Jobs -> Job] /\ RunOK(job[j])
    BY DEF IndexInv, TypeOK
  <1>2. UNCHANGED <<points, adapter, finished>> /\ Present' = Present
    BY DEF Start, ScrollBegin, ScrollEnd, EndBatch, Stop, Present
  <1>3. points' \in [Docs -> Seq(1..MaxAdapter)] /\ adapter \in 1..MaxAdapter
    BY <1>2 DEF IndexInv, TypeOK
  <1>4. ASSUME NEW data \in Datasets, Start(j, data) PROVE IndexInv'
    <2>1. PICK r : r = [job[j] EXCEPT !.pc = "connect", !.data = data, !.todo = data,
                                      !.adapter = adapter]
      OBVIOUS
    <2>2. job' = [job EXCEPT ![j] = r]
      BY <1>1, <1>4, <2>1 DEF Start
    <2>3. data \in SUBSET Docs /\ adapter \in 0..MaxAdapter /\ adapter # 0
      BY <1>3, IndexingAssumption
    <2>4. r \in Job
      BY <1>1, <2>1, <2>3 DEF Job
    <2>5. /\ r.existing = job[j].existing /\ r.new = job[j].new /\ r.buffer = job[j].buffer
          /\ r.data \ r.todo = {} /\ r.pc # "done" /\ r.adapter # 0
      BY <1>1, <2>1, <2>3 DEF Job
    <2>6. RunOK(r)'
      BY <1>1, <1>2, <2>5 DEF RunOK, Skipped, InBuffer
    <2> QED
      BY <1>2, <1>3, <2>2, <2>4, <2>6, RunStep
  <1>5. CASE ScrollBegin(j)
    <2>1. PICK r : r = [job[j] EXCEPT !.pc = "scroll", !.existing = Present]
      OBVIOUS
    <2>2. job' = [job EXCEPT ![j] = r]
      BY <1>1, <1>5, <2>1 DEF ScrollBegin
    <2>3. r \in Job /\ Present \subseteq Docs
      BY <1>1, <2>1 DEF Job, Present
    <2>4. /\ r.existing = Present /\ r.new = job[j].new
          /\ r.buffer = job[j].buffer /\ r.data = job[j].data /\ r.todo = job[j].todo
          /\ r.pc # "done" /\ r.adapter = job[j].adapter /\ job[j].pc = "connect"
      BY <1>1, <1>5, <2>1 DEF Job, ScrollBegin
    <2>5. \A d \in r.data \ r.todo : Skipped(r, d)
      BY <1>1, <2>4 DEF RunOK, Skipped
    <2>6. RunOK(r)'
      BY <1>1, <1>2, <2>4, <2>5 DEF RunOK, Skipped, InBuffer
    <2> QED
      BY <1>2, <1>3, <2>2, <2>3, <2>6, RunStep
  <1>6. CASE ScrollEnd(j)
    <2>1. PICK more \in SUBSET (Present \ job[j].existing) :
            job' = [job EXCEPT ![j].pc = "batch", ![j].left = BatchSize,
                               ![j].existing = @ \cup more]
      BY <1>6 DEF ScrollEnd
    <2>2. PICK r : r = [job[j] EXCEPT !.pc = "batch", !.left = BatchSize,
                                      !.existing = @ \cup more]
      OBVIOUS
    <2>3. job' = [job EXCEPT ![j] = r]
      BY <1>1, <2>1, <2>2
    <2>4. more \subseteq Docs /\ BatchSize \in 0..BatchSize
      BY <2>1, IndexingAssumption DEF Present
    <2>5. r \in Job
      BY <1>1, <2>2, <2>4 DEF Job
    <2>6. /\ r.existing = job[j].existing \cup more /\ r.new = job[j].new
          /\ r.buffer = job[j].buffer /\ r.data = job[j].data /\ r.todo = job[j].todo
          /\ r.pc # "done" /\ r.adapter = job[j].adapter /\ job[j].pc # "idle"
      BY <1>1, <1>6, <2>2 DEF Job, ScrollEnd
    <2>7. RunOK(r)'
      BY <1>1, <1>2, <2>1, <2>6 DEF RunOK, Skipped, InBuffer
    <2> QED
      BY <1>2, <1>3, <2>3, <2>5, <2>7, RunStep
  <1>7. CASE EndBatch(j)
    <2>1. PICK r : r = [job[j] EXCEPT !.pc = AfterBatch(j), !.left = BatchSize]
      OBVIOUS
    <2>2. job' = [job EXCEPT ![j] = r]
      BY <1>1, <1>7, <2>1 DEF EndBatch
    <2>3. AfterBatch(j) \in {"insert", "done", "batch"}
      BY DEF AfterBatch
    <2>4. BatchSize \in 0..BatchSize
      BY IndexingAssumption
    <2>5. r \in Job
      BY <1>1, <2>1, <2>3, <2>4 DEF Job
    <2>6. /\ r.existing = job[j].existing /\ r.new = job[j].new
          /\ r.buffer = job[j].buffer /\ r.data = job[j].data /\ r.todo = job[j].todo
          /\ r.pc = AfterBatch(j) /\ r.adapter = job[j].adapter /\ job[j].pc # "idle"
      BY <1>1, <1>7, <2>1 DEF Job, EndBatch
    <2>7. r.pc = "done" => r.todo = {} /\ r.buffer = <<>>
      BY <2>6 DEF AfterBatch
    <2>8. RunOK(r)'
      BY <1>1, <1>2, <2>6, <2>7 DEF RunOK, Skipped, InBuffer
    <2> QED
      BY <1>2, <1>3, <2>2, <2>5, <2>8, RunStep
  <1>8. CASE Stop(j)
    BY <1>2, <1>3, <1>8, IdleJobOK, RunStep DEF Stop
  <1> QED
    BY <1>4, <1>5, <1>6, <1>7, <1>8

\* A document that is examined is kept in the buffer, or there is a reason to
\* skip it.
LEMMA IndexExamine ==
  ASSUME IndexInv, NEW j \in Jobs, NEW d \in Docs, Examine(j, d)
  PROVE  IndexInv'
  <1>1. job[j] \in Job /\ job \in [Jobs -> Job] /\ RunOK(job[j])
    BY DEF IndexInv, TypeOK
  <1>2. UNCHANGED <<points, adapter, finished>> /\ Present' = Present
    BY DEF Examine, Present
  <1>3. points' \in [Docs -> Seq(1..MaxAdapter)]
    BY <1>2 DEF IndexInv, TypeOK
  <1>4. PICK skipped \in BOOLEAN : skipped = (IsExactDuplicate(j, d) \/ IsFuzzyDuplicate(j, d))
    BY DEF IsExactDuplicate, IsFuzzyDuplicate
  <1>5. PICK r : r = [job[j] EXCEPT !.todo = @ \ {d}, !.left = @ - 1,
                                    !.new = IF skipped THEN @ ELSE @ \cup {d},
                                    !.buffer = IF skipped THEN @ ELSE Append(@, d)]
    OBVIOUS
  <1>6. job' = [job EXCEPT ![j] = r]
    BY <1>1, <1>4, <1>5 DEF Examine
  <1>7. r \in Job
    BY <1>1, <1>5, IndexingAssumption DEF Job, Examine
  <1>8. RunOK(r)
    <2>1. r.existing = job[j].existing /\ r.data = job[j].data /\ r.todo = job[j].todo \ {d}
          /\ r.pc = "batch" /\ r.adapter = job[j].adapter /\ job[j].pc = "batch"
      BY <1>1, <1>5 DEF Job, Examine
    <2>2. CASE skipped
      <3>1. r.new = job[j].new /\ r.buffer = job[j].buffer
        BY <1>1, <1>5, <2>2 DEF Job
      <3>2. Skipped(r, d)
        BY <1>4, <2>1, <2>2, <3>1 DEF Skipped, IsExactDuplicate, IsFuzzyDuplicate
      <3>3. \A e \in r.data \ r.todo : Skipped(r, e)
        BY <1>1, <2>1, <3>1, <3>2 DEF RunOK, Skipped
      <3> QED
        BY <1>1, <2>1, <3>1, <3>3 DEF RunOK, InBuffer
    <2>3. CASE ~skipped
      <3>1. r.new = job[j].new \cup {d} /\ r.buffer = Append(job[j].buffer, d)
        BY <1>1, <1>5, <2>3 DEF Job
      <3>2. job[j].buffer \in Seq(Docs)
        BY <1>1 DEF Job
      <3>3. /\ \A i \in DOMAIN job[j].buffer : i \in DOMAIN r.buffer /\ r.buffer[i] = job[j].buffer[i]
            /\ Len(job[j].buffer) + 1 \in DOMAIN r.buffer /\ r.buffer[Len(job[j].buffer) + 1] = d
        BY <3>1, <3>2
      <3>4. InBuffer(r, d) /\ \A e \in Docs : InBuffer(job[j], e) => InBuffer(r, e)
        BY <3>3 DEF InBuffer
      <3>5. \A e \in r.new : e \in Present \/ InBuffer(r, e)
        BY <1>1, <3>1, <3>4 DEF RunOK, Job
      <3>6. \A e \in r.data \ r.todo : Skipped(r, e)
        BY <1>1, <2>1, <3>1 DEF RunOK, Skipped
      <3> QED
        BY <1>1, <2>1, <3>5, <3>6 DEF RunOK
    <2> QED
      BY <2>2, <2>3
  <1>9. RunOK(r)'
    BY <1>2, <1>8 DEF RunOK, Skipped, InBuffer
  <1> QED
    BY <1>2, <1>3, <1>6, <1>7, <1>9, RunStep

\* An upsert moves documents from the buffer to the collection.
LEMMA IndexUpsert ==
  ASSUME IndexInv, NEW j \in Jobs, Upsert(j)
  PROVE  IndexInv'
  <1>1. job[j] \in Job /\ job \in [Jobs -> Job] /\ RunOK(job[j])
    BY DEF IndexInv, TypeOK
  <1>2. PICK b \in Seq(Docs) : b = job[j].buffer
    BY <1>1 DEF Job
  <1>3. PICK rest : rest = SubSeq(b, InsertBatch + 1, Len(b))
    OBVIOUS
  <1>4. /\ rest \in Seq(Docs)
        /\ \A i \in DOMAIN b : i <= InsertBatch \/ \E k \in DOMAIN rest : rest[k] = b[i]
    BY <1>3, RestOfBuffer, IndexingAssumption
  <1>5. PICK r : r = [job[j] EXCEPT !.buffer = rest,
                                    !.pc = IF rest = <<>> THEN "batch" ELSE "insert"]
    OBVIOUS
  <1>6. job' = [job EXCEPT ![j] = r] /\ adapter' = adapter /\ finished' = finished
    BY <1>1, <1>2, <1>3, <1>5 DEF Upsert
  <1>7. r \in Job
    BY <1>1, <1>4, <1>5 DEF Job
  <1>8. points \in [Docs -> Seq(1..MaxAdapter)] /\ job[j].adapter \in 1..MaxAdapter
    BY <1>1, IndexingAssumption DEF IndexInv, TypeOK, Job, RunOK, Upsert
  <1>9. points' = [d \in Docs |-> IF d \in Chunk(j) THEN Append(points[d], job[j].adapter)
                                  ELSE points[d]]
    BY DEF Upsert
  <1>10. ASSUME NEW d \in Docs
         PROVE  Append(points[d], job[j].adapter) \in Seq(1..MaxAdapter) \ {<<>>}
    <2>1. PICK s \in Seq(1..MaxAdapter), a \in 1..MaxAdapter :
            s = points[d] /\ a = job[j].adapter
      BY <1>8, <1>10
    <2>2. Append(s, a) \in Seq(1..MaxAdapter) /\ Len(Append(s, a)) # 0
      BY <2>1
    <2> QED
      BY <2>1, <2>2
  <1>11. points' \in [Docs -> Seq(1..MaxAdapter)]
    BY <1>8, <1>9, <1>10
  <1>12. Present \subseteq Present' /\ Chunk(j) \cap Docs \subseteq Present'
    BY <1>9, <1>10 DEF Present
  <1>13. RunOK(r)'
    <2>1. r.existing = job[j].existing /\ r.new = job[j].new /\ r.data = job[j].data
          /\ r.todo = job[j].todo /\ r.buffer = rest /\ r.pc # "done"
          /\ r.adapter = job[j].adapter /\ job[j].pc = "insert"
      BY <1>1, <1>5 DEF Job, Upsert
    <2>2. ASSUME NEW d \in r.new PROVE d \in Present' \/ InBuffer(r, d)
      <3>1. d \in Docs /\ (d \in Present \/ \E i \in DOMAIN b : b[i] = d)
        BY <1>1, <1>2, <2>1, <2>2 DEF RunOK, InBuffer, Job
      <3>2. CASE d \in Present
        BY <1>12, <3>2
      <3>3. ASSUME NEW i \in DOMAIN b, b[i] = d PROVE d \in Present' \/ InBuffer(r, d)
        <4>1. CASE i <= InsertBatch
          BY <1>2, <1>12, <3>1, <3>3, <4>1 DEF Chunk
        <4>2. CASE ~(i <= InsertBatch)
          BY <1>4, <2>1, <3>3, <4>2 DEF InBuffer
        <4> QED
          BY <4>1, <4>2
      <3> QED
        BY <3>1, <3>2, <3>3
    <2>3. \A d \in r.data \ r.todo : Skipped(r, d)
      BY <1>1, <2>1 DEF RunOK, Skipped
    <2> QED
      BY <1>1, <1>12, <2>1, <2>2, <2>3 DEF RunOK, Skipped, InBuffer
  <1> QED
    BY <1>6, <1>7, <1>11, <1>12, <1>13, RunStep

\* A run that has examined and inserted everything has made it searchable.
LEMMA IndexFinish ==
  ASSUME IndexInv, NEW j \in Jobs, Finish(j)
  PROVE  IndexInv'
  <1>1. job[j] \in Job /\ job \in [Jobs -> Job] /\ RunOK(job[j])
    BY DEF IndexInv, TypeOK
  <1>2. UNCHANGED <<points, adapter>> /\ Present' = Present
    BY DEF Finish, Present
  <1>3. \A d \in job[j].new : d \in Present
    BY <1>1 DEF RunOK, InBuffer, Finish
  <1>4. \A d \in job[j].data : Searchable(d)
    BY <1>1, <1>3 DEF RunOK, Skipped, Searchable, Finish
  <1>5. FinishedSearchable'
    BY <1>2, <1>4 DEF IndexInv, FinishedSearchable, Searchable, Finish
  <1>6. job' \in [Jobs -> Job] /\ \A i \in Jobs : job'[i] = IF i = j THEN IdleJob ELSE job[i]
    BY <1>1, IdleJobOK DEF Finish
  <1>7. ASSUME NEW i \in Jobs PROVE RunOK(job[i])'
    <2>1. CASE i = j
      BY <1>6, <2>1, IdleJobOK DEF RunOK, Skipped, InBuffer
    <2>2. CASE i # j
      BY <1>2, <1>6, <2>2 DEF IndexInv, RunOK, Skipped, InBuffer
    <2> QED
      BY <2>1, <2>2
  <1>8. TypeOK'
    BY <1>1, <1>2, <1>6 DEF IndexInv, TypeOK, Finish, Job
  <1> QED
    BY <1>5, <1>7, <1>8 DEF IndexInv

\* Every step keeps the invariant.
LEMMA IndexNext == IndexInv /\ [Next]_vars => IndexInv'
  <1> SUFFICES ASSUME IndexInv, [Next]_vars PROVE IndexInv'
    OBVIOUS
  <1>1. CASE Promote \/ UNCHANGED vars
    <2>1. UNCHANGED <<points, finished, job>> /\ adapter' \in 1..MaxAdapter
      BY <1>1, IndexingAssumption DEF Promote, vars, IndexInv, TypeOK
    <2>2. Present' = Present
      BY <2>1 DEF Present
    <2>3. TypeOK' /\ FinishedSearchable'
      BY <2>1, <2>2 DEF IndexInv, TypeOK, FinishedSearchable, Searchable
    <2>4. ASSUME NEW j \in Jobs PROVE RunOK(job[j])'
      <3>1. PICK q : q = job[j] /\ q = job'[j] /\ RunOK(q)
        BY <2>1 DEF IndexInv
      <3>2. RunOK(q)'
        BY <2>2, <3>1 DEF RunOK, Skipped, InBuffer
      <3> QED
        BY <3>1, <3>2
    <2> QED
      BY <2>3, <2>4 DEF IndexInv
  <1> QED
    BY <1>1, IndexRead, IndexExamine, IndexUpsert, IndexFinish DEF Next

\* Every variable of Indexing has its type.
THEOREM IndexingTypeCorrect == Spec => []TypeOK
  <1>1. IndexInv => TypeOK
    BY DEF IndexInv
  <1> QED
    BY <1>1, IndexInit, IndexNext, PTL DEF Spec

\* What a finished index_db was given can be found, however many runs overlap
\* and wherever others were killed.
THEOREM NothingLost == Spec => []FinishedSearchable
  <1>1. IndexInv => FinishedSearchable
    BY DEF IndexInv
  <1> QED
    BY <1>1, IndexInit, IndexNext, PTL DEF Spec
-----------------------------------------------------------------------------
(* How many points a document can have.                                    *)

\* A run can still insert d: it has begun to read the ids, has not seen d, and
\* if it has kept d, has it in its buffer.
MayInsert(r, d) ==
  /\ r.pc \in {"scroll", "batch", "insert", "done"}
  /\ d \notin r.existing
  /\ d \in r.new => InBuffer(r, d)

\* The buffer holds new documents, each once.
Once(r) ==
  /\ r.pc \in {"idle", "connect", "scroll"} => r.new = {} /\ r.buffer = <<>>
  /\ \A i \in DOMAIN r.buffer : r.buffer[i] \in r.new \ r.existing
  /\ \A i, k \in DOMAIN r.buffer : r.buffer[i] = r.buffer[k] => i = k

Inserters(d) == {j \in Jobs : MayInsert(job[j], d)}

\* The points a document has, and those it can get without another scroll.
OnceInv ==
  /\ IndexInv
  /\ \A j \in Jobs : Once(job[j])
  /\ \A d \in Docs : Len(points[d]) + Cardinality(Inserters(d)) <= Cardinality(Jobs)

\* The runs that can still insert d are finitely many.
LEMMA FewInserters ==
  ASSUME NEW d
  PROVE  /\ IsFiniteSet(Inserters(d)) /\ Cardinality(Inserters(d)) \in Nat
         /\ Cardinality(Jobs) \in Nat /\ Cardinality(Inserters(d)) <= Cardinality(Jobs)
  <1>1. Inserters(d) \in SUBSET Jobs /\ IsFiniteSet(Jobs)
    BY IndexingAssumption DEF Inserters
  <1> QED
    BY <1>1, FS_Subset, FS_CardinalityType

\* A step of one run keeps the bound when a document it gives a point was one
\* it could insert and no longer can, and it makes itself no new inserter of a
\* document that is there.
LEMMA OnceStep ==
  ASSUME OnceInv, NEW j \in Jobs, NEW r \in Job, job' = [job EXCEPT ![j] = r],
         IndexInv', Once(r),
         \A d \in Docs :
           \/ points'[d] = <<>>
           \/ points'[d] = points[d] /\ (MayInsert(r, d) => MayInsert(job[j], d))
           \/ /\ Len(points'[d]) = Len(points[d]) + 1
              /\ MayInsert(job[j], d) /\ ~MayInsert(r, d)
  PROVE  OnceInv'
  <1>1. job'[j] = r /\ \A i \in Jobs : i # j => job'[i] = job[i]
    BY DEF OnceInv, IndexInv, TypeOK
  <1>2. ASSUME NEW i \in Jobs PROVE Once(job[i])'
    <2>1. CASE i = j
      BY <1>1, <2>1 DEF Once
    <2>2. CASE i # j
      BY <1>1, <2>2 DEF OnceInv, Once
    <2> QED
      BY <2>1, <2>2
  <1>3. \A d : Inserters(d)' = {i \in Jobs : MayInsert(job'[i], d)}
    BY DEF Inserters, MayInsert, InBuffer
  <1>4. ASSUME NEW d \in Docs
        PROVE  Len(points'[d]) + Cardinality(Inserters(d)') <= Cardinality(Jobs)
    <2>1. Inserters(d)' \in SUBSET Jobs /\ IsFiniteSet(Jobs)
      BY <1>3, IndexingAssumption
    <2>2. /\ IsFiniteSet(Inserters(d)') /\ Cardinality(Inserters(d)') \in Nat
          /\ Cardinality(Inserters(d)') <= Cardinality(Jobs) /\ Cardinality(Jobs) \in Nat
      BY <2>1, FS_Subset, FS_CardinalityType
    <2>3. Len(points[d]) \in Nat /\ Len(points'[d]) \in Nat
      BY DEF OnceInv, IndexInv, TypeOK
    <2>4. /\ IsFiniteSet(Inserters(d)) /\ Cardinality(Inserters(d)) \in Nat
          /\ Len(points[d]) + Cardinality(Inserters(d)) <= Cardinality(Jobs)
      BY FewInserters DEF OnceInv
    <2>5. CASE points'[d] = <<>>
      BY <2>2, <2>5
    <2>6. CASE points'[d] = points[d] /\ (MayInsert(r, d) => MayInsert(job[j], d))
      <3>1. Inserters(d)' \in SUBSET Inserters(d)
        BY <1>1, <1>3, <2>6 DEF Inserters
      <3>2. Cardinality(Inserters(d)') <= Cardinality(Inserters(d))
        BY <2>4, <3>1, FS_Subset
      <3> QED
        BY <2>2, <2>3, <2>4, <2>6, <3>2
    <2>7. CASE /\ Len(points'[d]) = Len(points[d]) + 1
               /\ MayInsert(job[j], d) /\ ~MayInsert(r, d)
      <3>1. Inserters(d)' = Inserters(d) \ {j} /\ j \in Inserters(d)
        BY <1>1, <1>3, <2>7 DEF Inserters
      <3>2. Cardinality(Inserters(d)') = Cardinality(Inserters(d)) - 1
        BY <2>4, <3>1, FS_RemoveElement
      <3> QED
        BY <2>2, <2>3, <2>4, <2>7, <3>2
    <2> QED
      BY <2>5, <2>6, <2>7
  <1> QED
    BY <1>2, <1>4 DEF OnceInv

\* In the first state nothing has a point.
LEMMA OnceInit == Init => OnceInv
  <1> SUFFICES ASSUME Init PROVE OnceInv
    OBVIOUS
  <1>1. \A j \in Jobs : Once(job[j])
    BY DEF Init, Once, IdleJob
  <1>2. \A d \in Docs : Len(points[d]) = 0
    BY DEF Init
  <1> QED
    BY <1>1, <1>2, IndexInit, FewInserters DEF OnceInv

\* Start, the scroll and the end of a batch: a document that is there when the
\* scroll begins is seen by it.
LEMMA OnceRead ==
  ASSUME OnceInv, IndexInv', NEW j \in Jobs,
         \/ \E data \in Datasets : Start(j, data)
         \/ ScrollBegin(j) \/ ScrollEnd(j) \/ EndBatch(j) \/ Stop(j) \/ Finish(j)
  PROVE  OnceInv'
  <1>1. job[j] \in Job /\ job \in [Jobs -> Job] /\ Once(job[j])
    BY DEF OnceInv, IndexInv, TypeOK
  <1>2. points' = points /\ job' \in [Jobs -> Job]
    BY DEF Start, ScrollBegin, ScrollEnd, EndBatch, Stop, Finish, IndexInv, TypeOK
  <1>3. PICK r : r = job'[j]
    OBVIOUS
  <1>4. r \in Job /\ job' = [job EXCEPT ![j] = r]
    BY <1>1, <1>2, <1>3 DEF Start, ScrollBegin, ScrollEnd, EndBatch, Stop, Finish
  <1>5. CASE (\E data \in Datasets : Start(j, data)) \/ Stop(j) \/ Finish(j)
    <2>1. r.pc \in {"idle", "connect"} /\ r.new = {} /\ r.buffer = <<>>
      <3>1. CASE \E data \in Datasets : Start(j, data)
        <4>1. PICK data \in Datasets : Start(j, data)
          BY <3>1
        <4>2. job[j].new = {} /\ job[j].buffer = <<>>
          BY <1>1, <4>1 DEF Start, Once
        <4>3. r = [job[j] EXCEPT !.pc = "connect", !.data = data, !.todo = data, !.adapter = adapter]
          BY <1>1, <1>3, <4>1 DEF Start
        <4> QED
          BY <1>1, <4>2, <4>3 DEF Job
      <3>2. CASE Stop(j) \/ Finish(j)
        BY <1>1, <1>3, <3>2 DEF Stop, Finish, IdleJob
      <3> QED
        BY <1>5, <3>1, <3>2
    <2>2. Once(r) /\ \A d : ~MayInsert(r, d)
      BY <2>1 DEF Once, MayInsert
    <2> QED
      BY <1>2, <1>4, <2>2, OnceStep
  <1>6. CASE ScrollBegin(j)
    <2>1. /\ r.existing = Present /\ r.new = {} /\ r.buffer = <<>>
      BY <1>1, <1>3, <1>6 DEF ScrollBegin, Once, Job
    <2>2. Once(r) /\ \A d \in Docs : points[d] # <<>> => ~MayInsert(r, d)
      BY <2>1 DEF Once, MayInsert, Present
    <2> QED
      BY <1>2, <1>4, <2>2, OnceStep
  <1>7. CASE ScrollEnd(j)
    <2>1. /\ job[j].existing \subseteq r.existing /\ r.new = {} /\ r.buffer = <<>>
          /\ job[j].new = {} /\ job[j].pc = "scroll"
      <3>1. job[j].new = {} /\ job[j].buffer = <<>> /\ job[j].pc = "scroll"
        BY <1>1, <1>7 DEF ScrollEnd, Once
      <3>2. PICK more \in SUBSET (Present \ job[j].existing) :
              job' = [job EXCEPT ![j].pc = "batch", ![j].left = BatchSize,
                                 ![j].existing = @ \cup more]
        BY <1>7 DEF ScrollEnd
      <3>3. r = [job[j] EXCEPT !.pc = "batch", !.left = BatchSize, !.existing = @ \cup more]
        BY <1>1, <1>3, <3>2
      <3> QED
        BY <1>1, <3>1, <3>3 DEF Job
    <2>2. Once(r) /\ \A d : MayInsert(r, d) => MayInsert(job[j], d)
      BY <2>1 DEF Once, MayInsert
    <2> QED
      BY <1>2, <1>4, <2>2, OnceStep
  <1>8. CASE EndBatch(j)
    <2>1. /\ r.existing = job[j].existing /\ r.new = job[j].new /\ r.buffer = job[j].buffer
          /\ job[j].pc = "batch"
      BY <1>1, <1>3, <1>8 DEF EndBatch, Job
    <2>2. r.pc \in {"insert", "done", "batch"}
      BY <1>1, <1>3, <1>8 DEF EndBatch, AfterBatch, Job
    <2>3. Once(r) /\ \A d : MayInsert(r, d) => MayInsert(job[j], d)
      BY <1>1, <2>1, <2>2 DEF Once, MayInsert, InBuffer
    <2> QED
      BY <1>2, <1>4, <2>3, OnceStep
  <1> QED
    BY <1>5, <1>6, <1>7, <1>8

\* A document that is kept was neither seen nor kept before.
LEMMA OnceExamine ==
  ASSUME OnceInv, IndexInv', NEW j \in Jobs, NEW d \in Docs, Examine(j, d)
  PROVE  OnceInv'
  <1>1. job[j] \in Job /\ job \in [Jobs -> Job] /\ Once(job[j]) /\ job[j].buffer \in Seq(Docs)
    BY DEF OnceInv, IndexInv, TypeOK, Job
  <1>2. points' = points /\ job' \in [Jobs -> Job]
    BY DEF Examine, IndexInv, TypeOK
  <1>3. PICK skipped \in BOOLEAN : skipped = (IsExactDuplicate(j, d) \/ IsFuzzyDuplicate(j, d))
    BY DEF IsExactDuplicate, IsFuzzyDuplicate
  <1>4. PICK r : r = [job[j] EXCEPT !.todo = @ \ {d}, !.left = @ - 1,
                                    !.new = IF skipped THEN @ ELSE @ \cup {d},
                                    !.buffer = IF skipped THEN @ ELSE Append(@, d)]
    OBVIOUS
  <1>5. job' = [job EXCEPT ![j] = r] /\ r = job'[j]
    BY <1>1, <1>3, <1>4 DEF Examine
  <1>6. r \in Job
    BY <1>2, <1>5
  <1>7. r.existing = job[j].existing /\ r.pc = "batch" /\ job[j].pc = "batch"
    BY <1>1, <1>4 DEF Examine, Job
  <1>8. CASE skipped
    <2>1. r.new = job[j].new /\ r.buffer = job[j].buffer
      BY <1>1, <1>4, <1>8 DEF Job
    <2>2. Once(r) /\ \A e : MayInsert(r, e) => MayInsert(job[j], e)
      BY <1>1, <1>7, <2>1 DEF Once, MayInsert, InBuffer
    <2> QED
      BY <1>2, <1>5, <1>6, <2>2, OnceStep
  <1>9. CASE ~skipped
    <2>1. r.new = job[j].new \cup {d} /\ r.buffer = Append(job[j].buffer, d)
      BY <1>1, <1>4, <1>9 DEF Job
    <2>2. d \notin job[j].existing \cup job[j].new
      BY <1>3, <1>9 DEF IsExactDuplicate
    <2>3. PICK b \in Seq(Docs) : b = job[j].buffer
      BY <1>1
    <2>4. /\ DOMAIN r.buffer = 1..(Len(b) + 1) /\ DOMAIN b = 1..Len(b) /\ Len(b) \in Nat
          /\ \A i \in DOMAIN b : r.buffer[i] = b[i]
          /\ r.buffer[Len(b) + 1] = d
      BY <2>1, <2>3
    <2>5. /\ \A i \in DOMAIN b : b[i] \in job[j].new \ job[j].existing
          /\ \A i, k \in DOMAIN b : b[i] = b[k] => i = k
      BY <1>1, <2>3 DEF Once
    <2>6. \A i \in DOMAIN r.buffer : i \in DOMAIN b \/ i = Len(b) + 1
      BY <2>4
    <2>7. \A i \in DOMAIN b : b[i] # d
      BY <2>2, <2>5
    <2>8. \A i \in DOMAIN r.buffer : r.buffer[i] \in r.new \ r.existing
      BY <1>7, <2>1, <2>2, <2>4, <2>5, <2>6
    <2>9. \A i, k \in DOMAIN r.buffer : r.buffer[i] = r.buffer[k] => i = k
      BY <2>4, <2>5, <2>6, <2>7
    <2>10. Once(r)
      BY <1>7, <2>8, <2>9 DEF Once
    <2>11. ASSUME NEW e, MayInsert(r, e) PROVE MayInsert(job[j], e)
      <3>1. CASE e = d
        BY <1>7, <2>2, <3>1 DEF MayInsert
      <3>2. CASE e # d
        <4>1. e \in job[j].new => \E i \in DOMAIN r.buffer : r.buffer[i] = e
          BY <2>1, <2>11 DEF MayInsert, InBuffer
        <4>2. e \in job[j].new => \E i \in DOMAIN b : b[i] = e
          BY <2>4, <2>6, <3>2, <4>1
        <4> QED
          BY <1>7, <2>3, <2>11, <4>2 DEF MayInsert, InBuffer
      <3> QED
        BY <3>1, <3>2
    <2> QED
      BY <1>2, <1>5, <1>6, <2>10, <2>11, OnceStep
  <1> QED
    BY <1>8, <1>9

\* A document that is inserted leaves the buffer, where it was once.
LEMMA OnceUpsert ==
  ASSUME OnceInv, IndexInv', NEW j \in Jobs, Upsert(j)
  PROVE  OnceInv'
  <1>1. job[j] \in Job /\ job \in [Jobs -> Job] /\ Once(job[j])
    BY DEF OnceInv, IndexInv, TypeOK
  <1>2. PICK b \in Seq(Docs) : b = job[j].buffer
    BY <1>1 DEF Job
  <1>3. PICK rest : rest = SubSeq(b, InsertBatch + 1, Len(b))
    OBVIOUS
  <1>4. /\ rest \in Seq(Docs) /\ InsertBatch \in Nat \ {0}
        /\ \A i \in DOMAIN b : i <= InsertBatch \/ \E k \in DOMAIN rest : rest[k] = b[i]
        /\ \A k \in DOMAIN rest : k + InsertBatch \in DOMAIN b /\ rest[k] = b[k + InsertBatch]
    BY <1>3, RestOfBuffer, IndexingAssumption
  <1>5. PICK r : r = [job[j] EXCEPT !.buffer = rest,
                                    !.pc = IF rest = <<>> THEN "batch" ELSE "insert"]
    OBVIOUS
  <1>6. job' = [job EXCEPT ![j] = r] /\ r = job'[j] /\ r \in Job
    <2>1. job' = [job EXCEPT ![j] = r]
      BY <1>1, <1>2, <1>3, <1>5 DEF Upsert
    <2> QED
      BY <1>1, <2>1 DEF IndexInv, TypeOK
  <1>7. /\ r.existing = job[j].existing /\ r.new = job[j].new /\ r.buffer = rest
        /\ r.pc \in {"batch", "insert"} /\ job[j].pc = "insert"
    BY <1>1, <1>5 DEF Job, Upsert
  <1>8. /\ \A i \in DOMAIN b : b[i] \in job[j].new \ job[j].existing
        /\ \A i, k \in DOMAIN b : b[i] = b[k] => i = k
    BY <1>1, <1>2 DEF Once
  <1>9. \A k \in DOMAIN rest : k \in Nat \ {0}
    BY <1>4
  <1>10. \A i, k \in DOMAIN rest : rest[i] = rest[k] => i = k
    <2>1. ASSUME NEW i \in DOMAIN rest, NEW k \in DOMAIN rest, rest[i] = rest[k] PROVE i = k
      <3>1. i + InsertBatch = k + InsertBatch
        BY <1>4, <1>8, <2>1
      <3> QED
        BY <1>4, <1>9, <3>1
    <2> QED
      BY <2>1
  <1>11. Once(r)
    BY <1>4, <1>7, <1>8, <1>10 DEF Once
  <1>12. points' = [d \in Docs |-> IF d \in Chunk(j) THEN Append(points[d], job[j].adapter)
                                   ELSE points[d]]
    BY DEF Upsert
  <1>13. ASSUME NEW d \in Docs, d \notin Chunk(j)
         PROVE  points'[d] = points[d] /\ (MayInsert(r, d) => MayInsert(job[j], d))
    <2>1. InBuffer(r, d) => InBuffer(job[j], d)
      BY <1>2, <1>4, <1>7 DEF InBuffer
    <2> QED
      BY <1>7, <1>12, <1>13, <2>1 DEF MayInsert
  <1>14. ASSUME NEW d \in Docs, d \in Chunk(j)
         PROVE  /\ Len(points'[d]) = Len(points[d]) + 1
                /\ MayInsert(job[j], d) /\ ~MayInsert(r, d)
    <2>1. PICK i \in DOMAIN b : i <= InsertBatch /\ b[i] = d
      BY <1>2, <1>14 DEF Chunk
    <2>2. d \in job[j].new \ job[j].existing
      BY <1>8, <2>1
    <2>3. MayInsert(job[j], d)
      BY <1>2, <1>7, <2>1, <2>2 DEF MayInsert, InBuffer
    <2>4. ASSUME NEW k \in DOMAIN rest, rest[k] = d PROVE FALSE
      <3>1. k + InsertBatch = i
        BY <1>4, <1>8, <2>1, <2>4
      <3> QED
        BY <1>4, <1>9, <2>1, <3>1
    <2>5. ~MayInsert(r, d)
      BY <1>7, <2>2, <2>4 DEF MayInsert, InBuffer
    <2>6. Len(points'[d]) = Len(points[d]) + 1
      <3>1. PICK s \in Seq(1..MaxAdapter) : s = points[d]
        BY DEF OnceInv, IndexInv, TypeOK
      <3>2. PICK a : a = job[j].adapter
        OBVIOUS
      <3>3. points'[d] = Append(s, a)
        BY <1>12, <1>14, <3>1, <3>2
      <3> QED
        BY <3>1, <3>3
    <2> QED
      BY <2>3, <2>5, <2>6
  <1> QED
    BY <1>6, <1>11, <1>13, <1>14, OnceStep

\* Every step keeps the bound.
LEMMA OnceNext == OnceInv /\ [Next]_vars => OnceInv'
  <1> SUFFICES ASSUME OnceInv, [Next]_vars PROVE OnceInv'
    OBVIOUS
  <1>1. IndexInv'
    BY IndexNext DEF OnceInv
  <1>2. CASE Promote \/ UNCHANGED vars
    <2>1. UNCHANGED <<points, job>>
      BY <1>2 DEF Promote, vars
    <2> QED
      BY <1>1, <2>1 DEF OnceInv, Once, Inserters, MayInsert, InBuffer
  <1> QED
    BY <1>1, <1>2, OnceRead, OnceExamine, OnceUpsert DEF Next

\* However often runs are killed half way and repeated, a document has no more
\* points than there are runs that can overlap.
THEOREM PointsBounded == Spec => []OnePointPerRun
  <1>1. OnceInv => OnePointPerRun
    <2>1. ASSUME OnceInv, NEW d \in Docs PROVE Len(points[d]) <= Cardinality(Jobs)
      <3>1. Len(points[d]) \in Nat
        BY <2>1 DEF OnceInv, IndexInv, TypeOK
      <3> QED
        BY <2>1, <3>1, FewInserters DEF OnceInv
    <2> QED
      BY <2>1 DEF OnePointPerRun
  <1> QED
    BY <1>1, OnceInit, OnceNext, PTL DEF Spec
=============================================================================
