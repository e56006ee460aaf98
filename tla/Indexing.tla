------------------------------ MODULE Indexing ------------------------------
(***************************************************************************)
(* The incremental indexing of a knowledge base into Qdrant: runs of       *)
(* index_db share one collection on the server.  A run reads the ids that  *)
(* are there once, drops exact and near duplicates, buffers the rest and   *)
(* upserts it in chunks.  It may be killed, or a call may fail (before or   *)
(* after the server did its work), between any two steps; points get a     *)
(* fresh uuid, so nothing but the ids read keeps a document from being     *)
(* inserted twice.                                                         *)
(***************************************************************************)
EXTENDS Naturals, Sequences, FiniteSets

CONSTANTS
  Docs,          \* doc_ids: the hash of a chunk's text, url and title
  Near,          \* pairs of documents MinHashLSH takes for near duplicates
  Datasets,      \* the sets of documents a run may be given
  Jobs,          \* runs that may overlap
  BatchSize,     \* dataloader.batch_size
  PushBatch,     \* push_batch_size
  InsertBatch,   \* insert_batch_size of the store
  MaxAdapter     \* bound: adapters promoted for the encoder

ASSUME IndexingAssumption ==
  /\ Near \subseteq Docs \X Docs
  /\ Datasets \subseteq SUBSET Docs
  /\ BatchSize \in Nat \ {0} /\ PushBatch \in Nat \ {0} /\ InsertBatch \in Nat \ {0}
  /\ MaxAdapter \in Nat \ {0}
  /\ IsFiniteSet(Jobs)

VARIABLES
  points,     \* points[d]: for each point with doc_id d, the adapter that embedded it
  adapter,    \* the encoder's adapter in Production
  finished,   \* the documents of the runs that ended well
  job         \* job[j]: the local state of a run

vars == <<points, adapter, finished, job>>
-----------------------------------------------------------------------------
IdleJob ==
  [pc |-> "idle", data |-> {}, todo |-> {}, left |-> 0, existing |-> {},
   new |-> {}, buffer |-> <<>>, adapter |-> 0]

Present == {d \in Docs : points[d] # <<>>}

Init ==
  /\ points = [d \in Docs |-> <<>>]
  /\ adapter = 1
  /\ finished = {}
  /\ job = [j \in Jobs |-> IdleJob]

\* Mutant of Start: the encoder is built without the adapter.
StartBare(j, data) ==
  /\ job[j].pc = "idle"
  /\ job' = [job EXCEPT ![j].pc = "connect", ![j].data = data, ![j].todo = data]
  /\ UNCHANGED <<points, adapter, finished>>

\* resolve_and_patch and build_inference_encoder take the adapter of the day.
Start(j, data) ==
  /\ job[j].pc = "idle"
  /\ job' = [job EXCEPT ![j].pc = "connect", ![j].data = data, ![j].todo = data,
                        ![j].adapter = adapter]
  /\ UNCHANGED <<points, adapter, finished>>

\* existing_doc_ids scrolls through the collection page by page: it sees what
\* was there when it began, ...
ScrollBegin(j) ==
  /\ job[j].pc = "connect"
  /\ job' = [job EXCEPT ![j].pc = "scroll", ![j].existing = Present]
  /\ UNCHANGED <<points, adapter, finished>>

\* ... and any part of what came in between.
ScrollEnd(j) ==
  /\ job[j].pc = "scroll"
  /\ \E more \in SUBSET (Present \ job[j].existing) :
       job' = [job EXCEPT ![j].pc = "batch", ![j].left = BatchSize,
                          ![j].existing = @ \cup more]
  /\ UNCHANGED <<points, adapter, finished>>

\* Mutant of IsExactDuplicate: only the documents of this run are compared.
IsNewDuplicate(j, d) == d \in job[j].new

IsExactDuplicate(j, d) == d \in job[j].existing \cup job[j].new

\* The LSH index starts empty in every run: it holds the documents of new_ids.
IsFuzzyDuplicate(j, d) == \E e \in job[j].new : <<d, e>> \in Near

\* The next document of the shuffled dataloader.  It is buffered with the
\* embedding of its batch, before anything is inserted.
Examine(j, d) ==
  /\ job[j].pc = "batch"
  /\ job[j].left > 0
  /\ d \in job[j].todo
  /\ LET skipped == IsExactDuplicate(j, d) \/ IsFuzzyDuplicate(j, d)
     IN  job' = [job EXCEPT ![j].todo = @ \ {d}, ![j].left = @ - 1,
                            ![j].new = IF skipped THEN @ ELSE @ \cup {d},
                            ![j].buffer = IF skipped THEN @ ELSE Append(@, d)]
  /\ UNCHANGED <<points, adapter, finished>>

\* Mutant of AfterBatch: what is in the buffer after the last batch is forgotten.
AfterBatchNoRest(j) ==
  CASE Len(job[j].buffer) >= PushBatch -> "insert"
    [] job[j].todo = {}                -> "done"
    [] OTHER                           -> "batch"

\* A full buffer is inserted, and what is left after the last batch.
AfterBatch(j) ==
  CASE \/ Len(job[j].buffer) >= PushBatch
       \/ job[j].todo = {} /\ job[j].buffer # <<>> -> "insert"
    [] job[j].todo = {} /\ job[j].buffer = <<>>    -> "done"
    [] OTHER                                       -> "batch"

EndBatch(j) ==
  /\ job[j].pc = "batch"
  /\ job[j].left = 0 \/ job[j].todo = {}
  /\ job' = [job EXCEPT ![j].pc = AfterBatch(j), ![j].left = BatchSize]
  /\ UNCHANGED <<points, adapter, finished>>

Chunk(j) ==
  LET b == job[j].buffer
  IN  {b[i] : i \in {k \in DOMAIN b : k <= InsertBatch}}

\* QdrantVectorStore.insert upserts the buffer in chunks, each with new uuids.
Upsert(j) ==
  LET rest == SubSeq(job[j].buffer, InsertBatch + 1, Len(job[j].buffer))
  IN  /\ job[j].pc = "insert"
      /\ points' = [d \in Docs |-> IF d \in Chunk(j) THEN Append(points[d], job[j].adapter)
                                   ELSE points[d]]
      /\ job' = [job EXCEPT ![j].buffer = rest,
                            ![j].pc = IF rest = <<>> THEN "batch" ELSE "insert"]
      /\ UNCHANGED <<adapter, finished>>

\* The manifest gets the URI of the collection (module Release).
Finish(j) ==
  /\ job[j].pc = "done"
  /\ finished' = finished \cup job[j].data
  /\ job' = [job EXCEPT ![j] = IdleJob]
  /\ UNCHANGED <<points, adapter>>

\* Killed, or an exception nobody catches.
Stop(j) ==
  /\ job[j].pc # "idle"
  /\ job' = [job EXCEPT ![j] = IdleJob]
  /\ UNCHANGED <<points, adapter, finished>>

\* The encoder is trained again and promoted (module Release).
Promote ==
  /\ adapter < MaxAdapter
  /\ adapter' = adapter + 1
  /\ UNCHANGED <<points, finished, job>>

Next ==
  \/ \E j \in Jobs :
       \/ \E data \in Datasets : Start(j, data)
       \/ ScrollBegin(j) \/ ScrollEnd(j)
       \/ \E d \in Docs : Examine(j, d)
       \/ EndBatch(j) \/ Upsert(j) \/ Finish(j) \/ Stop(j)
  \/ Promote

Spec == Init /\ [][Next]_vars
-----------------------------------------------------------------------------
(* Properties.                                                             *)

Job ==
  [pc : {"idle", "connect", "scroll", "batch", "insert", "done"},
   data : SUBSET Docs, todo : SUBSET Docs, left : 0..BatchSize,
   existing : SUBSET Docs, new : SUBSET Docs, buffer : Seq(Docs),
   adapter : 0..MaxAdapter]

\* Every variable has its type.
TypeOK ==
  /\ points \in [Docs -> Seq(1..MaxAdapter)]
  /\ adapter \in 1..MaxAdapter
  /\ finished \subseteq Docs
  /\ job \in [Jobs -> Job]

\* A document of a run that ended well can be found, itself or a near
\* duplicate of it, whatever was killed before and runs beside it: the ids a
\* run skips are in the collection, and no buffered document is lost.
Searchable(d) == \E e \in Present : e = d \/ <<d, e>> \in Near

FinishedSearchable == \A d \in finished : Searchable(d)

\* A document has no more points than there are overlapping runs, however often
\* runs are killed half way and repeated; with one run at a time none twice.
OnePointPerRun == \A d \in Docs : Len(points[d]) <= Cardinality(Jobs)

\* README: after training rag_index_db builds the index anew.  (It is
\* incremental: what is there keeps the embedding of the old adapter.)
IndexedWithItsAdapter ==
  [][\A j \in Jobs :
       job[j].pc = "done" /\ finished' # finished =>
         \A d \in job[j].data : \A i \in DOMAIN points[d] :
           points[d][i] >= job[j].adapter]_vars
=============================================================================
