------------------------------ MODULE RagServer ------------------------------
(***************************************************************************)
(* The RAG API server: a loader thread that startup waits for with a       *)
(* timeout, and one HybridRetriever that all requests share, each in a     *)
(* thread of the default executor.  A call of the retriever searches a     *)
(* Qdrant collection that index runs fill meanwhile, falls back when a     *)
(* stage fails, and reranks the candidates with a cross-encoder.           *)
(*                                                                         *)
(* A step is what a thread does up to the next point where another thread  *)
(* or Qdrant may come in between.  Qdrant's rank fusion is external: any   *)
(* order that puts a document behind those which both lists prefer.        *)
(***************************************************************************)
EXTENDS Naturals, Sequences, FiniteSets, SequencesExt

CONSTANTS
  Requests,      \* calls of the retriever served at the same time
  Threads,       \* numbers of workers the default executor may have
  Docs,          \* documents of the knowledge base
  Matches,       \* the sets of documents a filter can leave
  Queries,       \* queries of one call: 1 for REST, more for the evaluator
  TopK,          \* top_k of a call
  RerankFactor,  \* rerank_factor: candidates fetched for each one answered
  Reranker,      \* whether rag_pipeline.reranker is configured
  Dense, Sparse, \* Docs in the order of the dense and of the BM25 score
  Cross          \* Cross[d]: the cross-encoder's score of document d

ASSUME RagServerAssumption ==
  /\ IsFiniteSet(Requests) /\ IsFiniteSet(Docs)
  /\ Matches \subseteq SUBSET Docs
  /\ Threads \subseteq Nat \ {0} /\ Threads # {}
  /\ {Queries, TopK, RerankFactor} \subseteq Nat \ {0}
  /\ Reranker \in BOOLEAN
  /\ {Dense, Sparse} \subseteq SetToSeqs(Docs)
  /\ Cross \in [Docs -> Nat]

VARIABLES
  server,   \* the event loop: "starting", "serving", "refused" or "gone"
  loader,   \* where the thread of _load_rag_stack_sync is
  ml,       \* app.state.ml_models["retriever"]: "none", "plain" or "reranking"
  threads,  \* workers of the default executor: the processors of the machine decide
  exists,   \* whether the collection exists
  store,    \* the documents in the collection
  call,     \* call[r]: the local state of a call of batch_search; found, seen and
            \* alone remember what was found, in what, and whether no call overlapped
  report,   \* last_batch_degradation: its keys
  timing    \* last_batch_timing_sec: its keys

vars == <<server, loader, ml, threads, exists, store, call, report, timing>>
process == <<server, loader, ml, threads>>
shared == <<report, timing>>
collection == <<exists, store>>
-----------------------------------------------------------------------------
(* Data: the pure steps of a search.                                       *)

Nothing == [q \in 1..Queries |-> <<>>]

FetchK == IF ml = "reranking" THEN TopK * RerankFactor ELSE TopK

First(s, k) == SubSeq(s, 1, IF k < Len(s) THEN k ELSE Len(s))

\* Position of d among the documents of S in one list; past its limit, none.
Place(order, S, limit, d) ==
  LET Index(e) == CHOOSE i \in DOMAIN order : order[i] = e
      place == Cardinality({e \in S : Index(e) <= Index(d)})
  IN  IF d \in S /\ place <= limit THEN place ELSE limit + 1

\* The answers query_points may give: both prefetches take twice the limit.
Hybrid(S, k) ==
  LET Limit == 2 * k
      In(order, d) == Place(order, S, Limit, d)
      Prefetched == {d \in S : In(Dense, d) <= Limit \/ In(Sparse, d) <= Limit}
      Better(c, d) == /\ In(Dense, c) <= In(Dense, d)
                      /\ In(Sparse, c) <= In(Sparse, d)
                      /\ c # d
      Fused == {s \in SetToSeqs(Prefetched) :
                  \A i, j \in DOMAIN s : Better(s[i], s[j]) => i < j}
  IN  {First(s, k) : s \in Fused}

\* The positions of s in an order: the one that n - 1 others come before is n-th.
Sorted(s, Before(_, _)) ==
  [n \in DOMAIN s |->
     s[CHOOSE i \in DOMAIN s : Cardinality({j \in DOMAIN s : Before(j, i)}) = n - 1]]

\* Mutant of Rerank: sorted with the smallest score first.
RerankAscending(s) ==
  LET Before(i, j) == \/ Cross[s[i]] < Cross[s[j]]
                      \/ Cross[s[i]] = Cross[s[j]] /\ i < j
  IN  Sorted(s, Before)

\* rerank sorts the list it is given in place, by score and stably.
Rerank(s) ==
  LET Before(i, j) == \/ Cross[s[i]] > Cross[s[j]]
                      \/ Cross[s[i]] = Cross[s[j]] /\ i < j
  IN  Sorted(s, Before)
-----------------------------------------------------------------------------
IdleCall ==
  [pc |-> "idle", match |-> Docs, results |-> Nothing, cur |-> 1,
   degraded |-> {}, timed |-> {}, found |-> Nothing, seen |-> {}, alone |-> TRUE]

At(r, pc) == call[r].pc = pc
Running == {r \in Requests : call[r].pc \notin {"idle", "queued", "done", "raised"}}

Init ==
  /\ server = "starting"
  /\ loader = "models"
  /\ ml = "none"
  /\ threads \in Threads
  /\ exists \in BOOLEAN
  /\ store = {}
  /\ call = [r \in Requests |-> IdleCall]
  /\ report = {}
  /\ timing = {}
-----------------------------------------------------------------------------
(* Startup: lifespan and _load_rag_stack_sync.                             *)

Load(from, to) == server # "gone" /\ loader = from /\ loader' = to

\* Manifest, encoder, adapter and pooler; an exception ends the thread.
LoadModels ==
  /\ \/ Load("models", "connect")
     \/ Load("models", "failed")
  /\ UNCHANGED <<server, ml, threads, collection, call, shared>>

\* QdrantVectorStore.connect: a collection that is not listed is created, ...
Connect ==
  /\ Load("connect", IF exists THEN "reranker" ELSE "create")
  /\ UNCHANGED <<server, ml, threads, collection, call, shared>>

\* ... which Qdrant refuses when an index run has created it meanwhile.
Create ==
  /\ Load("create", IF exists THEN "failed" ELSE "reranker")
  /\ exists' = TRUE
  /\ UNCHANGED <<server, ml, threads, store, call, shared>>

\* Any exception while the reranker is loaded leaves the retriever without it.
Publish ==
  /\ Load("reranker", "done")
  /\ ml' \in IF Reranker THEN {"plain", "reranking"} ELSE {"plain"}
  /\ UNCHANGED <<server, threads, collection, call, shared>>

Serve ==
  /\ server = "starting"
  /\ loader = "done"
  /\ server' = "serving"
  /\ UNCHANGED <<loader, ml, threads, collection, call, shared>>

\* wait_for gives up: the thread is not stopped by that.  Or the thread raised.
Refuse ==
  /\ server = "starting"
  /\ server' = "refused"
  /\ UNCHANGED <<loader, ml, threads, collection, call, shared>>

\* Mutant of Exit: the process ends only when the stack was loaded.
ExitWhenLoaded ==
  /\ server = "refused"
  /\ loader = "done"
  /\ server' = "gone"
  /\ UNCHANGED <<loader, ml, threads, collection, call, shared>>

\* The interpreter joins the executor's threads before it ends.
Exit ==
  /\ server = "refused"
  /\ loader \in {"done", "failed"}
  /\ server' = "gone"
  /\ UNCHANGED <<loader, ml, threads, collection, call, shared>>

\* The process is killed, or started again, perhaps on another machine.
Kill ==
  /\ server # "gone"
  /\ server' = "gone"
  /\ call' = [r \in Requests |-> IdleCall]
  /\ UNCHANGED <<loader, ml, threads, collection, shared>>

Restart ==
  /\ server = "gone"
  /\ server' = "starting"
  /\ loader' = "models"
  /\ ml' = "none"
  /\ threads' \in Threads
  /\ call' = [r \in Requests |-> IdleCall]
  /\ report' = {} /\ timing' = {}
  /\ UNCHANGED collection

Startup == \/ LoadModels \/ Connect \/ Create \/ Publish
           \/ Serve \/ Refuse \/ Exit \/ Restart

\* An index run creates the collection and adds documents to it.
Index ==
  /\ \/ ~exists /\ UNCHANGED store
     \/ \E d \in Docs \ store : store' = store \cup {d}
  /\ exists' = TRUE
  /\ UNCHANGED <<process, call, shared>>

-----------------------------------------------------------------------------
(* search_endpoint and HybridRetriever.batch_search                        *)

\* The endpoint hands the call to the default executor.
Arrive(r, match) ==
  /\ server = "serving"
  /\ At(r, "idle")
  /\ call' = [call EXCEPT ![r].pc = "queued", ![r].match = match]
  /\ UNCHANGED <<process, collection, shared>>

\* Mutant of Begin: what the call before reported is kept.
BeginKeeps(r) ==
  /\ At(r, "queued")
  /\ Cardinality(Running) < threads
  /\ call' = [c \in Requests |->
       IF c = r THEN [call[r] EXCEPT !.pc = "count", !.alone = Running = {}]
                ELSE [call[c] EXCEPT !.alone = FALSE]]
  /\ UNCHANGED <<process, collection, shared>>

\* A thread is free.  The degradation of the last call, whoever's, is cleared.
Begin(r) ==
  /\ At(r, "queued")
  /\ Cardinality(Running) < threads
  /\ report' = {}
  /\ call' = [c \in Requests |->
       IF c = r THEN [call[r] EXCEPT !.pc = "count", !.alone = Running = {}]
                ELSE [call[c] EXCEPT !.alone = FALSE]]
  /\ UNCHANGED <<process, collection, timing>>

\* An exception that batch_search does not handle: a failed count, or an
\* encoder that raises something other than a RuntimeError.
Raise(r) ==
  /\ At(r, "count") \/ At(r, "encode")
  /\ call' = [call EXCEPT ![r].pc = "raised"]
  /\ UNCHANGED <<process, collection, shared>>

\* vector_db.ntotal, a call to the server.
Count(r) ==
  /\ At(r, "count")
  /\ IF store = {}
       THEN timing' = {} /\ call' = [call EXCEPT ![r].pc = "done"]
       ELSE call' = [call EXCEPT ![r].pc = "encode"] /\ UNCHANGED timing
  /\ UNCHANGED <<process, collection, report>>

\* A RuntimeError leaves the call without vectors.
Encode(r) ==
  /\ At(r, "encode")
  /\ \E pc \in {"search", "bm25"} :
       call' = [call EXCEPT ![r].pc = pc, ![r].timed = {"encode"}]
  /\ UNCHANGED <<process, collection, shared>>

\* search_hybrid answers every query of the call.
Found(r, results) ==
  call' = [call EXCEPT ![r].pc = "rerank", ![r].results = results,
                       ![r].found = results, ![r].seen = store \cap call[r].match,
                       ![r].timed = @ \cup {"search"}]

SearchHybrid(r) ==
  /\ At(r, "search")
  /\ \E results \in [1..Queries -> Hybrid(store \cap call[r].match, FetchK)] :
       Found(r, results)
  /\ UNCHANGED <<process, collection, shared>>

\* Mutant of SearchFails: the mode stays "hybrid".
SearchFailsSilently(r) ==
  /\ At(r, "search") \/ At(r, "bm25")
  /\ call' = [call EXCEPT ![r].pc = "rerank", ![r].timed = @ \cup {"sparse"}]
  /\ UNCHANGED <<process, collection, shared>>

\* search_hybrid raises, or there are no vectors for it.  The fallbacks
\* search_dense and search_sparse are methods no store has: both raise too.
SearchFails(r) ==
  /\ At(r, "search") \/ At(r, "bm25")
  /\ report' = report \cup {"search"}
  /\ call' = [call EXCEPT ![r].pc = "rerank", ![r].timed = @ \cup
                            (IF At(r, "search") THEN {"search", "dense"} ELSE {})
                               \cup {"sparse"},
                          ![r].degraded = {"search"}]
  /\ UNCHANGED <<process, collection, timing>>

\* The call returns; its timing replaces the last one's.
Return(r, results, timed) ==
  /\ call' = [call EXCEPT ![r].pc = "done", ![r].results = results,
                          ![r].timed = timed]
  /\ timing' = timed

NoReranker(r) ==
  /\ At(r, "rerank")
  /\ ml = "plain"
  /\ Return(r, call[r].results, call[r].timed)
  /\ UNCHANGED <<process, collection, report>>

\* Mutant of RerankNext: one query too many.
RerankPastEnd(r) ==
  /\ At(r, "rerank")
  /\ ml = "reranking"
  /\ call[r].cur <= Queries + 1
  /\ call' = [call EXCEPT ![r].cur = @ + 1]
  /\ UNCHANGED <<process, collection, shared>>

\* The candidates of the next query are scored and sorted where they are.
RerankNext(r) ==
  /\ At(r, "rerank")
  /\ ml = "reranking"
  /\ call[r].cur <= Queries
  /\ call' = [call EXCEPT ![r].results[call[r].cur] = Rerank(@), ![r].cur = @ + 1]
  /\ UNCHANGED <<process, collection, shared>>

Cut(results) == [q \in 1..Queries |-> First(results[q], TopK)]

Reranked(r) ==
  /\ At(r, "rerank")
  /\ ml = "reranking"
  /\ call[r].cur > Queries
  /\ Return(r, Cut(call[r].results), call[r].timed \cup {"rerank"})
  /\ UNCHANGED <<process, collection, report>>

\* Mutant of RerankFails: reranking is tried again until it succeeds.
RerankRetried(r) ==
  /\ At(r, "rerank")
  /\ ml = "reranking"
  /\ call' = [call EXCEPT ![r].cur = 1]
  /\ UNCHANGED <<process, collection, shared>>

\* Mutant of RerankFails: all the candidates are returned.
RerankFailsUncut(r) ==
  /\ At(r, "rerank")
  /\ ml = "reranking"
  /\ call[r].cur <= Queries
  /\ call[r].results[call[r].cur] # <<>>
  /\ report' = report \cup {"rerank"}
  /\ call' = [call EXCEPT ![r].pc = "done", ![r].degraded = @ \cup {"rerank"},
                          ![r].timed = @ \cup {"rerank_failed"}]
  /\ timing' = call'[r].timed
  /\ UNCHANGED <<process, collection>>

\* The model raises on a query that has candidates: all lists are cut as they
\* are, the ones of the queries before it already sorted.
RerankFails(r) ==
  /\ At(r, "rerank")
  /\ ml = "reranking"
  /\ call[r].cur <= Queries
  /\ call[r].results[call[r].cur] # <<>>
  /\ report' = report \cup {"rerank"}
  /\ call' = [call EXCEPT ![r].pc = "done", ![r].degraded = @ \cup {"rerank"},
                          ![r].results = Cut(@),
                          ![r].timed = @ \cup {"rerank_failed"}]
  /\ timing' = call'[r].timed
  /\ UNCHANGED <<process, collection>>

\* The endpoint answers with 200, or with 500 when the call raised.
Respond(r) ==
  /\ At(r, "done") \/ At(r, "raised")
  /\ call' = [call EXCEPT ![r] = IdleCall]
  /\ UNCHANGED <<process, collection, shared>>

Retrieve(r) ==
  \/ Begin(r) \/ Count(r) \/ Encode(r) \/ SearchHybrid(r) \/ SearchFails(r)
  \/ NoReranker(r) \/ RerankNext(r) \/ Reranked(r) \/ RerankFails(r)
  \/ Raise(r) \/ Respond(r)

Next ==
  \/ Startup \/ Kill \/ Index
  \/ \E r \in Requests : Retrieve(r) \/ \E match \in Matches : Arrive(r, match)

Spec == Init /\ [][Next]_vars

\* Threads run, the executor serves its queue in order, downloads and calls
\* to Qdrant have timeouts, and the event loop takes up what is finished.
FairSpec ==
  /\ Spec
  /\ WF_vars(LoadModels \/ Connect \/ Create \/ Publish \/ Exit)
  /\ WF_vars(Serve \/ Refuse)
  /\ \A r \in Requests : SF_vars(Begin(r)) /\ WF_vars(Retrieve(r))
-----------------------------------------------------------------------------
(* Properties.                                                             *)

Calls ==
  [pc : {"idle", "queued", "count", "encode", "search", "bm25", "rerank",
         "done", "raised"},
   match : SUBSET Docs, results : [1..Queries -> Seq(Docs)], cur : 1..Queries + 1,
   degraded : SUBSET {"search", "rerank"},
   timed : SUBSET {"encode", "search", "dense", "sparse", "rerank", "rerank_failed"},
   found : [1..Queries -> Seq(Docs)], seen : SUBSET Docs, alone : BOOLEAN]

\* The types, no more calls in threads than the executor has, and documents
\* only in a collection that exists.
TypeOK ==
  /\ server \in {"starting", "serving", "refused", "gone"}
  /\ loader \in {"models", "connect", "create", "reranker", "done", "failed"}
  /\ ml \in {"none", "plain", "reranking"}
  /\ threads \in Threads
  /\ exists \in BOOLEAN
  /\ store \subseteq Docs
  /\ call \in [Requests -> Calls]
  /\ report \subseteq {"search", "rerank"}
  /\ timing \subseteq {"encode", "search", "dense", "sparse", "rerank", "rerank_failed"}
  /\ Cardinality(Running) <= threads
  /\ store # {} => exists

\* The TopK best of S by the cross-encoder, best first; equal ones in any order.
IsBest(answer, S) ==
  /\ ToSet(answer) \subseteq S
  /\ Len(answer) = IF TopK < Cardinality(S) THEN TopK ELSE Cardinality(S)
  /\ \A i, j \in DOMAIN answer :
       i < j => answer[i] # answer[j] /\ Cross[answer[i]] >= Cross[answer[j]]
  /\ \A i \in DOMAIN answer : \A d \in S \ ToSet(answer) : Cross[answer[i]] >= Cross[d]

\* Whenever the candidates could hold every document the filter leaves, an
\* answer that was reranked is the TopK best of them by the cross-encoder, best
\* first: neither the prefetch, the fusion, the cut to the candidates nor the
\* sorting in place loses one of them.
BestAnswered ==
  \A r \in Requests : \A q \in 1..Queries :
    /\ At(r, "done")
    /\ "rerank" \in call[r].timed
    /\ call[r].degraded = {}
    /\ Cardinality(call[r].seen) <= TopK * RerankFactor
    => IsBest(call[r].results[q], call[r].seen)

\* The client of a call whose reranking failed gets what it asked for in the
\* order of the search, "по исходному score" (retriever.py:243).
SkippedKeepsOrder ==
  \A r \in Requests :
    At(r, "done") /\ "rerank" \in call[r].degraded
      => call[r].results = Cut(call[r].found)

\* An empty answer means that nothing matched when the call began to look, or
\* that the search failed: the collection is read twice, and may fill between.
EmptyExplained ==
  \A r \in Requests : \A q \in 1..Queries :
    At(r, "done") /\ call[r].results[q] = <<>>
      => \/ call[r].timed = {}
         \/ "sparse" \notin call[r].timed /\ call[r].seen = {}
         \/ call[r].degraded # {}

\* After a call that no other overlapped, the attributes of the shared
\* retriever tell what happened to that call.
LoneCallReported ==
  \A r \in Requests :
    At(r, "done") /\ call[r].alone
      => /\ report = call[r].degraded
         /\ timing = call[r].timed

\* A call ends, also one that waits for a thread while others come and go.
EveryCallEnds == \A r \in Requests : At(r, "queued") ~> At(r, "idle")

\* A server whose startup timed out or failed ends its process, although nothing
\* stops the loader.
GivesUp == (server = "refused") ~> (server = "gone")
=============================================================================
