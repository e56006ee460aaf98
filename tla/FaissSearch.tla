---------------------------- MODULE FaissSearch ----------------------------
(***************************************************************************)
(* Searches in a loaded FAISS database (module FaissStore): the filtered    *)
(* search fetches more and more neighbours of the queries that have not    *)
(* found top_k matching documents, and gives up at a largest multiplier.   *)
(***************************************************************************)
EXTENDS FaissStore, Integers

CONSTANTS
  Queries,             \* the queries of a batch, a sequence
  Score,               \* Score[q][d]: inner product, no two alike for a query
  Matching,            \* the documents whose metadata match the filter
  TopK,
  FetchMultiplier,     \* filter_fetch_multiplier
  MaxFetchMultiplier   \* filter_max_fetch_multiplier

ASSUME SearchAssumption ==
  /\ TopK \in Nat \ {0} /\ FetchMultiplier \in Nat \ {0} /\ MaxFetchMultiplier \in Nat
  /\ Queries \in Seq(DOMAIN Score)
  /\ \A q \in DOMAIN Score : /\ Score[q] \in [Docs -> Int]
                             /\ \A d, e \in Docs : Score[q][d] = Score[q][e] => d = e

Take(s, n) == SubSeq(s, 1, IF n < Len(s) THEN n ELSE Len(s))

\* The elements of a finite set by their values, which differ, the greatest first.
Descending(S, value) ==
  [n \in 1..Cardinality(S) |->
     CHOOSE x \in S : Cardinality({y \in S : value[y] > value[x]}) = n - 1]

\* What s holds at the positions I, in the order of s.
Kept(s, I) ==
  LET order == Descending(I, [i \in I |-> -i])
  IN  [n \in 1..Cardinality(I) |-> s[order[n]]]

\* index.search of the flat index: the positions of the k nearest vectors.
Neighbours(store, q, k) ==
  Take(Descending(DOMAIN store["index"],
                  [i \in DOMAIN store["index"] |-> Score[q][store["index"][i]]]), k)

\* What is answered is the metadata at the position of the vector.
Answer(store, positions) == [i \in DOMAIN positions |-> store["metadata"][positions[i]]]

SearchNoFilter(store) ==
  [n \in DOMAIN Queries |-> Answer(store, Neighbours(store, Queries[n], TopK))]

Filtered(docs) == Kept(docs, {i \in DOMAIN docs : docs[i] \in Matching})

\* The first top_k matching documents of a row.
Found(store, row) == Take(Filtered(Answer(store, row)), TopK)

\* Mutant of Round: row l of the neighbours is taken for query l of the batch,
\* not for the l-th pending one.
RoundLocal(store, s) ==
  LET fetch == TopK * s.multiplier
      rows == [l \in DOMAIN s.pending |-> Neighbours(store, Queries[s.pending[l]], fetch)]
      results == [n \in DOMAIN Queries |->
                    IF n \in DOMAIN s.pending THEN Found(store, rows[n]) ELSE s.results[n]]
      short == {l \in DOMAIN s.pending :
                  Len(results[s.pending[l]]) < TopK /\ fetch < Len(store["index"])}
  IN  [multiplier |-> 2 * s.multiplier, results |-> results, pending |-> Kept(s.pending, short)]

\* One iteration: neighbours are fetched for the pending queries only; row l
\* belongs to the l-th of them.
Round(store, s) ==
  LET fetch == TopK * s.multiplier
      rows == [l \in DOMAIN s.pending |-> Neighbours(store, Queries[s.pending[l]], fetch)]
      Row(n) == rows[CHOOSE l \in DOMAIN rows : s.pending[l] = n]
      results == [n \in DOMAIN Queries |->
                    IF \E l \in DOMAIN rows : s.pending[l] = n THEN Found(store, Row(n))
                    ELSE s.results[n]]
      short == {l \in DOMAIN s.pending :
                  Len(results[s.pending[l]]) < TopK /\ fetch < Len(store["index"])}
  IN  [multiplier |-> 2 * s.multiplier, results |-> results, pending |-> Kept(s.pending, short)]

FirstRound ==
  [multiplier |-> FetchMultiplier,
   results |-> [n \in DOMAIN Queries |-> <<>>], pending |-> [n \in DOMAIN Queries |-> n]]

More(s) == s.pending # <<>> /\ s.multiplier <= MaxFetchMultiplier

\* The multiplier at least doubles from 1: as many rounds as it can take.
Rounds(store) ==
  LET round[k \in 0..MaxFetchMultiplier] ==
        IF k = 0 THEN FirstRound
        ELSE IF More(round[k - 1]) THEN Round(store, round[k - 1]) ELSE round[k - 1]
  IN  round

SearchWithFilter(store) ==
  IF store["index"] = <<>> THEN FirstRound.results
  ELSE Rounds(store)[MaxFetchMultiplier].results
-----------------------------------------------------------------------------
(* Properties.                                                             *)

\* The documents of a store, the nearest to q first.
Ranking(store, q) == Descending(Ids(store), Score[q])

\* The multiplier of each round.
Multiplier[k \in 0..MaxFetchMultiplier] ==
  IF k = 0 THEN FetchMultiplier ELSE 2 * Multiplier[k - 1]

\* The largest multiplier that is tried.
LastMultiplier ==
  LET tried == {Multiplier[k] : k \in 0..MaxFetchMultiplier} \cap 0..MaxFetchMultiplier
  IN  IF tried = {} THEN 0 ELSE CHOOSE m \in tried : \A n \in tried : n <= m

\* In a database that is being served, every query of a batch gets the top_k
\* nearest of the matching documents among the TopK * LastMultiplier nearest
\* ones - its own, whichever of the other queries are still pending - and
\* without a filter its top_k nearest documents.
SearchExact ==
  \A c \in Readers : client[c].pc = "serve" =>
    \A n \in DOMAIN Queries :
      LET ranking == Ranking(client[c].store, Queries[n])
      IN  /\ SearchNoFilter(client[c].store)[n] = Take(ranking, TopK)
          /\ SearchWithFilter(client[c].store)[n] =
               Take(Filtered(Take(ranking, TopK * LastMultiplier)), TopK)
=============================================================================
