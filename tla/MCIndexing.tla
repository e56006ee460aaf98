----------------------------- MODULE MCIndexing -----------------------------
(***************************************************************************)
(* Model values for Indexing: three documents, two of which are near       *)
(* duplicates, in two data sets: yesterday's corpus and today's.           *)
(***************************************************************************)
EXTENDS Indexing, TLC

CONSTANTS d1, d2, d3, j1, j2

MCDocs == {d1, d2, d3}
MCNear == {<<d1, d2>>, <<d2, d1>>}
MCDatasets == {{d1, d3}, {d1, d2, d3}}
MCJobs == {j1, j2}
OneJob == {j1}
JobSymmetry == Permutations(MCJobs)
=============================================================================
