------------------------------ MODULE MCFaiss ------------------------------
(***************************************************************************)
(* Model values for FaissSearch: four documents in three data sets, two      *)
(* queries that rank them in different orders.                             *)
(***************************************************************************)
EXTENDS FaissSearch, TLC

CONSTANTS d1, d2, d3, d4, j1, r1, q1, q2

MCDocs == {d1, d2, d3, d4}
MCDatasets == {{d1, d2}, {d1, d3}, {d4}}
OneRun == {j1}
MCReaders == {r1}
MCQueries == <<q1, q2>>
MCMatching == {d2, d4}
MCScore ==
  q1 :> (d1 :> 3 @@ d2 :> 2 @@ d3 :> 1 @@ d4 :> 4) @@
  q2 :> (d1 :> 4 @@ d2 :> 2 @@ d3 :> 3 @@ d4 :> 1)
=============================================================================
