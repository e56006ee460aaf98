---------------------------- MODULE MCRagServer ----------------------------
(***************************************************************************)
(* Model values for RagServer: one answered document of two candidates,    *)
(* and three documents that the dense, the sparse and the cross-encoder's  *)
(* scores order differently.                                               *)
(***************************************************************************)
EXTENDS RagServer

CONSTANTS r1, r2, d1, d2, d3

MCRequests == {r1, r2}
MCDocs == {d1, d2, d3}
MCMatches == {MCDocs, {d2, d3}}
MCDense == <<d1, d2, d3>>
MCSparse == <<d3, d1, d2>>
MCCross == d1 :> 1 @@ d2 :> 3 @@ d3 :> 2
=============================================================================
