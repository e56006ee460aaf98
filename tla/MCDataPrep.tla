----------------------------- MODULE MCDataPrep -----------------------------
(***************************************************************************)
(* Model values for DataPrep: a dataset that grows once by a row that the  *)
(* length filter drops, and whose split then trains on the row that was    *)
(* validated on before and the other way round.                            *)
(***************************************************************************)
EXTENDS DataPrep

CONSTANTS x, y, z

MCRows == {x, y, z}
MCData == <<{x, y}, {x, y, z}>>
MCValRows == [d \in SUBSET MCRows |-> d \cap (IF d = MCRows THEN {x, z} ELSE {y})]
MCGood == {x, y}
=============================================================================
