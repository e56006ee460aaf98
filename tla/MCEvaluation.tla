---------------------------- MODULE MCEvaluation ----------------------------
(***************************************************************************)
(* Four chunks of which one is short, for a benchmark of two; NLI models   *)
(* with and without an entailment label; decoder benchmarks that are       *)
(* absent, and of three records of which one has no reference.             *)
(***************************************************************************)
EXTENDS Evaluation

MCJudgements ==
  {[entailment |-> 9, neutral |-> 1], [entailment |-> 2, neutral |-> 8],
   [neutral |-> 9, contradiction |-> 1], [LABEL_2 |-> 9]}

Sampled(full) == [chunk |-> "row", full |-> full]
MCDecoder == {<<>>, <<Sampled(TRUE), Sampled(FALSE), Sampled(TRUE), Sampled(TRUE)>>}

\* The long chunks are interchangeable.
MCSymmetry == Permutations(Chunks \ Short)

MCDiscount == <<60, 37, 30>>
=============================================================================
