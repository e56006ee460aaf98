----------------------------- MODULE MCTraining -----------------------------
(* Two runs of nine optimizer steps in epochs of three, with a validation  *)
(* after the second step of each: an epoch ends between two validations,   *)
(* max_steps after the last, and the patience can run out before it.       *)
EXTENDS Training

MCScores == {1, 2}
=============================================================================
