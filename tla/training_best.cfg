\* The best weights are not the ones saved.
SPECIFICATION Spec
CONSTANTS
  MaxSteps = 9
  ValEvery = 2
  EpochLen = 3
  Patience = 2
  Scores <- MCScores
  MaxRuns = 1
  MaxFails = 0
CHECK_DEADLOCK FALSE
INVARIANT
  SavedIsBest
