\* Two training runs, one failure or interrupt, every configuration.
SPECIFICATION FairSpec
CONSTANTS
  MaxSteps = 9
  ValEvery = 2
  EpochLen = 3
  Patience = 2
  Scores <- MCScores
  MaxRuns = 2
  MaxFails = 1
CHECK_DEADLOCK FALSE
INVARIANTS
  SavedAsTested
  PersistentKeepsSide
  FreshEval
PROPERTY
  SavesInTheEnd
