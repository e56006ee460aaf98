\* Every source, forced and unforced runs; two processes are killed.
SPECIFICATION FairSpec
CONSTANTS
  x = x
  y = y
  z = z
  Rows <- MCRows
  Data <- MCData
  ValRows <- MCValRows
  Good <- MCGood
  Matching = TRUE
  BenchSize = 2
  MaxKills = 2
INVARIANTS
  PairFits
  WholeData
  FailsOnlyOnPart
PROPERTIES
  SameSizeSameBenchmark
  TrainsInTheEnd
