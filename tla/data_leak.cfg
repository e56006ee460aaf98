\* The columns of the configuration in the repository: benchmark_columns is not
\* set, and a benchmark record has no column of the dataset.
SPECIFICATION Spec
CONSTANTS
  x = x
  y = y
  z = z
  Rows <- MCRows
  Data <- MCData
  ValRows <- MCValRows
  Good <- MCGood
  Matching = FALSE
  BenchSize = 2
  MaxKills = 2
INVARIANTS
  NothingLeaks
