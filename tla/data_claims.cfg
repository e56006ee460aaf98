\* What the documentation claims, one at a time: TLC stops at the first it refutes.
SPECIFICATION Spec
CONSTANTS
  x = x
  y = y
  z = z
  Rows <- MCRows
  Data <- MCData
  ValRows <- MCValRows
  Good <- MCGood
  Matching = TRUE
  BenchSize = 2
  MaxKills = 1
INVARIANTS
  \* a forced run dies between the raw rows and the processed splits
  RawIsOfTheCache
  \* columns that match; the benchmark is replaced by one of another size
  \* NothingLeaks
