\* One index run at a time, one reader, killed at any point.
SPECIFICATION Spec
CONSTANTS
  d1 = d1
  d2 = d2
  d3 = d3
  d4 = d4
  j1 = j1
  r1 = r1
  q1 = q1
  q2 = q2
  Docs <- MCDocs
  Datasets <- MCDatasets
  Runs <- OneRun
  Readers <- MCReaders
  NoObject = NoObject
  Queries <- MCQueries
  Score <- MCScore
  Matching <- MCMatching
  TopK = 1
  FetchMultiplier = 1
  MaxFetchMultiplier = 3
INVARIANTS
  TypeOK
  PairsMatch
  SearchExact
PROPERTY
  PublishedKept
