\* A call with two queries, as the evaluator makes it.
SPECIFICATION Spec
CONSTANTS
  r1 = r1
  r2 = r2
  d1 = d1
  d2 = d2
  d3 = d3
  Requests <- MCRequests
  Docs <- MCDocs
  Matches <- MCMatches
  Dense <- MCDense
  Sparse <- MCSparse
  Cross <- MCCross
  Threads = {1}
  Queries = 2
  TopK = 1
  RerankFactor = 2
  Reranker = TRUE
INVARIANTS
  SkippedKeepsOrder
