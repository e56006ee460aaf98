\* Two REST calls share the retriever, and one thread or two, while startups
\* time out and the index grows.
SPECIFICATION FairSpec
CONSTANTS
  r1 = r1
  r2 = r2
  d1 = d1
  d2 = d2
  d3 = d3
  Requests <- MCRequests
  Docs <- MCDocs
  Matches <- MCMatches
  Dense <- MCDense
  Sparse <- MCSparse
  Cross <- MCCross
  Threads = {1, 2}
  Queries = 1
  TopK = 1
  RerankFactor = 2
  Reranker = TRUE
INVARIANTS
  BestAnswered
  SkippedKeepsOrder
  EmptyExplained
  LoneCallReported
PROPERTIES
  EveryCallEnds
  GivesUp
