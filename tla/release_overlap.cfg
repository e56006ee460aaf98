\* Scripts of different pipelines publish at the same time.
SPECIFICATION Spec
SYMMETRY JobSymmetry
CONSTANTS
  decoder = decoder
  rag = rag
  j1 = j1
  j2 = j2
  NoTag = NoTag
  Pipelines <- MCPipelines
  Jobs <- MCJobs
  Tasks <- TwoDags
  Concurrent <- PipelinesOverlap
  Scores = {1, 2}
  MaxVersion = 1
  Local = TRUE
  ServerDb = FALSE
  LossyReads = FALSE
PROPERTIES
  PatchesOwnSection
