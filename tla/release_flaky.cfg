\* The registry does not answer a read.
SPECIFICATION Spec
SYMMETRY JobSymmetry
CONSTANTS
  decoder = decoder
  rag = rag
  j1 = j1
  j2 = j2
  NoTag = NoTag
  Pipelines <- MCPipelines
  Jobs <- MCJobs
  Tasks <- RetrainTasks
  Concurrent <- TrainersOverlap
  Scores = {1, 2}
  MaxVersion = 2
  Local = TRUE
  ServerDb = FALSE
  LossyReads = TRUE
PROPERTIES
  PromotionImproves
