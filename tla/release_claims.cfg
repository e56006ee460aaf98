\* What the documentation claims, one at a time: TLC stops at the first it refutes.
SPECIFICATION Spec
SYMMETRY JobSymmetry
CONSTANTS
  decoder = decoder
  rag = rag
  j1 = j1
  j2 = j2
  NoTag = NoTag
  Pipelines <- MCPipelines
  Jobs <- MCJobs
  Tasks <- RetrainTasks
  Concurrent <- TrainersOverlap
  Scores = {1, 2}
  MaxVersion = 2
  Local = TRUE
  ServerDb = FALSE
  LossyReads = FALSE
PROPERTIES
  \* a worse Staging
  WorseStagingCancelsPromotion
\* INVARIANTS
  \* promote dies between the alias and the upload; merge_lora then runs
  \* MergedIsProduction
  \* a promotion after the base in the manifest changed
  \* AdapterOnItsBase
