\* The life of one model: trainers beside publishing scripts that run one at a
\* time, LocalStorage, any script killed at any point.
SPECIFICATION Spec
SYMMETRY JobSymmetry
CONSTANTS
  decoder = decoder
  rag = rag
  j1 = j1
  j2 = j2
  NoTag = NoTag
  Pipelines <- MCPipelines
  Jobs <- MCJobs
  Tasks <- ModelTasks
  Concurrent <- TrainersOverlap
  Scores = {1, 2}
  MaxVersion = 2
  Local = TRUE
  ServerDb = FALSE
  LossyReads = FALSE
INVARIANTS
  PublishedMonolithIntact
  PromotePublishesProduction
PROPERTIES
  RegistrySpec
  MonolithWriteOnce
