\* Two sections of one manifest, FAISS, every script; scripts of different
\* pipelines publish at the same time.
SPECIFICATION Spec
SYMMETRY JobSymmetry
CONSTANTS
  decoder = decoder
  rag = rag
  j1 = j1
  j2 = j2
  NoTag = NoTag
  Pipelines <- MCPipelines
  Jobs <- MCJobs
  Tasks <- SectionTasks
  Concurrent <- PipelinesOverlap
  Scores = {1}
  MaxVersion = 1
  Local = TRUE
  ServerDb = FALSE
  LossyReads = FALSE
INVARIANTS
  TypeOK
  LoadableSections
PROPERTIES
  OnlyOwnSection
