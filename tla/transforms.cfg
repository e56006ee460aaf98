\* The three pipelines over rows that are near duplicates of each other, too
\* short, or in the benchmark.
SPECIFICATION TransformsSpec
CONSTANTS
  Width <- MCWidth
  Urls <- MCUrls
  Near <- MCNear
  Template <- MCTemplate
  Metadata <- MCMetadata
  Bench <- MCBench
  ChunkSize = 9
  ChunkOverlap = 5
  MinText = 3
  MaxLength = 5
  Inputs <- MCInputs
CHECK_DEADLOCK FALSE
INVARIANTS
  DropsExplained
  ChunksCover
  LossOnAnswer
