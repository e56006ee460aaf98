\* What the documentation claims, one at a time: TLC stops at the first it refutes.
SPECIFICATION TransformsSpec
CONSTANTS
  Width <- MCWidth
  Urls <- MCUrls
  Near <- MCNear
  Template <- MCTemplate
  Metadata <- MCMetadata
  Bench <- MCBench
  ChunkSize = 9
  ChunkOverlap = 5
  MinText = 3
  MaxLength = 5
  Inputs <- MCInputs
CHECK_DEADLOCK FALSE
INVARIANTS
  \* cleaned, the positive document is the negative one
  NegativeDiffers
  \* with a BOS the separator is trained: the prompt is measured without it
  \* SeparatorNotTrained
