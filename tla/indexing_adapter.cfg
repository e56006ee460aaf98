\* One run at a time; the encoder's adapter is replaced between runs.
SPECIFICATION Spec
CONSTANTS
  d1 = d1
  d2 = d2
  d3 = d3
  j1 = j1
  j2 = j2
  Docs <- MCDocs
  Near <- MCNear
  Datasets <- MCDatasets
  Jobs <- OneJob
  BatchSize = 2
  PushBatch = 2
  InsertBatch = 1
  MaxAdapter = 2
PROPERTIES
  IndexedWithItsAdapter
