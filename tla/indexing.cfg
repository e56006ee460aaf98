\* Two overlapping runs, either of which may be killed at any point.
SPECIFICATION Spec
SYMMETRY JobSymmetry
CONSTANTS
  d1 = d1
  d2 = d2
  d3 = d3
  j1 = j1
  j2 = j2
  Docs <- MCDocs
  Near <- MCNear
  Datasets <- MCDatasets
  Jobs <- MCJobs
  BatchSize = 2
  PushBatch = 2
  InsertBatch = 1
  MaxAdapter = 2
INVARIANTS
  TypeOK
  FinishedSearchable
  OnePointPerRun
