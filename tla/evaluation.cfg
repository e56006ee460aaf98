\* A benchmark build, the drift checks of both pipelines, a retrieval
\* evaluation and the end-to-end run.
SPECIFICATION EvaluationSpec
CONSTANTS
  Chunks = {c1, c2, c3, c4}
  Short = {c4}
  Indexed = {c1, c2, c3}
  BenchSize = 2
  Attempts = 3
  Judgements <- MCJudgements
  NliMin = 6
  Decoder <- MCDecoder
  MaxBuilds = 1
  MaxSamples = 3
  Best = 2
  RougeMin = 1
  LatencyMax = 1
  RetrievalK = 3
  RerankK = 2
  Unit = 60
  Discount <- MCDiscount
  DriftMin = 50
SYMMETRY MCSymmetry
INVARIANTS
  RecordsEntailed
  RanksAgree
  GateSound
