\* Three requests contend for one slot; both breakers open after two failures.
SPECIFICATION Spec
CONSTANTS
  r1 = r1
  r2 = r2
  r3 = r3
  Requests <- MCRequests
  Slots = 1
  FailMax = 2
  MaxLost = 1
INVARIANTS
  SlotsConserved
  GaugeBalanced
PROPERTIES
  EveryRequestEnds
