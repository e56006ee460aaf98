\* A request without documents is refused by the breaker of the LLM server.
SPECIFICATION Spec
CONSTANTS
  r1 = r1
  r2 = r2
  r3 = r3
  Requests <- MCRequests
  Slots = 1
  FailMax = 2
  MaxLost = 1
INVARIANTS
  NothingLoggedWhenRefused
