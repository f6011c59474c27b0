\* A review of codex exec, and the re-review after it.
SPECIFICATION ThreadSpec
CONSTANTS
  Spot = {"a", "b"}
  PathOf <- MCPathOf
  LargeDiffFiles = 5
  LargeDiffLines = 200
  MinLookups = 3
  SubstantiveLines = 50
  Outputs <- None
  Runs <- None
  PairOutputs <- None
  PairRuns <- None
  ThreadOutputs <- MCThreadOutputs
  ThreadRuns <- MCThreadRuns
  MaxTraces = 2
INVARIANTS FlipsAreEvidenced
CHECK_DEADLOCK FALSE
