\* A database error in the except clause of worker_main.
SPECIFICATION Spec
CONSTANTS
  Worker = {w1, w2}
  Client = {}
  Key = {}
  NoKey = NoKey
  MaxAttempts = 2
  StaleAfter = 1
  MaxRuntime = 1
  MaxJobs = 1
  MaxTime = 3
  MaxCrashes = 0
  MaxDbErrors = 1
CHECK_DEADLOCK FALSE
PROPERTIES LoopSurvives
