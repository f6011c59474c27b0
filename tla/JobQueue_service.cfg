\* No job outlives the staleness limit; the loop, the restarts and the clock are fair.
SPECIFICATION FairSpec
CONSTANTS
  Worker = {w1, w2}
  Client = {}
  Key = {}
  NoKey = NoKey
  MaxAttempts = 2
  StaleAfter = 1
  MaxRuntime = 1
  MaxJobs = 2
  MaxTime = 3
  MaxCrashes = 1
  MaxDbErrors = 1
INVARIANTS LiveJobsRun
PROPERTIES RefinesLedger FailsForACause SettledIsFinal PendingIsWorkedOff
CHECK_DEADLOCK FALSE
