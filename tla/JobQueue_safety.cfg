\* Jobs may run past the staleness limit: two workers, two rows, one key.
SPECIFICATION Spec
CONSTANTS
  Worker = {w1, w2}
  Client = {c1}
  Key = {k1}
  NoKey = NoKey
  MaxAttempts = 3
  StaleAfter = 1
  MaxRuntime = 2
  MaxJobs = 2
  MaxTime = 3
  MaxCrashes = 1
  MaxDbErrors = 1
SYMMETRY Symmetry
INVARIANTS TypeOK Consistent ExclusiveHandling BoundedHandling CoalescedIsStillToRun
CHECK_DEADLOCK FALSE
