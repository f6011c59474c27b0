\* One automatic review without a channel, refused at every rung.
SPECIFICATION Spec
CONSTANTS
  Pr = {p1}
  Allowed = {p1}
  Mirror = FALSE
  MaxRequests = 1
  Hand = {h1}
  MaxAttempts = 2
  MaxInputs = 1
  MaxPushes = 2
  MaxFaults = 0
INVARIANTS FinishedIsNotLost
CHECK_DEADLOCK FALSE
