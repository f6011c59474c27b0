\* Two pull requests, one in an allowed repository; two inputs (events and reviews
\* asked for), two requests at once, two faults; automatic reviews have no channel.
SPECIFICATION FairSpec
CONSTANTS
  Pr = {p1, p2}
  Allowed = {p1}
  Mirror = FALSE
  MaxRequests = 2
  Hand = {h1}
  MaxAttempts = 2
  MaxInputs = 2
  MaxPushes = 2
  MaxFaults = 2
INVARIANTS TypeOK OneJobPerCommit SeenIsQueued OnePostPerHandling
PROPERTIES SeenIsReviewed
CHECK_DEADLOCK FALSE
