\* A triage call and an API call, two requests deciding, fairness.
SPECIFICATION FairSpec
CONSTANTS
  build = build
  triage = triage
  api = api
  Call = {triage, api}
  Kind <- MCKind
  Allowed = {triage}
  User = {alice, bob}
  Admin = {alice}
  Decider = {d1, d2}
  Hand = {h1}
  MaxAttempts = 2
  MaxJobs = 3
  MaxApprovals = 2
  MaxCrashes = 0
  MaxErrors = 1
  MaxSlackErrors = 1
PROPERTIES ApprovedIsWorkedOff
CHECK_DEADLOCK FALSE
