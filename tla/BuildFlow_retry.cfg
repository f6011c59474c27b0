\* A Slack error after the pull request is open.
SPECIFICATION Spec
CONSTANTS
  build = build
  triage = triage
  api = api
  Call = {triage}
  Kind <- MCKind
  Allowed = {triage}
  User = {alice, bob}
  Admin = {alice}
  Decider = {d1}
  Hand = {h1}
  MaxAttempts = 2
  MaxJobs = 3
  MaxApprovals = 2
  MaxCrashes = 0
  MaxErrors = 0
  MaxSlackErrors = 1
INVARIANTS ImplementIsNeverRetried
CHECK_DEADLOCK FALSE
