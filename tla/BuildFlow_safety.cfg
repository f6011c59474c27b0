\* A triage call, an API call and a build on a repository that is not allowed.
SPECIFICATION Spec
CONSTANTS
  build = build
  triage = triage
  api = api
  Call = {build, triage, api}
  Kind <- MCKind
  Allowed = {triage}
  User = {alice, bob}
  Admin = {alice}
  Decider = {d1, d2}
  Hand = {h1}
  MaxAttempts = 2
  MaxJobs = 3
  MaxApprovals = 2
  MaxCrashes = 1
  MaxErrors = 2
  MaxSlackErrors = 0
INVARIANTS TypeOK Sanctioned DispatchedOnce BoundedBuilds CrashesDoNotDuplicate
PROPERTIES DecisionIsFinal
SYMMETRY Symmetry
CHECK_DEADLOCK FALSE
