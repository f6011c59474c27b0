\* The services, one at a time.
SPECIFICATION ServicesSpec
CONSTANTS
  \* ChatTurns
  Turn = {"a1", "a2", "b1", "n1"}
  User = {"ann", "bob"}
  Nobody = "nobody"
  UserOf <- MCUserOf
  OrgCap = 2
  PerUser = 1
  Ttl = 4
  Timeout = 1
  \* Reminders
  Item = {"i1", "i2"}
  Sweeper = {"s1", "s2"}
  RetryDelay = 1
  MaxDelay = 1
  MaxSnoozes = 2
  MaxSlackErrors = 1
  MaxCrashes = 1
  \* Roles
  Person = {"ann", "bob", "eve"}
  EnvAdmin = {}
  KvAdmin = {"ann", "bob"}
  Outsider = {"eve"}
  RoleRequest = {1, 2}
  MaxRoleRequests = 3
  MaxDbErrors = 1
  \* AdminAlerts
  AlertKey = {"codex", "queue"}
  Caller = {1, 2}
  Admin = {"ann", "bob"}
  Cooldown = 1
  MaxAlertFaults = 2
  \* CodexLogin
  LoginChild = {"c1", "c2", "c3"}
  LoginRequest = {1, 2}
  MaxLoginFaults = 1
  \* ModelBackend
  Proc = {"p1", "p2", "other"}
  Stranger = "other"
  CrashedThreshold = 2
  HungThreshold = 3
  MaxSlow = 2
  \* VerdictGate, ActionPolicy, Cron
  Spot = {"a", "b"}
  PathOf <- MCPathOf
  LargeDiffFiles = 5
  LargeDiffLines = 200
  MinLookups = 3
  SubstantiveLines = 50
  Outputs <- MCOutputs
  Runs <- MCRuns
  PairOutputs <- MCPairOutputs
  PairRuns <- MCPairRuns
  Repo = {"r1", "r2"}
  Times <- MCTimes
  Offsets <- MCOffsets
  \* Schedules
  Planner = {"ann", "adm"}
  PlanAdmin = {"adm"}
  Task = {"k"}
  Team = {"t"}
  Digest = {"d"}
  Legacy <- MCLegacy
  PlanRequest = {1, 2}
  MaxPlanRequests = 3
  MaxPlanFaults = 1
  \* SkillLibrary
  SkillSlug = {"s", "b"}
  Curated = {"b"}
  Author = {"ann", "adm"}
  LibraryAdmin = {"adm"}
  LibraryRequest = {1, 2}
  MaxLibraryCalls = 3
  MaxFlaws = 1
  \* Standup
  Member = {"ann"}
  Job = {1, 2}
  MaxDate = 2
  MaxUpdates = 2
  MaxRuns = 3
  MaxUpsets = 1
  \* SprintReport
  ReportRun = {1, 2}
  LastSprint = 2
  MaxReports = 4
  MaxReportFaults = 1
  \* PortfolioReport
  RollupRun = {1, 2}
  LastDay = 3
  HistoryCap = 2
  MaxRollups = 4
  MaxRollupFaults = 1
  \* DigestModal
  Board = {"b1", "b2", "b4"}
  KeyOf <- MCKeyOf
  ScrumBoard = {"b1", "b2"}
  Weekday = {4, 5}
  Friday = 5
  BoardsKept = 1
  MaxModalTime = 1
  MaxPicks = 2
  MaxModalFaults = 1
  \* Connectors
  Bundle = {"x", "y"}
  NameOf <- MCNameOf
  EnvApp = "e"
  Sound = {"x", "e"}
  ConnectorAdmin = {1, 2}
  AppCall = {1}
  AppRepo = {"r"}
  TokenKept = 1
  MaxHours = 3
  MaxConnectorChanges = 2
  MaxConnectorFaults = 1
  \* MemraSession
  Thread = {1, 2}
  MaxSessions = 4
  MaxCalls = 2
  MaxMemraFaults = 2
  \* HomeTab
  Click = {1, 2}
  MaxHomeFaults = 1
  \* Settings
  Model = {"g1", "g2"}
  Vendor = {"v/m"}
  ModelEnv <- MCEnv
  Overrides <- MCOverrides
  Picks <- MCPicks
  SettingsAdmin = {1, 2}
  PromptText <- MCText
  MaxSettingChanges = 3
  MaxSettingFaults = 1
INVARIANTS TypesOK TurnsHold RemindersExact SilentMeansTold NoStrayLogin 
INVARIANTS RulesHold ReportSafe FollowUpsHold AppsHold ExpiryIsRecovered HomeHolds
PROPERTIES EveryTurnEnds DueIsReminded RolesHold OnlyOwnersAct LibraryHolds PagesHold
\* The bounds end every behaviour.
CHECK_DEADLOCK FALSE
