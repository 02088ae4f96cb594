SPECIFICATION RecordsSpec
CONSTANTS
  Parts = {"evidence", "console", "oauth", "brain", "telemetry", "log", "results", "source", "checks", "maintenance", "signed", "bundle", "windows", "migration", "registry", "git", "toolbox", "worktrees"}
  s1 = s1
  s2 = s2
  c1 = c1
  c2 = c2
  l1 = l1
  Integrator = Integrator
  Contents = {0, 1, 2}
  EvidenceBounds <- Reviews
  ToolCalls = {c1, c2}
  Previews = {c2}
  Legacy = {l1}
  JournalBounds <- Journals
  MaxRecords = 1
  MaxLog = 2
  MaxRows = 5
  PruneBatch = 1
  RecordAge = 0
  ReplayLimit = 2
  PageSize = 1
  ChannelSize = 1
  Backends = {"a", "b"}
  OaCallers = {1, 2}
  OaClients = {"x"}
  MaxClients = 2
  MaxAccess = 3
  MaxFailures = 1
  MaxRegs = 1
  OaBounds <- Accesses
  Slugs = {"a", "b"}
  Instances = {"o", "n"}
  BrainBounds <- Notings
  HourTicks = 2
  DayTicks = 4
  HourlyRetention = 4
  DailyRetention = 12
  PruneEvery = 2
  Windows <- ActivityWindows
  TmBounds <- Countings
  Segments = 4
  MaxBytes = 2
  SampleLimit = 3
  LogBounds <- Loggings
  Refs = {"r1", "r2", "r3"}
  Putters = {"p", "q"}
  Quota = 4
  MaxFragment = 3
  SuccessTTL = 1
  FailureTTL = 2
  ResultBounds <- Keepings
  SourceCallers = {"a", "b"}
  SourceBounds <- Actions
  CheckNames = {"a", "b", "c", "d", "e", "f", "r", "s", "t", "z"}
  CheckPageSize = 2
  CheckEvidenceBounds <- Evidences
  ReleaseRuns = {1, 2, 3}
  ReleaseBounds <- Maintainings
  Requests = {1, 2}
  SigWindow = 1
  NonceTTL = 3
  ContactWindow = 1
  MaxSkew = 2
  Generation <- ServiceGenerations
  Updaters = {"a", "b"}
  UpdateBounds <- Updates
  WinReleases = {1, 2, 3}
  WinUpdaters = {"a", "b"}
  WinBounds <- WinUpdates
  Operators = {"a", "b"}
  StateBounds <- Migrations
  RegWorkers = {"p", "q"}
  Aliases = {"a", "b"}
  RegBounds <- Registrations
  GitCallers = {"p", "q"}
  GitPlans = {1, 2}
  GitBounds <- GitWorks
  TbWorkers = {"p", "q"}
  TbEngines <- ToolboxEngines
  TbBounds <- Boxes
  WrUsers = {"u", "v"}
  WrCleaners = {"c", "d"}
  WrBounds <- TreeUses
INVARIANTS
  TaskRecordsSafe
  ServerStoresSafe
  ServerRecordsSafe
  
  ReleaseSafe
  SourcesSafe
  WorkspacesSafe
  TakenOnce

  
CHECK_DEADLOCK FALSE
