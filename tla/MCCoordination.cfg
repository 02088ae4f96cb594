SPECIFICATION CoordSpec
CONSTANTS
  Parts = {"workers", "bootstrap", "requests", "runner", "objectives", "sandbox"}
  TaskLeaseLimit = 3
  TaskBounds <- Lives
  BootBounds <- Provisions
  ReqBounds <- Askings
  RunnerBounds <- RunnerRuns
  ObjectiveBounds <- Objectives
  Supervisors = {"plan", "other"}
  StepLimit = 2
  AttemptBudget = 3
  ProvisionBudget = 2
  SandboxCalls = {1, 2, 3}
  SandboxKeys = {"k", "j"}
  MaxConcurrent = 2
  SandboxBounds <- SandboxUses
INVARIANTS
  TaskGroupsSafe
  ProvisioningSafe
  ExecutionSafe
  SandboxSafe
PROPERTIES
  
  LifeKept
CHECK_DEADLOCK FALSE
