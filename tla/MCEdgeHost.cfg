SPECIFICATION EdgeSpec
CONSTANTS
  Parts = {"launch", "edgetasks", "pairing", "tests", "turns", "waits"}
  LaunchBounds <- LaunchUses
  Pollers = {"p", "q"}
  EtTasks = {"t", "u"}
  LeaseTicks = 2
  Margin = 1
  LeaseBudget = 2
  RowLimit = 1
  Stages = 2
  EtBounds <- EdgeWorkloads
  PairingCodes = {"c", "d"}
  CodeTTL = 1
  PairingWorkspaces = {"w", "x"}
  PairingWorkers = {"a", "b"}
  PairBounds <- Pairings
  WtFiles = 2
  WtBounds <- Testings
  TurnBounds <- Talks
  Controllers = {"a", "b"}
  Waiters = {"v", "w"}
  WaitRuntimes = {1, 2}
  WaitBounds <- WaitUses
INVARIANTS
  
  LaunchSafe
  DeviceSafe
  

  
  
CHECK_DEADLOCK FALSE
