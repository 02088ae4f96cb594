SPECIFICATION HostSpec
CONSTANTS
  Parts = {"processes", "stdin", "browser", "harness"}
  ProcIds = {1, 2}
  ProcKeys = {"k", "j"}
  ProcLimit = 1
  ProcBounds <- Hosts
  Frames = {"a", "b"}
  FrameBytes = 2
  StdinBounds <- Pipes
  BrowserWorkers = {"v", "w"}
  BrowserIds = {1, 2}
  BrowserOps = {1, 2}
  BsBounds <- BrowserUses
  HarnessRuns = {1, 2}
  BhBounds <- Harnesses
INVARIANTS
  
  BrowsersSafe
PROPERTIES
  ProcessesKeepOn
CHECK_DEADLOCK FALSE
