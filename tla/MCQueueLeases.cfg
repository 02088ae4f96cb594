SPECIFICATION Spec
CONSTANTS
  Jobs = {1, 2}
  Keys = {k1, k2}
  Workspaces = {1}
  Pools = {p1}
  Ttls = {1, 2}
  Quantum = 1
  AgingLimit = 2
  MaxResource = 4
  MaxJobs = 2
  MaxJobsPerWorkspace = 2
  MaxDependencies = 1
  MaxLeaseAttempts = 2
  MaxTaskWorkers = 2
  Retention = 1
  MaxTime = 1
SYMMETRY KeySymmetry
INVARIANTS QueueSafe
PROPERTIES QueueSteps
