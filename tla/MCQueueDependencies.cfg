SPECIFICATION Spec
CONSTANTS
  Jobs = {1, 2, 3}
  Keys = {k1, k2, k3}
  Workspaces = {1}
  Pools = {p1}
  Ttls = {1}
  Quantum = 1
  AgingLimit = 2
  MaxResource = 4
  MaxJobs = 3
  MaxJobsPerWorkspace = 3
  MaxDependencies = 2
  MaxLeaseAttempts = 1
  MaxTaskWorkers = 1
  Retention = 9
  MaxTime = 1
SYMMETRY KeySymmetry
INVARIANTS DependencyConsistency WalksAgree
