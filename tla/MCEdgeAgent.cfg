SPECIFICATION AgentSpec
CONSTANTS
  Ops = {1}
  Kinds = {"exec", "keyed", "bundle"}
  Digests = {d1}
  LeaseTtls = {2}
  HeartbeatTtl = 2
  QueueTtl = 1
  RecoveryWindow = 9
  MaxLeaseAttempts = 2
  MaxRevision = 1
  MaxTime = 2
  Workers = {w1, w2}
  Timely = {"bundle"}
  MaxLate = 1
SYMMETRY WorkerSymmetry
INVARIANTS AgentSafe
PROPERTIES NoSecondDispatch DispatchUnderLease
