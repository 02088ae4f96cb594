SPECIFICATION JournalFairSpec
CONSTANTS
  Ops = {1, 2}
  Kinds = {"exec", "stdin", "plain", "bundle"}
  Digests = {d1}
  LeaseTtls = {1}
  HeartbeatTtl = 1
  QueueTtl = 2
  RecoveryWindow = 2
  MaxLeaseAttempts = 2
  MaxRevision = 1
  MaxTime = 2
INVARIANTS JournalSafe
PROPERTIES JournalSteps EveryOperationEnds
