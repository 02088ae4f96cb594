SPECIFICATION ServingSpec
CONSTANTS
  Parts = {"gate", "setup", "move", "rollout", "sessions"}
  Posts = {"p"}
  Streams = {"s"}
  GateBounds <- Outages
  SetupCallers = {"a", "b"}
  SetupBounds <- Setups
  MoveBounds <- Moves
  CatBounds <- Rollouts
  Servers = {"a", "b"}
  Conns = {1, 2}
  NewSessions = {1, 2, 3}
  LegacySessions = {4}
  Caps = {"x"}
  MaxSessions = 1
  McpBounds <- SessionUses
INVARIANTS
  RolloutSafe
  SessionsSafe
  
PROPERTIES
  ServingKeepsOn
CHECK_DEADLOCK FALSE
