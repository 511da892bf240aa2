SPECIFICATION Spec
CONSTANTS
  None = None
  Names <- MCNames
  WireRules <- MCWireRules
  ClientRequests <- MCRequests
  Handlers = {h1, h2}
  PolicyIds = {0, 1, 2}
  SeedId = 0
  Faults = FALSE
INVARIANT EngineMatchesDatabaseWhenIdle
