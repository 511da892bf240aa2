SPECIFICATION Spec
CONSTANTS
  None = None
  Names <- MCNames
  WireRules <- MCWireRules
  ClientRequests <- MCRaceRequests
  Handlers = {h1, h2}
  PolicyIds = {0, 1, 2}
  SeedId = 0
  Faults = TRUE
INVARIANT TypeOK
INVARIANT IamInvariant
PROPERTY WriteTakesEffect
PROPERTY SubjectTypeStable
PROPERTY ImplementsSnapshotView
SYMMETRY Symmetry
