SPECIFICATION Spec
CONSTANTS
  None = None
  c1 = c1
  c2 = c2
  Coords = {c1}
  Datasets = {"tx"}
  Endpoints = {"e1", "e2"}
  Configs <- MCOneConfig
  MaxRuns <- MCOneRun
  Resets = TRUE
PROPERTY HeartbeatKeepsRecord
