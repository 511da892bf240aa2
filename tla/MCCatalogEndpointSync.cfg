SPECIFICATION Spec
CONSTANTS
  None = None
  c1 = c1
  c2 = c2
  Coords = {c1}
  Datasets = {"tx", "hr"}
  Endpoints = {"e1", "e2"}
  Configs <- MCConfigs
  MaxRuns <- MCMaxRuns
  Resets = FALSE
INVARIANT EndpointInSync
