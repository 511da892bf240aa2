SPECIFICATION Spec
CONSTANTS
  None = None
  c1 = c1
  c2 = c2
  Coords = {c1, c2}
  Datasets = {"tx", "hr"}
  Endpoints = {"e1", "e2"}
  Configs <- MCConfigs
  MaxRuns <- MCMaxRuns
  Resets = TRUE
INVARIANT TypeOK
INVARIANT EndpointFromOwner
INVARIANT RunningMeansRegistered
PROPERTY HeartbeatResumes
