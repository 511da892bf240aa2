SPECIFICATION Spec
CONSTANTS
  None = None
  a = a
  b = b
  w = w
  Execs = {a, b, w}
  Scans = {s1}
  Tables = {"t", "u"}
  PortCount = 6
  Checked = FALSE
  BindPort <- MCBindPort
  Mounts <- MCMounts
  Columns <- MCColumns
  Exprs <- MCExprs
  Reading <- MCReading
  Depth <- MCDepth
  Content <- MCContent
  Plans <- MCPlans
  Endpoints = {0, 1, 5, None}
INVARIANT TypeOK
INVARIANT ListeningServesAllMounts
INVARIANT AnswerFromEndpoint
INVARIANT AnswerLosesNoRow
CHECK_DEADLOCK FALSE
