SPECIFICATION Spec
CONSTANTS
  None = None
  Scripts <- MCScripts
  MaxTasks = 2
  MaxEvents = 2
  ChanCap = 1
  LogCap = 2
  MaxScroll = 1
INVARIANT TypeOK
INVARIANT LoadingTellsOutstanding
INVARIANT AuditLogIsTail
CHECK_DEADLOCK FALSE
PROPERTY CtrlCQuits
PROPERTY LoadingEnds
