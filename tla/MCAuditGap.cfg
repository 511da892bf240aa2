SPECIFICATION Spec
CONSTANTS
  None = None
  Events = {"e1", "e2", "e3"}
  TypeOf <- MCTypeOf
  Subscribers = {s1}
  Filters <- MCAll
  ReplayLimit = 3
  ChanCap = 2
  BroadcastCap = 2
  Faults = FALSE
INVARIANT NothingBetweenReplayAndLive
CHECK_DEADLOCK FALSE
