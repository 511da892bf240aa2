SPECIFICATION Spec
CONSTANTS
  None = None
  Events = {"e1", "e2", "e3"}
  TypeOf <- MCTypeOf
  Subscribers = {s1}
  Filters <- MCFilters
  ReplayLimit = 3
  ChanCap = 2
  BroadcastCap = 1
  Faults = TRUE
INVARIANT TypeOK
INVARIANT StreamedIsStored
INVARIANT LiveStreamExact
INVARIANT RepeatOnlyAcrossSwitch
PROPERTY FittingReplayEnds
PROPERTY BroadcastIsDelivered
PROPERTY LaggedStreamCatchesUp
