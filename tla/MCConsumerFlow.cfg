SPECIFICATION FairSpec
CONSTANTS
  batch_size = 4
  Width = 8
  Sizes <- SmallBatches
  Bad = {}
  DeadLetter = NoPolicy
  Delay = FALSE
  Capacity = 2
  AppActs = {"cumulative"}
  MaxDispatch = 4
  MaxCloses = 0
  MaxOther = 0
  MaxBreaks = 1
  Others = FALSE
  NoPolicy = NoPolicy
INVARIANTS
  FlowExact
  InOrder
PROPERTIES
  Flowing
  HeartbeatNoticed
CHECK_DEADLOCK FALSE
