SPECIFICATION Spec
CONSTANTS
  batch_size = 4
  Width = 8
  Sizes <- One
  Bad = {}
  DeadLetter = NoPolicy
  Delay = FALSE
  Capacity = 2
  AppActs = {}
  MaxDispatch = 2
  MaxCloses = 0
  MaxOther = 0
  MaxBreaks = 1
  Others = FALSE
  NoPolicy = NoPolicy
INVARIANTS
  StreamCurrent
CHECK_DEADLOCK FALSE
