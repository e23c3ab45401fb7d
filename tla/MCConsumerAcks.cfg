SPECIFICATION Spec
CONSTANTS
  batch_size = 4
  Width = 8
  Sizes <- Pair
  Bad = {}
  DeadLetter = NoPolicy
  Delay = TRUE
  Capacity = 2
  AppActs = {"ack", "nack"}
  MaxDispatch = 2
  MaxCloses = 1
  MaxOther = 0
  MaxBreaks = 1
  Others = TRUE
  NoPolicy = NoPolicy
INVARIANTS
  NotForgotten
  AckedForgotten
  NotAbandoned
CHECK_DEADLOCK FALSE
