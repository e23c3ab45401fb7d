SPECIFICATION FairSpec
CONSTANTS
  batch_size = 1
  Width = 8
  Sizes <- Singles
  Bad = {2}
  DeadLetter = 1
  Delay = FALSE
  Capacity = 1
  AppActs = {"ask", "drop"}
  MaxDispatch = 3
  MaxCloses = 1
  MaxOther = 1
  MaxBreaks = 1
  Others = FALSE
  NoPolicy = NoPolicy
INVARIANTS
  DeadLetterFirst
PROPERTIES
  Recovered
  DropCloses
  Answered
CHECK_DEADLOCK FALSE
