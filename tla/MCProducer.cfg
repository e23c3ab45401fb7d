SPECIFICATION FairSpec
CONSTANTS
  BatchSizes = {2, NoBatch}
  Exclusive = TRUE
  Slow = TRUE
  max_retries = 1
  MaxMessages = 3
  MaxFlushes = 1
  MaxBreaks = 1
  MaxConns = 2
  MaxCloses = 1
  NoBatch = NoBatch
INVARIANTS
  PendingHeld
  OrderKept
  ProducerLive
PROPERTIES
  CallsReturn
  DropCloses
ACTION_CONSTRAINT Few
CHECK_DEADLOCK FALSE
