SPECIFICATION Spec
CONSTANTS
  BatchSizes = {NoBatch}
  Exclusive = FALSE
  Slow = TRUE
  max_retries = 1
  MaxMessages = 2
  MaxFlushes = 0
  MaxBreaks = 0
  MaxConns = 1
  MaxCloses = 0
  NoBatch = NoBatch
INVARIANTS
  ProducerKnown
CHECK_DEADLOCK FALSE
