SPECIFICATION FairSpec
CONSTANTS
  c1 = c1
  c2 = c2
  c3 = c3
  Callers = {c1, c2, c3}
  min_backoff = 1
  max_backoff = 4
  max_retries = 1
  Jitters = {0}
  MaxDrops = 1
  MaxTaken = 1
  NoConn = NoConn
  Canceled = Canceled
PROPERTIES
  ServesActive
  CallsReturn
  SilenceDetected
ACTION_CONSTRAINT TwoFaults
CHECK_DEADLOCK FALSE
