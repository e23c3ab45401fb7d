SPECIFICATION FairSpec
CONSTANTS
  b1 = b1
  b2 = b2
  Brokers = {b1, b2}
  Base = b1
  Counts = {0, 2}
  max_retries = 1
  UrlKinds <- MCUrlKinds
  MaxRedirects = 1
  MaxBreaks = 1
  NoLimit = NoLimit
  NoCount = NoCount
  NoConnection = NoConnection
INVARIANTS
  FollowsDirections
PROPERTIES
  LookupReturns
CHECK_DEADLOCK FALSE
