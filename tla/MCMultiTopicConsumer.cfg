CONSTANTS
  t1 = t1
  t2 = t2
  Topics = {t1, t2}
  Configs <- All
  max_retries = 1
  MaxMessages = 1
  Slots <- MCSlots
  MaxFaults = 1
  MaxEarly = 1
  MaxSeeks = 1
  NoLimit = NoLimit
  NoTopic = NoTopic
SPECIFICATION FairSpec
INVARIANTS
  TopicsAgree
  TakesTurns
  AckedSeen
PROPERTIES
  
  Delivered
CHECK_DEADLOCK FALSE
ACTION_CONSTRAINT Overlap
