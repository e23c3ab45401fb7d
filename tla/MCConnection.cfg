SPECIFICATION FairSpec
CONSTANTS
  r1 = r1
  s1 = s1
  p1 = p1
  u1 = u1
  u2 = u2
  g1 = g1
  Calls = {r1, s1, p1, u1, g1}
  Op <- MCOp
  Consumers = {7}
  ConsumerOf <- MCConsumerOf
  CloseIds = {0, 99}
  MaxFlow = 1
  MaxPushed = 1
  MaxTaken = 1
  NoCall = NoCall
  NoKey = NoKey
  NoConsumer = NoConsumer
  NoMessage = NoMessage
INVARIANTS
  NoStrandedReply
  BrokenIsInvalid
  NoMessageLost
PROPERTIES
  CallsReturn
  ImplementsRpc
ACTION_CONSTRAINT Overlap
CHECK_DEADLOCK FALSE
