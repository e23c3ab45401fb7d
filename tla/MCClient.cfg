SPECIFICATION FairSpec
CONSTANTS
  t1 = t1
  t2 = t2
  Topics = {t1, t2}
  PartitionsOf <- MCPartitionsOf
  Users = {"run_producer", "multi", "producer"}
  Bad = {2}
  MaxMessages = 3
  MaxCreations = 3
  NoTopic = NoTopic
INVARIANTS
  NoMessageForgotten
  RoundRobin
PROPERTIES
  Resolved
  ClientEnds
ACTION_CONSTRAINT FewLate
CHECK_DEADLOCK FALSE
