SPECIFICATION FairSpec
CONSTANTS
  a1 = a1
  a2 = a2
  Attempts = {a1, a2}
  AuthKinds = {"none", "token", "oauth2"}
  Commands <- MCCommands
  Frames <- MCFrames
  Batches <- MCBatches
  MaxTokens = 2
  MaxPushed = 2
  MaxChunks = 1
  Nobody = Nobody
INVARIANTS
  LockReleased
  TokenValid
  InOrder
PROPERTIES
  AttemptsReturn
  SocketsClosed
ACTION_CONSTRAINT Focus
CHECK_DEADLOCK FALSE
