CONSTANTS
  NModels = 3
  MaxAttempts = 3
  Timeout = 3
  BaseDelay = 2
  MaxDelay = 3
  MaxHang = 5
SPECIFICATION FairSpec
CHECK_DEADLOCK FALSE
INVARIANTS
  ChainInOrder
  OneCallInFlight
  AnswerIsLast
  TimeWithinPolicy
PROPERTY
  ChatEnds
