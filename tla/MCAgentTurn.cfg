CONSTANTS
  r1 = r1
  r2 = r2
  hidden = hidden
  Refs <- MCRefs
  Visible <- MCVisible
  Ceiling <- MCCeiling
  Requests <- MCRequests
  MaxCallUsage = 1
  MaxCallsPerReply = 3
SPECIFICATION FairSpec
INVARIANTS
  TypeOK
  SpendWithinCeiling
  TokenOvershootBounded
  HistoryPaired
  OwnAnswerStands
  AnswerContract
  UsageCoversSpend
PROPERTIES
  TurnEnds
  ContractKept
