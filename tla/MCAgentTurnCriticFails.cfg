CONSTANTS
  r1 = r1
  r2 = r2
  hidden = hidden
  Refs <- MCRefs
  Visible <- MCVisible
  Ceiling <- MCSmallCeiling
  Requests <- MCSmallRequests
  MaxCallUsage = 1
  MaxCallsPerReply = 2
SPECIFICATION Spec
INVARIANT ModelFailureFallsBack
