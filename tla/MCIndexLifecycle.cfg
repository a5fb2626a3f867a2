CONSTANTS
  v1 = v1
  v2 = v2
  v3 = v3
  c1 = c1
  c2 = c2
  j1 = j1
  j2 = j2
  j3 = j3
  j4 = j4
  Versions = {v1, v2, v3}
  None = None
  Fallback = v1
  Chunks = {c1, c2}
  MaxRev = 2
  Plans <- Operations
  Readers = {r1}
  Live = v1
  LiveContent <- Old
  MaxCrashes = 1
  AliasOutage = TRUE
SPECIFICATION Spec
CHECK_DEADLOCK FALSE
INVARIANTS
  DisciplineKeepsLiveWhole
  RepliesWhole
  BuiltIsWhole
  RerunRecovers
