CONSTANTS
  near1 = near1
  near2 = near2
  far = far
  w1 = w1
  w2 = w2
  w3 = w3
  Workers = {w1, w2}
  Queries = {near1, far}
  Scopes = {ana}
  Score <- Cosine
  Threshold = 95
  MaxEntries = 1
  TTL = 1
  MaxAnswers = 2
  MaxClock = 3
SPECIFICATION Spec
CHECK_DEADLOCK FALSE
INVARIANTS
  NeverFails
