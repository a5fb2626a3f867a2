CONSTANTS
  near1 = near1
  near2 = near2
  far = far
  w1 = w1
  w2 = w2
  w3 = w3
  Workers = {w1, w2}
  Queries = {near1, near2, far}
  Scopes = {ana, bob}
  Score <- Cosine
  Threshold = 95
  MaxEntries = 1
  TTL = 1
  MaxAnswers = 3
  MaxClock = 3
SPECIFICATION Spec
SYMMETRY Threads
CHECK_DEADLOCK FALSE
INVARIANTS
  HitsFit
  BucketBounded
