CONSTANTS
  ca = ca
  cb = cb
  cc = cc
  cd = cd
  stub = stub
  acme = acme
  umbra = umbra
  eng = eng
  hr = hr
  v1 = v1
  v2 = v2
  word = word
  filler = filler
  Tenants = {acme, umbra}
  Groups = {eng, hr}
  Versions = {v1, v2}
  AnyVersion = AnyVersion
  Texts = {"on", "off"}
  Ids = {ca, cb, cc, cd}
  NoChunk = NoChunk
  Terms = {word, filler}
  CountOf <- Counts
  Profiles = {"memory", "remote"}
  Batches <- SomeBatches
  Callers <- SomeCallers
  Live = v1
  Query = {word}
  MaxVariants = 2
  TopK = 2
  RerankTopK = 2
  RrfK = 60
  DenseWeight = 1
  LexicalWeight = 1
  Scale = 3782
  Rerankers = {"identity", "cross_encoder"}
  MaxCalls = 2
  Markers = {ca, cb, cc, cd, stub}
  Loose <- Resembles
  MaxMarkers = 2
  ThresholdPercent = 1
  AgentRerankers = {"cross_encoder"}
  ToolTopK = {0, 1}
  MaxSearches = 2
  HeaderChars <- Headers
  TextChars <- Lengths
  MAX_CHARS = 24
  MAX_QUOTE_CHARS = 8
  MIN_QUOTE_CHARS = 3
SPECIFICATION EvidenceSpec
INVARIANTS
  StatisticsExact
  RetrievedWasVisible
  RecheckDropsNothing
  NotStarved
  FusionRespectsLists
  CitesRetrieved
  ExactMarkerCited
  CriticSeesStrongest
  AgentCitesEvidence
