CONSTANTS
  ca = ca
  cb = cb
  cc = cc
  cd = cd
  stub = stub
  acme = acme
  umbra = umbra
  eng = eng
  hr = hr
  v1 = v1
  v2 = v2
  word = word
  filler = filler
  Tenants = {acme, umbra}
  Groups = {eng, hr}
  Versions = {v1, v2}
  AnyVersion = AnyVersion
  Texts = {"on", "off"}
  Ids = {ca, cb, cc, cd}
  NoChunk = NoChunk
  Terms = {word, filler}
  CountOf <- Counts
  Profiles = {"remote"}
  Batches <- OneBatch
  Callers <- OneCaller
  Live = v1
  Query = {word}
  MaxVariants = 1
  TopK = 2
  RerankTopK = 2
  RrfK = 60
  DenseWeight = 1
  LexicalWeight = 1
  Scale = 3782
  Rerankers = {"identity", "cross_encoder"}
  MaxCalls = 1
  Markers = {ca, cb, cc, cd, stub}
  Loose <- Resembles
  MaxMarkers = 1
  ThresholdPercent = 1
  AgentRerankers = {"cross_encoder"}
  ToolTopK = {0}
  MaxSearches = 7
  HeaderChars <- ShortHeaders
  TextChars <- LongTexts
  MAX_CHARS = 6000
  MAX_QUOTE_CHARS = 500
  MIN_QUOTE_CHARS = 120
SPECIFICATION EvidenceSpec
INVARIANTS
  PlannerWithinBudget
