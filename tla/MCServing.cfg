CONSTANTS
  q1 = q1
  q2 = q2
  q3 = q3
  acme = acme
  umbra = umbra
  staff = staff
  public = public
  tokAna = tokAna
  tokBob = tokBob
  Requests <- MCRequests
  Principals <- MCPrincipals
  Scopes <- MCPrincipals
  Tenants = {acme, umbra}
  Scope <- MCScope
  Tenant <- MCTenant
  Tokens <- MCTokens
  OtherToken = OtherToken
  Absent = Absent
  DefaultTenant = umbra
  PublicGroups = public
  Versions = {v1, v2}
  FirstVersion = v1
  NoVersion = Absent
  Targets = {v1, v2}
  Configured = v1
  HardTenant = umbra
  Limit = 0
  TimeoutOn = FALSE
  MaxCalls = 1
  MaxPromotions = 2
  Deployments <- MCDeployments
SPECIFICATION ServingSpec
CHECK_DEADLOCK FALSE
INVARIANTS
  ProductionIsSafe
  ReadyIsQueryable
  EveryLetterIndexed
  ChunksAreExcerpts
  NothingPersonalLeaves
PROPERTY
  EveryRequestEnds
