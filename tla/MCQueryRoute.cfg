CONSTANTS
  q1 = q1
  q2 = q2
  q3 = q3
  ana = ana
  bob = bob
  acme = acme
  umbra = umbra
  Requests <- ThreeRequests
  Scopes = {ana, bob}
  Tenants = {acme}
  Scope <- ScopeOfThree
  Tenant <- OneTenant
  Versions = {v1, v2}
  FirstVersion = v1
  NoVersion = NoVersion
  Limit = 1
  TimeoutOn = TRUE
  MaxCalls = 1
  MaxPromotions = 2
SPECIFICATION Spec
SYMMETRY SameCaller
CONSTRAINT OneCallerAfterPromotion
CHECK_DEADLOCK FALSE
INVARIANTS
  PermitsConserved
  ReplayIsOwn
  RepliesForCaller
  CachesFaithful
  CurrentUnlessOvertaken
