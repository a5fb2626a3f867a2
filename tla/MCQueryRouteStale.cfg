CONSTANTS
  q1 = q1
  q2 = q2
  q3 = q3
  ana = ana
  bob = bob
  acme = acme
  umbra = umbra
  Requests <- TwoRequests
  Scopes = {ana}
  Tenants = {acme}
  Scope <- ScopeOfTwo
  Tenant <- OneTenant
  Versions = {v1, v2}
  FirstVersion = v1
  NoVersion = NoVersion
  Limit = 2
  TimeoutOn = TRUE
  MaxCalls = 2
  MaxPromotions = 2
SPECIFICATION Spec
CHECK_DEADLOCK FALSE
INVARIANTS
  RepliesCurrent
