CONSTANTS
  v6 = v6
  acme = acme
  staff = staff
  public = public
  Principals <- Callers
  Tokens <- NoTokens
  OtherToken = OtherToken
  Absent = Absent
  DefaultTenant = acme
  PublicGroups = public
  Targets = {v6}
  Configured = v6
  HardTenant = acme
SPECIFICATION MixedSpec
CHECK_DEADLOCK FALSE
INVARIANTS
  EveryRunIsIndexed
