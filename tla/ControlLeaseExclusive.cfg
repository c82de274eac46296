\* VIOLATED: a takeover and a claim leave two ACTIVE leases.
SPECIFICATION Spec
CONSTANTS
  ann = ann  bob = bob  adm = adm  sa = sa  sb = sb
  Nobody = Nobody
  NoRequest = NoRequest
  Requests = {r1, r2}
  Users <- MCUsers
  JwtRole <- MCJwtRole
  Sessions <- MCSessions
  SessionUser <- MCSessionUser
  ActiveSessions <- MCSessions
  GrantedRole <- BothPermitted
  Calls <- TakeoverCalls
  LeaseTTL = 1
  TokenTTL = 2
  MaxTime = 0
INVARIANT SingleActive
