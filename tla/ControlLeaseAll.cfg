\* Every kind of request, three at a time.
SPECIFICATION Spec
CONSTANTS
  ann = ann  bob = bob  adm = adm  sa = sa  sb = sb
  Nobody = Nobody
  NoRequest = NoRequest
  Requests = {r1, r2, r3}
  Users <- MCUsers
  JwtRole <- MCJwtRole
  Sessions <- MCSessions
  SessionUser <- MCSessionUser
  ActiveSessions <- MCSessions
  GrantedRole <- BothPermitted
  Calls <- AllCalls
  LeaseTTL = 1
  TokenTTL = 2
  MaxTime = 2
INVARIANTS TypeOK
PROPERTY NoStolenLease
SYMMETRY RequestSymmetry
