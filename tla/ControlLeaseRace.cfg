\* Claims, releases and a token request of two operators; no takeover.
SPECIFICATION FairSpec
CONSTANTS
  ann = ann  bob = bob  adm = adm  sa = sa  sb = sb
  Nobody = Nobody
  NoRequest = NoRequest
  Requests = {r1, r2, r3}
  Users <- MCUsers
  JwtRole <- MCJwtRole
  Sessions <- MCSessions
  SessionUser <- MCSessionUser
  ActiveSessions <- MCSessions
  GrantedRole <- BothPermitted
  Calls <- RaceCalls
  LeaseTTL = 1
  TokenTTL = 2
  MaxTime = 1
INVARIANTS SingleActive NoTokenBesideLease
PROPERTIES ImplementsLeaseLock EveryRequestAnswered
