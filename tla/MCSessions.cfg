SPECIFICATION RacesSpec
CONSTANTS
  Users = {u1}
  Families = {f1}
  Tokens = {t1, t2, t3}
  Requests = {r1, r2}
  BreakGlass = {}
  BreakGlassAccessTokenTTL = 1
  BreakGlassSessionLifetime = 1
  AccessTokenTTL = 1
  RevokedSessionSkew = 2
  GracePeriod = 2
  InactiveLifetime = 2
  MaxLifetime = 2
  RefreshTokenTTL = 2
  Retention = 1
  LockTTL = 1
  MaxDelay = 1
  MaxTime = 2
  Offered = {"refresh", "reset", "block", "logout_all"}
SYMMETRY Symmetric
INVARIANTS SessionsTypeOK OneLiveToken EndedStaysEnded EndedIsCutOff
CHECK_DEADLOCK FALSE
