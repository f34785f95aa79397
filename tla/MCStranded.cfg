SPECIFICATION OneSpec
CONSTANTS
  Users = {u1}
  Families = {f1}
  Tokens = {t1, t2, t3}
  Requests = {r1, r2}
  BreakGlass = {}
  BreakGlassAccessTokenTTL = 1
  BreakGlassSessionLifetime = 1
  AccessTokenTTL = 1
  RevokedSessionSkew = 2
  GracePeriod = 1
  InactiveLifetime = 2
  MaxLifetime = 2
  RefreshTokenTTL = 2
  Retention = 1
  LockTTL = 1
  MaxDelay = 1
  MaxTime = 0
  Offered = {"reset"}
SYMMETRY Symmetric
INVARIANTS MarkedIsOver
CHECK_DEADLOCK FALSE
