SPECIFICATION OneSpec
CONSTANTS
  Users = {u1}
  Families = {f1}
  Tokens = {t1, t2, t3}
  Requests = {r1, r2}
  BreakGlass = {u1}
  BreakGlassAccessTokenTTL = 1
  BreakGlassSessionLifetime = 2
  AccessTokenTTL = 1
  RevokedSessionSkew = 2
  GracePeriod = 1
  InactiveLifetime = 2
  MaxLifetime = 3
  RefreshTokenTTL = 3
  Retention = 1
  LockTTL = 1
  MaxDelay = 1
  MaxTime = 5
  Offered = {"refresh"}
SYMMETRY Symmetric
INVARIANTS SessionEnds ReuseIsDetectable
CHECK_DEADLOCK FALSE
