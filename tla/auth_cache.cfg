SPECIFICATION Spec
CONSTANTS
  Users = {u1, u2}
  Sids = {s1, s2}
  Tokens = {t1, t2, t3}
  Reqs = {r1, r2}
  None = None
  MaxDevices = 1
  DevMode = FALSE
  CacheAttached = TRUE
  CacheMayFail = TRUE
  RequestsMayDie = FALSE
SYMMETRY Symmetry
INVARIANTS
  MarkedStaysOut
  CurrentTokenReachable
PROPERTY
  ImplementsLifecycle
