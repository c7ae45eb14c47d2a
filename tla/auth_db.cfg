SPECIFICATION Spec
CONSTANTS
  Users = {u1}
  Sids = {s1, s2, s3}
  Tokens = {t1, t2, t3, t4}
  Reqs = {r1, r2}
  None = None
  MaxDevices = 1
  DevMode = TRUE
  CacheAttached = FALSE
  CacheMayFail = FALSE
  RequestsMayDie = TRUE
SYMMETRY Symmetry
INVARIANTS
  TypeOK
  TokensConsistent
  Displaced
  BoundedOverrun
