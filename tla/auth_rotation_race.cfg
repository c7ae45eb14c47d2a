SPECIFICATION Spec
CONSTANTS
  Users = {u1}
  Sids = {s1}
  Tokens = {t1, t2, t3}
  Reqs = {r1, r2}
  None = None
  MaxDevices = 1
  DevMode = FALSE
  CacheAttached = FALSE
  CacheMayFail = FALSE
  RequestsMayDie = FALSE
PROPERTY RotationReplacesPresented
