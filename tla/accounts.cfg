SPECIFICATION AccountFairSpec
CONSTANTS
  Users = {u1}
  Sids = {s1, s2}
  Tokens = {t1, t2}
  Reqs = {r1}
  Calls = {c1}
  None = None
  MaxDevices = 1
  DevMode = FALSE
  CacheAttached = TRUE
  CacheMayFail = FALSE
  RequestsMayDie = TRUE
INVARIANTS
  CallsTypeOK
  DeletedCannotLogIn
PROPERTIES
  AllFinish
  DeletedProfileFades
