SPECIFICATION FairSpec
CONSTANTS
  Procs = {p1, p2}
  Keys = {k1}
  Reqs = {r1, r2}
  Limit = 2
  Window = 3
  MaxFree = 1
  None = None
  RedisMayFail = TRUE
  ProcsMayDie = TRUE
INVARIANTS
  TypeOK
  BurstBounded
  StuckHasCause
PROPERTY
  BlockIsTemporary
