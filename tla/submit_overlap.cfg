SPECIFICATION Spec
CONSTANTS
  Users = {u1}
  Problems = {p1}
  Topics = {t1}
  Achievements = {"firstTwo"}
  TopicOf <- OneTopic
  Condition <- Conditions
  Reward <- Rewards
  Verdicts = {"right", "ungraded"}
  Reqs = {r1, r2, r3}
  LastDay = 1
  MaxInFlight = 2
  CacheMayFail = FALSE
  RequestsMayDie = FALSE
  None = None
SYMMETRY Symmetry
INVARIANTS
  CountsNeverOvercount
  StatsNeverOvercount
PROPERTY
  NumbersFollowOrder
