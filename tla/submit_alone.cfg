SPECIFICATION Spec
CONSTANTS
  Users = {u1, u2}
  Problems = {p1, p2}
  Topics = {t1}
  Achievements = {"firstTwo", "twentyXp"}
  TopicOf <- OneTopic
  Condition <- Conditions
  Reward <- Rewards
  Verdicts = {"right", "wrong", "ungraded"}
  Reqs = {r1, r2, r3}
  LastDay = 2
  MaxInFlight = 1
  CacheMayFail = FALSE
  RequestsMayDie = FALSE
  None = None
INVARIANT ExactAtRest
SYMMETRY Symmetry
