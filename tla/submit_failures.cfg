SPECIFICATION Spec
CONSTANTS
  Users = {u1}
  Problems = {p1}
  Topics = {t1}
  Achievements = {"firstTwo", "twentyXp"}
  TopicOf <- OneTopic
  Condition <- Conditions
  Reward <- Rewards
  Verdicts = {"right", "wrong", "ungraded"}
  Reqs = {r1, r2}
  LastDay = 2
  MaxInFlight = 2
  CacheMayFail = TRUE
  RequestsMayDie = TRUE
  None = None
SYMMETRY Symmetry
INVARIANTS
  TypeOK
  EarnedDeserved
  StreaksBounded
PROPERTY CallsRunOut
