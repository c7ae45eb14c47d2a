SPECIFICATION FairSpec
CONSTANTS
  Entries <- MCEntries
  Procs = {p1, p2}
  Reqs = {r1, r2}
  MaxWrites = 2
  None = None
  RedisMayFail = TRUE
  alice = alice
  bob = bob
  x = x
INVARIANTS
  TypeOK
  AnswersWereTrue
  StaleHasCause
PROPERTY
  CopiesBecomeCurrent
