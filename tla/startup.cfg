SPECIFICATION FairSpec
CONSTANTS
  Procs = {p1, p2}
  Settings = {old, fresh}
  Installed = {old}
  Reqs = {r1, r2}
  None = None
  MayFail = TRUE
INVARIANTS
  TypeOK
  UnpreparedHasCause
PROPERTY
  FormsSettle
