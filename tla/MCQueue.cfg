SPECIFICATION Spec
CONSTANTS
  n1 = n1
  n2 = n2
  u1 = u1
  w1 = w1
  w2 = w2
  None = None
  Ids = {n1, n2}
  Users = {u1}
  Workers = {w1, w2}
  MaxAttempts = 2
  BatchSize = 2
  Dialect = "postgresql"
  Configured = {"telegram", "email"}
  Contacts = {{"chat"}, {}}
  Receipts = {"failed"}
  MaySlow = TRUE
  MaxFaults = 2
SYMMETRY Symmetry
CHECK_DEADLOCK FALSE
INVARIANTS
  TypeOK
  SendsBounded
  LogAgrees
  HoldersBounded
PROPERTY ImplementsDelivery
