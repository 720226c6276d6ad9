SPECIFICATION FairSpec
CONSTANTS
  n1 = n1
  n2 = n2
  u1 = u1
  c1 = c1
  p1 = p1
  w1 = w1
  w2 = w2
  None = None
  Ids = {n1, n2}
  Users = {u1}
  Cases = {c1}
  Triggers = {"serial_reached"}
  Window <- MCWindow
  Contacts = {{"chat", "email"}, {"chat", "email", "bounced"}}
  Effective <- BothEffective
  Cap = 2
  DayTicks = 1
  Producers = {p1}
  MaxClock = 1
  MaxCalls = 2
  Workers = {w1}
  MaxAttempts = 2
  BatchSize = 1
  Dialect = "sqlite"
  Configured = {"telegram", "email"}
  Receipts = {"delivered"}
  MaySlow = TRUE
  MaxProducerFaults = 0
  MaxWorkerFaults = 0
CHECK_DEADLOCK FALSE
PROPERTIES
  ImplementsDispatch
  ImplementsQueue
  EveryNotificationSettles
