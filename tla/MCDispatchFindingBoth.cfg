SPECIFICATION Spec
CONSTANTS
  n1 = n1
  n2 = n2
  n3 = n3
  u1 = u1
  c1 = c1
  p1 = p1
  p2 = p2
  None = None
  Ids = {n1, n2, n3}
  Users = {u1}
  Cases = {c1}
  Triggers = {"display_board_active"}
  Window <- MCWindow
  Contacts = {{"chat", "email"}}
  Effective <- BothEffective
  Cap = 3
  DayTicks = 3
  Producers = {p1}
  MaxClock = 2
  MaxCalls = 2
  MaxFaults = 0
SYMMETRY Symmetry
CHECK_DEADLOCK FALSE
INVARIANT BothMeansBoth
