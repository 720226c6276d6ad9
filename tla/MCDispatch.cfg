SPECIFICATION Spec
CONSTANTS
  n1 = n1
  n2 = n2
  n3 = n3
  u1 = u1
  c1 = c1
  p1 = p1
  p2 = p2
  None = None
  Ids = {n1, n2, n3}
  Users = {u1}
  Cases = {c1}
  Triggers = {"display_board_active", "serial_reached"}
  Window <- MCWindow
  Contacts = {{"chat"}}
  Effective <- BothEffective
  Cap = 1
  DayTicks = 2
  Producers = {p1, p2}
  MaxClock = 2
  MaxCalls = 3
  MaxFaults = 1
SYMMETRY Symmetry
CHECK_DEADLOCK FALSE
INVARIANTS
  TypeOK
  CapOvershootBounded
  DedupOvershootBounded
  OrphansAccounted
