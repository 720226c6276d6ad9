SPECIFICATION FairSpec
CONSTANTS
  u1 = u1
  u2 = u2
  s1 = s1
  s2 = s2
  r1 = r1
  b1 = b1
  None = None
  Absent = Absent
  Blank = Blank
  Subs = {s1}
  Users = {u1, u2}
  Reachable = {u1}
  Rooms = {r1}
  Serials = {1, 2}
  LookAheads = {1}
  Bots = {b1}
  DayTicks = 2
  Delay = 1
  MaxClock = 2
  MaxFaults = 1
CHECK_DEADLOCK FALSE
INVARIANTS
  TypeOK
  EachSentOnce
  MessagesAgree
  ClosedWereTold
PROPERTIES
  PastRowsHearNothing
  DueIsHandled
