SPECIFICATION AlertsSpec
CONSTANTS
  Clients = {c1}
  Serials = {2}  LookAheads = {0, 1}  BoardSerials = {0, 1, 2}
  DefaultLookAhead = 5
  NotTracked = NotTracked
  MaxDays = 2  MaxRequests = 3  MaxBoardFaults = 0
INVARIANT BoardIsTold
CHECK_DEADLOCK FALSE
