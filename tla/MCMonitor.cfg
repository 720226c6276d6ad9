SPECIFICATION Spec
CONSTANTS
  m1 = m1  m2 = m2  f1 = f1  v1 = v1

  Instants <- MCInstants
  Subscribers = {"a", "b"}  FailureThreshold = 2  Nap = 30
  MaxFailedPolls = 4  MaxPollFaults = 2

  BoardCourts = {m1, m2}  Fields = {f1}  Values = {v1}
  Rows <- MCRows
  Blank = Blank  None = None
  MaxPolls = 3  MaxHalted = 1

  Clients = {m1, m2}
  Serials = {2}  LookAheads = {0, 1}  BoardSerials = {0, 1, 2}
  DefaultLookAhead = 5
  NotTracked = NotTracked
  MaxDays = 2  MaxRequests = 3  MaxBoardFaults = 1

  VcInstants <- MCVcInstants
  CourtRooms = {"a"}
  MaxVcFaults = 1

  Followers = {m1, m2}
  Contents <- MCContents
  Unknown = Unknown
  MaxNights = 2  MaxVisits = 1  MaxStops = 1

  Scrapers = {m1, m2}
  DomainTtl = 1  Backoff = 1  CountTtl = 3  MaxConsecutive429s = 3
  Never = Never
  MaxGuardClock = 4  MaxGuardFaults = 1

  CaseEntries <- MCCaseEntries  SnapshotLists <- MCSnapshotLists
  Missing = Missing
  LinkRequests = {"q"}  LinkHearing <- MCLinkHearing  LinkPlaces <- MCLinkPlaces
  StaleDays = 1  NoLink = NoLink
  MaxBatches = 2  MaxLinkDays = 2  MaxLinkEdits = 2  MaxMatchFaults = 1
SYMMETRY MCSymmetry
INVARIANTS
  TypeOK
  PollsKept
  TracesKept BoardRecorded
  SerialAlertsKept
  WindowsKept
  NewsIsTold
  GuardKept MatchingKept
PROPERTY ImplementsFieldHistory
CHECK_DEADLOCK FALSE
