SPECIFICATION Spec
CONSTANTS
  u1 = u1  u2 = u2  r1 = r1  r2 = r2  p1 = p1  p2 = p2  e1 = e1  e2 = e2
  daily = daily  monthly = monthly

  Users = {u1, u2}  Registered = {u1}
  Requests = {r1, r2}
  Places <- MCPlaces
  PhoneOf <- MCPhoneOf
  NoValue = NoValue
  OtpLife = 1  ResendAfter = 1  OtpMaxAttempts = 1
  MaxMinutes = 2  MaxCalls = 4

  Persons = {p1, p2}  Emails = {e1, e2}  Chats = {"t"}
  First = p1  FirstEmail = e1  FirstChat = "t"
  Keys = {"whatsapp", "email"}
  Updates <- MCUpdates
  Handlers = {r1, r2}
  None = None
  MaxContactCalls = 3  MaxContactFaults = 1

  Refs = {"a", "b"}  Prefixes = {"a", "b"}  PrefixOf <- MCPrefixOf
  Types = {1, 2}  Matching <- MCMatching  Hardcoded <- MCHardcoded
  Cnrs = {"x", "y"}  Listed <- MCListed
  Entries <- MCEntries
  Fetchers = {r1, r2}
  Unset = Unset
  MaxFetches = 3  MaxFetchFaults = 1

  MaxLines = 6

  SourceOrder <- MCSourceOrder
  DailySources = {daily}
  StoredUnder <- MCStoredUnder
  ShouldRun <- MCShouldRun
  Lists <- MCLists
  Trackers = {u1}
  EveningWindows = 2
  WorkingDays = {1, 2}
  NoRow = NoRow  Missed = Missed  NoDate = NoDate  NoJob = NoJob
  StartTimes = {2}
  LastDay = 1  MaxPublications = 2  MaxFaults = 1
SYMMETRY MCSymmetry
INVARIANTS
  TypeOK
  AccountsKept
  ContactsKept
  EcourtsKept
  CasesRead
  RowsFollowList CasesAreTold
CHECK_DEADLOCK FALSE
