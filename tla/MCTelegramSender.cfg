SPECIFICATION Spec
CONSTANTS
  c1 = c1
  c2 = c2
  s1 = s1
  s2 = s2
  d1 = d1
  None = None
  MaxCalls = 3
  Chats = {c1, c2}
  Senders = {s1, s2}
  DlqWorkers = {d1}
  Second = 2
  RetryDelay = 3
  GlobalLimit = 2
  ChatLimit = 1
  MaxRetries = 1
  MaxDlqAttempts = 2
  MaxFaults = 1
SYMMETRY Symmetry
INVARIANTS
  TypeOK
  RateKept
  JobsAccounted
  TriesBounded
