SPECIFICATION FairNotificationsSpec
CONSTANTS
  Events = {"hold", "newProject", "quotation", "added"}
  Kind <- MCKind
  Slots = 2
  MaxMembers = 2
  MaxCrashes = 1
  None = None
  Users = {"u1", "u2"}
  DepartmentOf <- MCDepartmentOf
  Readers = {k1, k2}
  Audience = {"u1"}
  Sockets = {"s1", "s2", "s3"}
  Browser <- MCBrowser
  MaxReads = 2
  MaxMessages = 2
  MaxSent = 2
  MaxRequests = 4
  MaxActions = 4
  MaxFailures = 1
INVARIANTS FlagHasOwner QueueHasOwner QueueIsExact SentOnce NothingIsMissed
PROPERTY EventuallySent
CHECK_DEADLOCK FALSE
