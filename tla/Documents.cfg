SPECIFICATION MCSpec
CONSTANTS
  Files = {good, single}
  Rows <- MCRows
  Misfits = {}
  Clients = {1, 2}
  Runs = {1, 2}
  Slow = FALSE
  None = None
  MaxRequests = 3
  MaxRestarts = 1
  Attached = {f1, f2}
  Paths = {"a", "b"}
  MaxFailures = 1
INVARIANTS
  OneUpload
  
  FilesKept
PROPERTY TakenUnlessWedged
CHECK_DEADLOCK FALSE
