SPECIFICATION Spec
CONSTANTS
  d1 = d1 d2 = d2 r1 = r1 r2 = r2 r3 = r3 r4 = r4
  Date <- SameDate
  Days = {d1}
  DayEnd = 3
  Times = {1, 2}
  Jobs = {1}
  Overlap = TRUE
  Ids = {r1, r2, r3, r4}
  None = None
  MaxEdits = 0
  MaxCrashes = 0
  MaxFailures = 0
INVARIANTS ProcessedIsCounted
CHECK_DEADLOCK FALSE
