SPECIFICATION FairSpec
CONSTANTS
  d1 = d1 d2 = d2 r1 = r1 r2 = r2 r3 = r3 r4 = r4
  Date <- SameDate
  Days = {d1}
  DayEnd = 3
  Times = {1, 2}
  Jobs = {1}
  Overlap = FALSE
  Ids = {r1, r2}
  None = None
  MaxEdits = 2
  MaxCrashes = 2
  MaxFailures = 1
INVARIANTS  ProcessedIsCounted
PROPERTY EventuallyCounted
CHECK_DEADLOCK FALSE
