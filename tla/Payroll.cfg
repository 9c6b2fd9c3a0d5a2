\* Two of the three cycles are enough to overlap; the third can come to stand in for either.
SPECIFICATION MCSpec
CONSTANTS
  u1 = u1 u2 = u2 p1 = p1 p2 = p2 p3 = p3
  Users = {u1, u2}
  Ids = {p1, p2, p3}
  Clients = {1}
  Early = FALSE
  Jobs = {1}
  None = None
  Salary = 2
  MaxDays = 1
  Corrections = {1}
  MaxChanges = 1
  MaxRequests = 4
  MaxRestarts = 1
  MaxFailures = 1
  LastDay = 3
  MaxAge = 1
  Cycles = {1, 2, 3}
  Makers = {1, 2}
  MaxCycles = 3
  Raisers = {1, 2}
  MaxRaises = 4
  PayCycles = {1, 2}
  Length = 3
  Week = 6
  FullDay = 540
  Calendars <- MCCalendars
  Entered = {0}
  Edited = {3}
  Records <- MCRecords
  Leaves <- MCLeaves
  Computers = {1, 2}
  MaxCredits = 1
  MaxComputed = 4
  Askers = {"r1", "r2"}
  Preparers = {1, 2}
  Lists <- MCLists
  Name <- MCName
  NoHours = {4}
  Period = {1, 2, 3, 4}
  DaysOff = {3}
  Attendance <- MCAttendance
  Page = 2
INVARIANTS OnePayroll FiguresAgree 
INVARIANTS  ReportsAreWhole
PROPERTIES PaidStaysPaid 
CHECK_DEADLOCK FALSE
