SPECIFICATION Spec
CONSTANTS
  Users = {u1}
  Ids = {p1}
  Clients = {1, 2}
  Early = FALSE
  Jobs = {1}
  None = None
  Salary = 2
  MaxDays = 1
  Corrections = {1}
  MaxChanges = 1
  MaxRequests = 4
  MaxRestarts = 0
  MaxFailures = 0
PROPERTIES PaidStaysPaid
CHECK_DEADLOCK FALSE
