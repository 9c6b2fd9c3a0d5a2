SPECIFICATION RequestsSpec
CONSTANTS
  Leaves = {l1}
  Handlers = {h1}
  m1 = m1
  hr = hr
  ops = ops
  admin = admin
  NoDept = NoDept
  Managers <- MCManagers
  HrOfficers <- MCHr
  Departments <- MCDepartments
  DeptOf <- OtherDept
  r1 = r1 r2 = r2 r3 = r3 None = None
  Requests = {r1, r2, r3}
  Clashes <- MCClashes
  Cars = {"car"}
  MaxActions = 4
  MaxFailures = 1
  MaxDecisions = 4
  MaxLost = 1
  Receipts = {r1, r2}
  Claimed <- MCClaimed
  Amounts = {0, 1}
  Payers = {h1}
  MaxSteps = 4
  MaxBroken = 1
PROPERTY WithdrawnStaysWithdrawn
CHECK_DEADLOCK FALSE
