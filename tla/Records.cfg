\* Task 5 is beyond Far, as a task with an id above 9999 is.
SPECIFICATION MCSpec
CONSTANTS
  h1 = h1 h2 = h2 t1 = t1 t2 = t2
  None = None
  Workers = {1}
  Hooks = {h1, h2}
  MaxActions = 2
  MaxFailures = 1
  Tasks = {1, 2, 5}
  Columns = {"todo", "done"}
  Movers = {h1, h2}
  New = 3
  Far = 4
  MaxMoves = 3
  Ids = {1, 2, 3, 4}
  SortKey <- MCKey
  PerPage = 2
  MaxComings = 2
  Titles = {t1, t2}
  Editors = {u1}
  Imports = {k1}
  MaxEdits = 2
INVARIANTS  ListingsAreWhole  ResumedWasPaid PaymentArrives
PROPERTY OthersKeepOrder
SYMMETRY Symmetry
CHECK_DEADLOCK FALSE
