SPECIFICATION MCSpec
CONSTANTS
  NoInvoice = NoInvoice
  Invoices = {i1, i2}
  InXero = {}
  Milestones = {m1}
  RequirePayment = {m1}
  Handlers = {h1, h2}
  MaxFailures = 1
  Rewritten = {i1}
  Shares = {m1, m2}
  Contacts = {c1, c2}
  Names = {n1, n2}
  None = None
  Editors = {r1}
  DocumentJobs = {d1}
  Listeners = {k1}
  MaxEdits = 3
  MaxBreaks = 1
INVARIANTS MilestoneBackedByInvoice CompletionHolds ContactAgrees
SYMMETRY Symmetry
CHECK_DEADLOCK FALSE
