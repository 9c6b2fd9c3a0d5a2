SPECIFICATION MCSpec
CONSTANTS
  None = None
  Quotations = {q1, q2}
  Sellers = {h1, h2}
  QuoteWorkers = {w1, w2}
  MaxOffers = 3
  Leads = {l1, l2}
  Notes = {n1}
  Files = {f1}
  Askers = {h1, h2}
  MaxAsked = 5
  Projects = {p1, p2}
  Users = {"u1", "u2"}
  Clients = {"c1", "c2"}
  Requests = {h1, h2}
  Asks <- MCAsks
  MaxRequests = 3
  MaxFailures = 1
INVARIANTS OffersAgree 
  AtMostOneRepresentative TeamAsAsked
PROPERTY RepresentativeKept
SYMMETRY Symmetry
CHECK_DEADLOCK FALSE
