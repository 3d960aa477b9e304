\* One transaction at a time, every endpoint, two invoices.
SPECIFICATION SerialSpec
CONSTANTS
  Sessions = {s1, s2}
  Invoices = {i1, i2}
  Payments = {p1, p2}
  MaxTotal = 2
  Prices = {2}
  Tolerance = 0
  Endpoints <- AllEndpoints
  SplitAllowed = FALSE
  NoInvoice = NoInvoice
  NoPayment = NoPayment
SYMMETRY Symmetry
CHECK_DEADLOCK FALSE
PROPERTY WithinBalance
PROPERTY ImplementsAccount
