\* Two partial payments of one invoice at the same time.
SPECIFICATION Spec
CONSTANTS
  Sessions = {s1, s2}
  Invoices = {i1}
  Payments = {p1, p2, p3}
  MaxTotal = 3
  Prices = {3}
  Tolerance = 0
  Endpoints = {"createInvoice", "createPayment"}
  SplitAllowed = FALSE
  NoInvoice = NoInvoice
  NoPayment = NoPayment
CHECK_DEADLOCK FALSE
PROPERTY WithinBalance
