\* Concurrent payments, price changes, cancellations, trash and restore of two invoices.
SPECIFICATION MCSpec
CONSTANTS
  p1 = p1
  p2 = p2
  Sessions = {s1, s2}
  Invoices = {i1, i2}
  Payments = {p1, p2}
  MaxTotal = 3
  Prices = {0, 3}
  Tolerance = 0
  Endpoints <- IntakeEndpoints
  SplitAllowed = FALSE
  NoInvoice = NoInvoice
  NoPayment = NoPayment
SYMMETRY Symmetry
CHECK_DEADLOCK FALSE
INVARIANTS StatusMatchesPaid NoLockCycle
PROPERTIES ImplementsAccount NoPaymentOnSettled StickyStatus RacesFollow
