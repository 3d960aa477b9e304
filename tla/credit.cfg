\* Invoices, refunds and corrections of two credits; their receipts in the cash books.
SPECIFICATION MCSpec
CONSTANTS
  Sessions = {s1, s2}
  Credits = {1, 2}
  Refunds = {1}
  Invoices = {i1, i2}
  MaxAmount = 2
  Bills <- SyndicBill
  Banked = {}
  InCdf = {}
  Endpoints = {"create", "issue", "refund", "update", "cancel"}
SYMMETRY Symmetry
CHECK_DEADLOCK FALSE
INVARIANTS CreditUsedOnce BooksFollow
PROPERTY OldestFirst
