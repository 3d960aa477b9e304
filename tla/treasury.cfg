SPECIFICATION MCSpec
CONSTANTS
  Sessions = {s1, s2}
  Desks = {1, 2}
  A1 = A1
  A2 = A2
  T2 = T2
  Accounts = {A1, A2}
  Entries = {e1}
  TransferKeys = {t1, T2}
  PayoutKeys = {p1}
  Holders = {h1, h2}
  Transfers <- SomeTransfers
  Openings = {1}
  MaxAmount = 1
  MaxPosted = 1
  Endpoints <- AllEndpoints
  Receipts = {g1, g2, g3}
  Refunds = {f1, f2}
  Due = 2
  Ways = {"cash", "bank"}
SYMMETRY Symmetry
INVARIANT TransfersBalance PayoutIsItsMovements
PROPERTY TransferWithinBalance GuaranteeFollows
CHECK_DEADLOCK FALSE
