\* A refused subscription is submitted again after its lot was reserved.
SPECIFICATION MCSpec
CONSTANTS
  Sessions = {s1, s2}
  Lots = {l1, l2}
  Reservations = {1, 2}
  Subscriptions = {11, 12}
  Payments = {21, 22}
  MaxFee = 2
  Financed = {0, 2}
  Scheduler = scheduler
  Installments = {1, 2}
  Receipts = {p1, p2}
  Owed <- Price
  Endpoints <- AllEndpoints
  Scenes = {"resold"}
SYMMETRY Symmetry
CHECK_DEADLOCK FALSE
INVARIANT KeptForTheReservation
