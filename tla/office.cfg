\* Reservations, fees and subscriptions of two lots; invoices of two installments; the staff of one month; tickets, emails and payment plans.
SPECIFICATION OfficeSpec
CONSTANTS
  Sessions = {s1, s2}
  Lots = {l1, l2}
  Reservations = {1, 2}
  Subscriptions = {11, 12}
  Payments = {21, 22}
  MaxFee = 2
  Financed = {0, 2}
  Scheduler = scheduler
  Installments = {1, 2}
  Receipts = {p1, p2}
  Owed <- Price
  Endpoints <- AllEndpoints
  Scenes = {"lots", "fees", "rush", "till", "resubmitted", "cashier", "payers", "automation"}
  Employees = {1, 2}
  Advances = {a1}
  Leaves = {v1}
  OfficeScenes = {"approvals", "decisions", "handouts", "payday", "site", "workshop", "permits", "post", "plans"}
  Tickets = {t1}
  Mails = {1, 2}
  Keys = {l1, l2}
  MonthLength <- TwoYears
  MinimumDeposit <- Tenth
  MaximumInstallments = 7
SYMMETRY Symmetry
CHECK_DEADLOCK FALSE
INVARIANTS TypesOK OneBuyerPerLot InvoiceFollowsPayments PayrollFollows DecisionsHold DeliveredOnce PlanIsKept
PROPERTIES FeesKept TicketsKept
