\* Every installment and every month is invoiced; every request ends.
SPECIFICATION MCSpec
CONSTANTS
  s1 = s1
  s2 = s2
  l1 = l1
  l2 = l2
  w1 = w1
  i1 = i1
  i2 = i2
  p1 = p1
  p2 = p2
  h1 = h1
  A1 = A1
  A2 = A2
  t1 = t1
  t2 = t2
  NoInvoice = NoInvoice
  NoPayment = NoPayment
  cron = cron
  k1 = k1
  MonthLength <- TwoDayMonths
  Leases = {l1, l2}
  Workers = {w1}
  StartDate <- Starts
  Frequency <- Terms
  Drafts = {}
  Terminable = {}
  Synchronized = FALSE
  ManualInvoices = FALSE
  LastMonth = 2
  MaxManualRuns = 0
  MaxCrashes = 0
  MaxFailures = 1
  MaxAborts = 0
  MaxDeletions = 0
  MaxTerminations = 0
CHECK_DEADLOCK FALSE
INVARIANT TypesOK
PROPERTIES DueIsInvoiced MonthsBilled RequestsEnd MailSettles
