\* Two runs, and users who write and delete invoices of a quarterly lease beside them; quarters that share a cycle.
SPECIFICATION MCSpec
CONSTANTS
  l1 = l1
  l2 = l2
  w1 = w1
  w2 = w2
  MonthLength <- ShortMonths
  Leases = {l1}
  Workers = {w1, w2}
  StartDate <- OneStart
  Frequency <- OneQuarter
  Drafts = {}
  Terminable = {}
  Synchronized = TRUE
  ManualInvoices = TRUE
  LastMonth = 4
  MaxManualRuns = 0
  MaxCrashes = 0
  MaxFailures = 0
  MaxAborts = 0
  MaxDeletions = 1
  MaxTerminations = 0
INVARIANT OneRunning
PROPERTY NeverBilledAgain
SYMMETRY Symmetry
