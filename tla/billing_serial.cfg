\* One run at a time: a crash, a failing lease and a manual run of any month.
SPECIFICATION SerialSpec
CONSTANTS
  l1 = l1
  l2 = l2
  w1 = w1
  w2 = w2
  MonthLength <- ShortMonths
  Leases = {l1, l2}
  Workers = {w1, w2}
  StartDate <- Starts
  Frequency <- Terms
  Drafts = {}
  Terminable = {}
  Synchronized = FALSE
  ManualInvoices = FALSE
  LastMonth = 3
  MaxManualRuns = 1
  MaxCrashes = 1
  MaxFailures = 1
  MaxAborts = 0
  MaxDeletions = 0
  MaxTerminations = 0
INVARIANTS Contiguous NoOverlap
PROPERTY SuccessIsFinal
SYMMETRY Symmetry
