CONSTANTS
  Null = Null
  Exception = Exception
  NotFinite = NotFinite
  Pending = Pending
  Scale = 48
  GroupBits = 2
  Unit = 10
  MaxWidth = 2
  Share = 12
  IntBits = 4
  Segments = 2
  Limits = {0, 1, 3}
  Horizon = 4
  Jobs <- MCMergeJobs
  Calls <- MCNoCalls
SPECIFICATION Spec
CHECK_DEADLOCK FALSE
INVARIANT AnovaIsOfRows
