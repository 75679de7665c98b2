CONSTANTS
  Null = Null
  Exception = Exception
  NotFinite = NotFinite
  Pending = Pending
  Scale = 48
  GroupBits = 2
  Unit = 10
  MaxWidth = 2
  Share = 12
  IntBits = 4
  Segments = 2
  Limits = {0, 1, 3}
  Horizon = 4
  Jobs <- MCJobs
  Calls <- MCCalls
  none = none
  NoProduct = none
  Products <- MCProducts
  Inputs <- MCInputs
  Supports <- MCSupports
  Confidences <- MCConfidences
  Hash <- MCHash
  Ulps = 1000
  Corpora <- MCCorpora
  dsize = 2
  num_topics = 2
  Iterations = {0, 1, 2, 3}
  alpha = 1
  eta = 1
  Documents <- MCDocuments
  Rounds = 2
SPECIFICATION SessionSpec
CHECK_DEADLOCK FALSE
INVARIANTS TypeOK TTestsAreOfRows AnovaOfOrderedGroups ChiSquaredIsOfRows
  LinregrIsOfRows UStatisticCountsPairs SignedRanksAreMidranks KSIsMaxDiff
  IterationIsOfAllRows ArraysAreElementwise
  FrequentSetsAreExact RulesAreExact ModelIsOfTheCorpus
PROPERTY QueryEnds
