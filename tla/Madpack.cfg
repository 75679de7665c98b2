SPECIFICATION FairSpec
CONSTANTS
  p1 = p1
  NoSchema = NoSchema
  Absent = Absent
  Broken = Broken
  Procs <- OneProc
  Revs <- TwoRevs
  ModuleSeq <- TwoModules
  Commands <- EveryCommand
  FaultPoints <- SQLLabels
  CrashPoints <- Deaths
  MaxFaults = 2
  MaxCrashes = 1
  MaxRuns = 4
INVARIANTS TypeOK FailureRestores SuccessMeansInstalled BackupsAreNamed CheckLeavesNoTrace
PROPERTIES CommandEnds OnlyUninstallDestroys
CHECK_DEADLOCK FALSE
