SPECIFICATION Spec
CONSTANTS
  p1 = p1
  NoSchema = NoSchema
  Absent = Absent
  Broken = Broken
  Procs <- OneProc
  Revs <- TwoRevs
  ModuleSeq <- TwoModules
  Commands <- EveryCommand
  FaultPoints <- RolledBack
  CrashPoints <- AtRest
  MaxFaults = 2
  MaxCrashes = 1
  MaxRuns = 4
PROPERTY Atomicity
CHECK_DEADLOCK FALSE
