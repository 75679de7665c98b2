SPECIFICATION Spec
CONSTANTS
  p1 = p1
  NoSchema = NoSchema
  Absent = Absent
  Broken = Broken
  Procs <- OneProc
  Revs <- TwoRevs
  ModuleSeq <- TwoModules
  Commands <- InstallCommands
  FaultPoints <- None
  CrashPoints <- OnlyUnprobe
  MaxFaults = 0
  MaxCrashes = 1
  MaxRuns = 4
INVARIANT Case3TargetIsMissing
CHECK_DEADLOCK FALSE
