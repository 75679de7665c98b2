SPECIFICATION Spec
CONSTANTS
  Values <- TextValues
  SLOP = 4
  Capacity = 9
  InitialStorage = 5
INVARIANTS FindIsExact StorageHolds
PROPERTY IsDictionary
CHECK_DEADLOCK FALSE
