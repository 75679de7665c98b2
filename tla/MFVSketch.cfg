SPECIFICATION Spec
CONSTANTS
  s1 = s1
  s2 = s2
  a = a
  b = b
  c = c
  Segments <- TwoSegments
  Items <- ThreeValues
  Size <- Lengths
  Rows <- TwoRows
  Cols <- ThreeValues
  Hashes <- TwoHashes
  max_mfvs = 2
  InitialSpace = 3
  IntBits = 8
  MaxRows = 6
INVARIANTS ListsMostFrequent CountsAreNotLow StorageIsDisjoint MergedCountsAreCurrent
CHECK_DEADLOCK FALSE
