SPECIFICATION Spec
CONSTANTS
  s1 = s1
  s2 = s2
  Segments <- TwoSegments
  W = 4
  Items <- Int64
  Data <- Boundary
  Rows <- TwoRows
  Cols <- Int64
  Hashes <- TwoHashes
  MaxRows = 3
  EmptyParts = FALSE
INVARIANTS TypeOK RangeCountIsExact NeverUndercounts CentileIsClose HistogramsPartition
CHECK_DEADLOCK FALSE
