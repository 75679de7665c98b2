SPECIFICATION Spec
CONSTANTS
  s1 = s1
  s2 = s2
  s3 = s3
  a = a
  b = b
  c = c
  d = d
  e = e
  Segments <- ThreeSegments
  Values <- FiveValues
  Bit <- Hash
  MINVALS = 3
  BigPairs = FALSE
INVARIANTS TypeOK SketchIsOfValues NoElog
SYMMETRY SegmentSymmetry
CHECK_DEADLOCK FALSE
