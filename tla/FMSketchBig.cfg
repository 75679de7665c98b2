SPECIFICATION Spec
CONSTANTS
  s1 = s1
  s2 = s2
  s3 = s3
  a = a
  b = b
  c = c
  d = d
  e = e
  Segments <- TwoSegments
  Values <- FiveValues
  Bit <- Hash
  MINVALS = 2
  BigPairs = TRUE
INVARIANT SketchIsOfValues

CHECK_DEADLOCK FALSE
