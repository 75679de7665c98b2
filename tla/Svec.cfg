CONSTANTS
  NVP = NVP
  ByteBits = 3
  Literals <- MCLiterals
  Arrays <- MCArrays
  Sparse <- MCSparse
  Scalars <- MCScalars
  Indices <- MCIndices
  Texts <- MCTexts
  Junk = {0}
  Corners = {}
  MaxOps = 1
  MaxLength = 5
SPECIFICATION Spec
CHECK_DEADLOCK FALSE
INVARIANT WellFormed
PROPERTY IsDense
