SPECIFICATION Spec
CONSTANTS
  KeyCount = 2
  Vals <- ThreeValues
  Null = "null"
  UniqueVal = FALSE
  MaxRows = 2
  MaxStatements = 1
  MaxAuto = 0
INVARIANT OwnWritesAreRead
