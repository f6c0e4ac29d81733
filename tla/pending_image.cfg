SPECIFICATION Spec
CONSTANTS
  KeyCount = 3
  Vals <- TwoValues
  Null = "null"
  UniqueVal = TRUE
  MaxRows = 2
  MaxStatements = 3
  MaxAuto = 1
INVARIANTS TypeOK ScanIsImage PointReadSound RecordsMatchRows RowIdsFresh RowIdsMovedByOthers
PROPERTY CommitPublishesImage
