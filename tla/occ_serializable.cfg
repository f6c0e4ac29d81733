SPECIFICATION Spec
CONSTANTS
  Contexts = {c1, c2, c3}
  NoOne = NoOne
  Objects = {t}
  MaxKey = 2
  ReadChoices <- TwoShapes
  WriteChoices <- TwoKeys
  HistoryLimit = 1
  MaxBegins = 3
  MaxAuto = 0
  MaxDdl = 0
SYMMETRY ContextSymmetry
INVARIANTS TypeOK IntentsDisjoint HistoryComplete ValidatedIsCurrent Serializable
PROPERTY ImplementsSerial
