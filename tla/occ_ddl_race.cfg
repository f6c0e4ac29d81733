SPECIFICATION Spec
CONSTANTS
  Contexts = {c1, c2}
  NoOne = NoOne
  Objects = {t}
  MaxKey = 2
  ReadChoices <- OnePoint
  WriteChoices <- TwoKeys
  HistoryLimit = 2
  MaxBegins = 2
  MaxAuto = 0
  MaxDdl = 1
INVARIANT DdlInvalidates
