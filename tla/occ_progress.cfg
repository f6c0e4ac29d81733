SPECIFICATION FairSpec
CONSTANTS
  Contexts = {c1, c2}
  NoOne = NoOne
  Objects = {t}
  MaxKey = 2
  ReadChoices <- NoReads
  WriteChoices <- OneKey
  HistoryLimit = 1
  MaxBegins = 2
  MaxAuto = 1
  MaxDdl = 1
INVARIANT InductiveInvariant
PROPERTY CommitEnds
