SPECIFICATION Spec
CONSTANTS
  Sessions = {s1, s2}
  ParentKeys = {1, 2}
  ChildIds = {1, 2}
  NoRef = NoRef
  Absent = Absent
  MaxPending = 3
  MaxWrites = 2
SYMMETRY SessionSymmetry
INVARIANTS TypeOK CheckIsExact OrphansWereContested
