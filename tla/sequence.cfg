SPECIFICATION Spec
CONSTANTS
  Sessions = {s1, s2}
  MaxInt = 7
  Definitions <- ThreeDefinitions
  Alterations <- SevenAlterations
  MaxEvents = 2
  MaxCalls = 3
  MaxUnsynced = 2
CONSTRAINT BeforeOverflow
SYMMETRY SessionSymmetry
INVARIANTS TypeOK ValuesInRange NoValueTwice BlocksApart
