SPECIFICATION Spec
CONSTANTS
  Threads = {t1, t2, t3}
  ShardCount = 2
  Keys = {k1, k2}
  NoThread = NoThread
  MaxFaults = 1
  MaxCrashes = 2
INVARIANTS TypeOK WaitersAreServed AcknowledgedIsDurable AppliedOnce WalIdsAreUnique NativeFailureLeavesNothing
SYMMETRY ThreadSymmetry
