SPECIFICATION Spec
CONSTANTS
  Threads = {t1, t2, t3}
  ShardCount = 1
  Keys = {k1}
  NoThread = NoThread
  MaxFaults = 1
  MaxCrashes = 1
INVARIANT FailedIsNotApplied
