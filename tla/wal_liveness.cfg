SPECIFICATION FairSpec
CONSTANTS
  Threads = {t1, t2, t3}
  ShardCount = 1
  Keys = {k1, k2, k3}
  NoThread = NoThread
  MaxFaults = 1
  MaxCrashes = 0
PROPERTY CommitReturns
