CONSTANTS
  t1 = t1
  t2 = t2
  t3 = t3
  Threads <- MCThreads
  Sizes = {0, 4096}
  Latencies = {2, 8}
  MaxXfers = 3
  MaxTransferSize = 1048576
  UInt64Max = 1000
  StartInitialized = TRUE
  NoThread = NoThread
  Unset = Unset
SYMMETRY ThreadSymmetry
SPECIFICATION Spec
INVARIANT StatsMatchWindowsLaw
INVARIANT ExclusiveOpen
INVARIANT AvgWithinRange
