CONSTANTS
  t1 = t1
  t2 = t2
  t3 = t3
  Threads = {t1, t2}
  Sizes = {4096}
  Latencies = {2, 8}
  MaxXfers = 3
  MaxTransferSize = 1048576
  UInt64Max = 1000
  StartInitialized = FALSE
  NoThread = NoThread
  Unset = Unset
SPECIFICATION FairSpec
CHECK_DEADLOCK FALSE
PROPERTY CallsReturn
