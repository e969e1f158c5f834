CONSTANTS
  t1 = t1
  t2 = t2
  t3 = t3
  Threads <- MCThreads
  Sizes = {0, 4096, 2097152}
  Latencies = {2, 8}
  MaxCalls = 3
  MaxTransferSize = 1048576
  NoThread = NoThread
  NoXfer = NoXfer
  NoView = NoView
  Unset = Unset
SPECIFICATION Spec
INVARIANT ProcViewConsistent
