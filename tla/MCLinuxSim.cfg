\* Three threads on one device: two transfers can contend for the device
\* mutex while the third resets, reads or re-opens.
CONSTANTS
  t1 = t1
  t2 = t2
  t3 = t3
  Threads <- MCThreads
  Devices = {0}
  Sizes = {0, 4096}
  Latencies = {2, 5, 8}
  MaxXfers = 4
  NoThread = NoThread
  NoHandle = NoHandle
  NoXfer = NoXfer
  Unset = Unset
SYMMETRY ThreadSymmetry
SPECIFICATION Spec
INVARIANT TypeOK
INVARIANT StatsMatchLaw
