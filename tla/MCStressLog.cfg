\* Two devices for the pattern tests (one row each) and three stress
\* workers of at most two iterations each: a worker can end with zero, one
\* or two rows, and std::async can fail before, between or after them.
CONSTANTS
  NumDevices = 2
  NumThreads = 3
  PatternTransfers = 1
  MaxTransfers = 2
SPECIFICATION FairSpec
\* The process exits after writing the session end, or dies.
CHECK_DEADLOCK FALSE
INVARIANT TypeOK
INVARIANT OneRowPerTransfer
 
PROPERTY SessionCloses
