\* Two Device objects, so a move has a source and a target; three heap
\* blocks, so a moved-into object can be re-assigned and a third Device
\* opened; device 8 is the first id pcie_sim_open_linux refuses.
CONSTANTS
  Objs = {o1, o2}
  Handles = {h1, h2, h3}
  DevIds = {0, 8}
  MaxDevices = 8
  Null = Null
SPECIFICATION FairSpec
\* The process stops when std::terminate ends it, and the client may stop
\* calling at any point.
CHECK_DEADLOCK FALSE
INVARIANT HandleOwnership
INVARIANT ThreadEndsBeforeMonitor
PROPERTY StopReturns
INVARIANT SpawnOntoJoined
