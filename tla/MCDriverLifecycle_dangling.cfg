\* The shipped DEVICE_COUNT with one user.
CONSTANTS
  u1 = u1
  u2 = u2
  Users = {u1}
  DeviceCount = 1
  MaxOpens = 1
  NoDev = NoDev
SPECIFICATION Spec
CHECK_DEADLOCK FALSE
INVARIANT NoDanglingFile
