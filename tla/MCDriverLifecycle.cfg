\* Two devices (the shipped DEVICE_COUNT is 1; two make the unwinding
\* loop of create_platform_devices release an earlier device) and two users.
CONSTANTS
  u1 = u1
  u2 = u2
  Users <- MCUsers
  DeviceCount = 2
  MaxOpens = 2
  NoDev = NoDev
SYMMETRY UserSymmetry
SPECIFICATION Spec
\* A failed load and a finished unload are final states.
CHECK_DEADLOCK FALSE
INVARIANT ResourceNesting
INVARIANT UnwindComplete
