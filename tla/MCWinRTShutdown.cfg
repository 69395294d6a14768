\* main cancels its sessions, waits for them and leaves.
CONSTANTS
  s1 = s1
  s2 = s2
  Head = Head
  Sessions <- MCSessions
SPECIFICATION Spec
INVARIANT PoolOutlivesSessions
CHECK_DEADLOCK FALSE
