CONSTANTS
  Node = {n1}
  Sweeper = {}
  Probe = "snapshot"
  MinAge = 0
  LeaseTtl = 0
  LostWrites = {"claim"}
  MaxCalls = 2
  MaxCrashes = 1
SPECIFICATION Spec
CHECK_DEADLOCK FALSE
INVARIANT AtMostOnce
