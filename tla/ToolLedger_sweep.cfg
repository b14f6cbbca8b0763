CONSTANTS
  Node = {n1, n2}
  Sweeper = {n1, n2}
  Probe = "snapshot"
  MinAge = 1
  LeaseTtl = 1
  LostWrites = {"claim"}
  MaxCalls = 2
  MaxCrashes = 1
SPECIFICATION FairSpec
CHECK_DEADLOCK FALSE
INVARIANT CommittedHasEffect
PROPERTY PendingResolved
