CONSTANTS
  Node = {n1, n2, n3}
  Sweeper = {n1, n2, n3}
  Probe = "manual"
  MinAge = 1
  LeaseTtl = 1
  LostWrites = {"commit", "fail", "manual", "query"}
  MaxCalls = 2
  MaxCrashes = 2
SPECIFICATION Spec
CHECK_DEADLOCK FALSE
SYMMETRY Symmetry
INVARIANT AtMostOnce
PROPERTY CommittedIsTerminal
\* These hold on this instance too:
\* INVARIANTS TypeOK OneOwner ReclaimIsSafe
