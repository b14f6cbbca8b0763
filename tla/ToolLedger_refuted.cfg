CONSTANTS
  Node = {n1, n2}
  Sweeper = {n1, n2}
  Probe = "snapshot"
  MinAge = 1
  LeaseTtl = 1
  LostWrites = {}
  MaxCalls = 2
  MaxCrashes = 1
SPECIFICATION Spec
CHECK_DEADLOCK FALSE
\* Each of these is refuted on this instance: TLC stops at the first it is given.
INVARIANT AtMostOnce
\* PROPERTY CommittedIsTerminal
\* PROPERTY ManualIsTerminal
\* INVARIANT OneIncidentPerClaim
\* INVARIANT EscalationIsLoud
