CONSTANTS
  Caller = {c1, c2}
  LockTtl = 1
  Rotating = TRUE
  MaxGen = 1
  MaxCalls = 2
  MaxFaults = 0
SPECIFICATION Spec
CHECK_DEADLOCK FALSE
\* Each of these is refuted on this instance: TLC stops at the first it is given.
INVARIANT OneRefreshAlways
\* INVARIANT LoggedInAlways
