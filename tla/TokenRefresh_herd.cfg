CONSTANTS
  Caller = {c1, c2, c3}
  LockTtl = 2
  Rotating = TRUE
  MaxGen = 2
  MaxCalls = 3
  MaxFaults = 1
SPECIFICATION FairSpec
CHECK_DEADLOCK FALSE
INVARIANT OneRefreshPerToken
PROPERTY CallReturns
\* These hold on this instance too:
\* INVARIANTS TypeOK FreshIsNotRefreshed UserStaysLoggedIn
\* PROPERTIES OnlyHolderReleases LockComesFree
