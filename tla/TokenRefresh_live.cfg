CONSTANTS
  Caller = {c1, c2}
  LockTtl = 2
  Rotating = TRUE
  MaxGen = 2
  MaxCalls = 4
  MaxFaults = 2
SPECIFICATION FairSpec
CHECK_DEADLOCK FALSE
INVARIANTS TypeOK OneRefreshPerToken FreshIsNotRefreshed UserStaysLoggedIn
PROPERTIES OnlyHolderReleases CallReturns LockComesFree
