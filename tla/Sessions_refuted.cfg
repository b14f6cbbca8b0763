CONSTANTS
  Session = {s1}
  Job = {j1, j2}
  Actor = {a1, a2}
  MaxSessions = 1
  InboxCapacity = 1
  Revocable = {s1}
  None = None
SPECIFICATION FairSpec
CHECK_DEADLOCK FALSE
\* Each of these is refuted on this instance: TLC stops at the first it is given.
INVARIANT SerialPerSession
\* PROPERTY EntryRemovedOnce
\* PROPERTY TurnNeverPinsActor
