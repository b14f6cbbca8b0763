CONSTANTS
  Session = {s1, s2}
  Job = {j1, j2}
  Actor = {a1, a2}
  MaxSessions = 1
  InboxCapacity = 1
  Revocable = {s1}
  None = None
SPECIFICATION DrainingSpec
CHECK_DEADLOCK FALSE
INVARIANTS NoTurnLost TokenNamesTurnInFlight
PROPERTIES EveryTurnAnswered EveryActorReaped
\* These hold on this instance too:
\* INVARIANTS TypeOK Bounded EntryNamesLiveActor
