CONSTANTS
  Session = {s1, s2, s3}
  Job = {j1, j2, j3}
  Actor = {a1, a2, a3}
  MaxSessions = 2
  InboxCapacity = 2
  Revocable = {}
  None = None
SPECIFICATION Spec
CHECK_DEADLOCK FALSE
SYMMETRY Symmetry
INVARIANTS SerialPerSession TurnInFlightIsStoppable
PROPERTY ImplementsTurnService
\* These hold on this instance too:
\* INVARIANTS EveryTaskIsMapped
