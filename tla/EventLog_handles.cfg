CONSTANTS
  Handle = {h1, h2}
  Faults = {"unread"}
  MaxAppends = 3
  MaxRestarts = 1
SPECIFICATION Spec
CHECK_DEADLOCK FALSE
\* Each of these is refuted on this instance: TLC stops at the first it is given.
INVARIANT SeqIncreases
\* INVARIANT HeadSurvivesRestart
