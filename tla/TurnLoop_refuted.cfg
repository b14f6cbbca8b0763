CONSTANTS
  t = t
  h = h
  Asker <- MCAsker
  Announced <- MCAnnounced
  NoAsker = none
  Turn = t
  Workers = 2
  MaxAsks = 1
  MaxResponds = 2
  Provider = {cloud, inhouse}
  House = {inhouse}
  Tool = {look, edit, risk}
  Danger = {edit, risk}
  Edits = {edit}
  Gated = {risk}
  Payment = {risk}
  Regulated = {look}
  Declared = {"open"}
  MaxIters = 2
  MaxRetries = 1
  MaxCalls = 2
SPECIFICATION Spec
CHECK_DEADLOCK FALSE
\* Each of these is refuted on this instance: TLC stops at the first it is given.
INVARIANT NothingLate
\* INVARIANT DroppedIsReported
\* INVARIANT EndIsOnWire
\* INVARIANT EndIsAudited
\* INVARIANT AnswersItsOwn
\* INVARIANT AcceptedIsHeeded
\* INVARIANT WorkerLeft
