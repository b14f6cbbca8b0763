SPECIFICATION FairSpec
CONSTANTS
  t = t
  h = h
  Asker <- MCAsker
  Announced <- MCAnnounced
  NoAsker = none
  Turn = t
  Workers = 1
  MaxAsks = 2
  MaxResponds = 1
  Provider = {cloud, inhouse}
  House = {inhouse}
  Tool = {look, risk}
  Danger = {risk}
  Edits = {risk}
  Gated = {risk}
  Payment = {risk}
  Regulated = {look}
  Declared = {"open"}
  MaxIters = 2
  MaxRetries = 1
  MaxCalls = 2
CHECK_DEADLOCK FALSE
PROPERTY TurnEnds
