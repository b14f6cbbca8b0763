SPECIFICATION FairSpec
CONSTANTS
  t = t
  h = h
  Asker <- MCAsker
  Announced <- MCAnnounced
  NoAsker = none
  Turn = t
  Workers = 3
  MaxAsks = 1
  MaxResponds = 2
  Provider = {cloud, inhouse}
  House = {inhouse}
  Tool = {look, edit, risk}
  Danger = {edit, risk}
  Edits = {edit}
  Gated = {risk}
  Payment = {risk}
  Regulated = {look}
  Declared = {"open"}
  MaxIters = 2
  MaxRetries = 1
  MaxCalls = 2
PROPERTY StopBeatsApproval
CHECK_DEADLOCK FALSE
