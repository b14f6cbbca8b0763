SPECIFICATION FairSpec
CONSTANTS
  t = t
  h = h
  Asker <- MCAsker
  Announced <- MCAnnounced
  NoAsker = none
  Turn = t
  Workers = 2
  MaxAsks = 1
  MaxResponds = 2
  Provider = {cloud, inhouse}
  House = {inhouse}
  Tool = {look, edit, risk}
  Danger = {edit, risk}
  Edits = {edit}
  Gated = {risk}
  Payment = {risk}
  Regulated = {look}
  Declared = {"open"}
  MaxIters = 2
  MaxRetries = 1
  MaxCalls = 2
CHECK_DEADLOCK FALSE
INVARIANTS EveryCallAnswered GatedNeedsYes RegulatedStaysHome LateIsOneOfEach AnswerClearsOne
PROPERTIES ImplementsTurnContract TaintIsHeeded TurnEnds
\* These hold on this instance too:
\* INVARIANTS TypeOK ResultsInOrder EditsInOrder OneVoice
\* With Workers = 3 no interleaving waits for a worker, and all but TurnEnds say the same.
