CONSTANTS
  Handle = {h1}
  Faults = {"refused", "torn", "split", "unended", "unread"}
  MaxAppends = 6
  MaxRestarts = 3
SPECIFICATION Spec
CHECK_DEADLOCK FALSE
INVARIANTS ChainVerifies AcknowledgedKept
\* These hold on this instance too:
\* INVARIANTS TypeOK SeqIncreases
\* PROPERTIES AcknowledgedStays
