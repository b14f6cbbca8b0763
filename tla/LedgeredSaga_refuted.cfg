CONSTANTS
  Runner = {r1}
  Steps = 2
  MaxAttempts = 2
  MaxRunCrashes = 1
SPECIFICATION SagaSpec
CHECK_DEADLOCK FALSE
\* Each of these is refuted on this instance: TLC stops at the first it is given.
INVARIANT CompletedIsApplied
\* INVARIANT WorldRestored
