CONSTANTS
  Runner = {r1, r2}
  Steps = 3
  MaxAttempts = 3
  MaxRunCrashes = 1
SPECIFICATION SagaSpec
CHECK_DEADLOCK FALSE
INVARIANTS StepAtMostOnce OnlyAppliedIsUndone FirstRunIsExact
\* These hold on this instance too:
\* INVARIANTS SagaTypeOK InOrder
