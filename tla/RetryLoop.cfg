\* Nine attempts: room for every order of transient and format failures.
CONSTANTS
  MaxAttempts = 9
  Attempts <- MCAttempts
SPECIFICATION LoopSpec
INVARIANTS AttemptsBounded ClassAgreesWithRetry
\* The loop ends.
CHECK_DEADLOCK FALSE
