CONSTANTS
  Ticks = {t1, t2}
  Prs <- MCPrs
  Generated <- MCGenerated
  DailyCap = 3
  MaxAttempts = 2
  MaxVetoes = 2
  LockAttempts = 3
  Post = TRUE
  MaxFaults = 2
SPECIFICATION FairSpec
INVARIANTS SpendIsCounted AttemptsBounded
PROPERTIES EveryPrIsAttempted DeadDotIsAnswered
CHECK_DEADLOCK FALSE
