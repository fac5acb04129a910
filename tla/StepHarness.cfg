\* Three steps that share slots and a metered bucket.
CONSTANTS
  m = m  f = f  d = d  bktA = bktA  bktB = bktB  NoKey = NoKey
  Steps <- MCSteps  Buckets <- MCBuckets  BucketOf <- MCBucketOf
  BucketCeiling = 1  GlobalCeiling = 2
  Billing <- MCBilling  ChargedTo <- MCChargedTo
  MaxAttempts <- MCMaxAttempts
  Causes <- MCCauses
  Gates = {TRUE, FALSE}
SPECIFICATION Spec
INVARIANTS LeaseCoversAttempt SpendIsOnTheBooks UnresolvedExposureBounded
PROPERTIES EveryStepEnds
\* The run ends when every step is done.
CHECK_DEADLOCK FALSE
