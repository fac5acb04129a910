\* Three callers of one bucket and two of another: both the bucket ceiling
\* (2 < 3) and the global ceiling (3 < 2 + 2) bind.
CONSTANTS
  a1 = a1
  a2 = a2
  a3 = a3
  b1 = b1
  b2 = b2
  bktA = bktA
  bktB = bktB
  Buckets <- MCBuckets
  Steps <- MCSteps
  BucketOf <- MCBucketOf
  BucketCeiling = 2
  GlobalCeiling = 3
SPECIFICATION Spec
INVARIANTS SlotAccounting NoIdleCapacity
PROPERTIES ImplementsSlots
SYMMETRY Symmetry
