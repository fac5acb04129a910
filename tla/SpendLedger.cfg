\* Three reservations over two buckets: two can share a bucket, so a fence can
\* fall while a sibling of the bucket is still open.
CONSTANTS
  Ids = {r1, r2, r3}
  SpendBuckets = {metered, free}
  Keys = {finalize, release}
  NoKey = NoKey
SPECIFICATION Spec
INVARIANTS FencedIffUnresolved
PROPERTIES TerminalIsFinal FenceIsForTheRun
