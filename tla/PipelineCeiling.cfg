CONSTANT
  Configs <- MCConfigs
SPECIFICATION FairSpec
INVARIANTS TruncationIsTold NothingNewIsStarted UncheckedNeverBlocks
PROPERTIES FirstSnapshotStays ReturnedWithSnapshot AlwaysReturns
