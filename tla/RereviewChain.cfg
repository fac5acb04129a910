CONSTANTS
  i1 = i1
  i2 = i2
  i3 = i3
  f1 = f1
  Issues <- ChainIssues
  Near <- ChainNear
  Guarded <- NoIssues
  Unreadable <- NoIssues
  FileOf <- ChainFileOf
  Kinds <- OnlyBlocking
  Markers <- ChainMarker
  Tags <- NoTags
  MaxSurvivors = 2
  MaxPriors = 2
  MaxVerify = 1
  MaxId = 4
SPECIFICATION Spec
INVARIANT TypeOK
PROPERTIES GateCountsWhatIsOwed OnlyEvidenceClears NextGateOwesAsMuch IdsAreNeverReused PostedFindingsAreRows
CHECK_DEADLOCK FALSE
