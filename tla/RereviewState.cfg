CONSTANTS
  i1 = i1
  i2 = i2
  i3 = i3
  f1 = f1
  Issues <- MCIssues
  Near <- MCNear
  Guarded <- MCGuarded
  Unreadable <- NoIssues
  FileOf <- MCFileOf
  Kinds <- MCKinds
  Markers <- MCMarkers
  Tags <- MCTags
  MaxSurvivors = 2
  MaxPriors = 2
  MaxVerify = 1
  MaxId = 3
SPECIFICATION Spec
INVARIANT TypeOK
PROPERTIES GateCountsWhatIsOwed OnlyEvidenceClears NextGateOwesAsMuch IdsAreNeverReused PostedFindingsAreRows
CHECK_DEADLOCK FALSE
