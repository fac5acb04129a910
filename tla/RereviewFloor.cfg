CONSTANTS
  i1 = i1
  i2 = i2
  i3 = i3
  f1 = f1
  Issues <- MCIssues
  Near <- MCNear
  Guarded <- MCGuarded
  Unreadable <- FirstIssue
  FileOf <- MCFileOf
  Kinds <- HiddenKinds
  Markers <- MCMarkers
  Tags <- MCTags
  MaxSurvivors = 2
  MaxPriors = 2
  MaxVerify = 1
  MaxId = 3
SPECIFICATION Spec
PROPERTY NextGateOwesAsMuch
CHECK_DEADLOCK FALSE
