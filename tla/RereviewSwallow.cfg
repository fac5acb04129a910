CONSTANTS
  i1 = i1
  i2 = i2
  i3 = i3
  f1 = f1
  Issues <- MCIssues
  Near <- MCNear
  Guarded <- MCGuarded
  Unreadable <- NoIssues
  FileOf <- MCFileOf
  Kinds <- OnlyBlocking
  Markers <- AdvisoryMarker
  Tags <- TagUpheld
  MaxSurvivors = 1
  MaxPriors = 2
  MaxVerify = 1
  MaxId = 2
SPECIFICATION Spec
PROPERTY SuppressedNeverSwallows
CHECK_DEADLOCK FALSE
