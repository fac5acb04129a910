CONSTANTS
  i1 = i1
  i2 = i2
  i3 = i3
  f1 = f1
  Issues <- MCIssues
  Near <- MCNear
  Guarded <- MCGuarded
  Unreadable <- NoIssues
  FileOf <- MCFileOf
  Kinds <- OnlyAdvisory
  Markers <- BlockingMarker
  Tags <- NoTags
  MaxSurvivors = 1
  MaxPriors = 2
  MaxVerify = 1
  MaxId = 3
SPECIFICATION Spec
INVARIANT RefutedIsGone
CHECK_DEADLOCK FALSE
