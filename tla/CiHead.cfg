CONSTANTS
  Jobs = {j1, j2}
  NoJob = NoJob
  Kinds = {"push", "comment"}
  MaxForced = 1
  MaxEvents = 3
SYMMETRY Symmetry
SPECIFICATION Spec
INVARIANT SpendingIsSeen
PROPERTIES OverrideHolds PendingIsAnswered GreenIsDelivered RowIsSettled
