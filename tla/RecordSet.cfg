SPECIFICATION Spec
CONSTANTS
  Keys <- ZeroOneNext
  Own = 1
  Values = {v, w, x}
  Bad = {x}
  Absent = Absent
  ChangeIds = {c1, c2, c3, c4}
  NoId = NoId
  ExtKeys <- ZeroOneNext
  PreKeys = {}
  Adoption = {TRUE, FALSE}
  MaxFaults = 2
  MaxEdits = 3
INVARIANTS SyncedReflects NoOrphan SettledForGood SyncedIsSettled Inv
PROPERTIES WritesAreManaged DeletesOnlyOwn Managed
CHECK_DEADLOCK FALSE
