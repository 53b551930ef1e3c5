SPECIFICATION Spec
CONSTANTS
  Keys <- OnlyOne
  Own = 1
  Values = {v, w}
  Bad = {}
  Absent = Absent
  ChangeIds = {c1, c2, c3, c4}
  NoId = NoId
  ExtKeys = {}
  PreKeys = {}
  Adoption = {FALSE}
  MaxFaults = 1
  MaxEdits = 2
INVARIANT InsyncIsCurrent
CHECK_DEADLOCK FALSE
