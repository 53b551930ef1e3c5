SPECIFICATION Spec
CONSTANTS
  Keys <- SimpleAndOne
  Own = 0
  Values = {v, w, x}
  Bad = {x}
  Absent = Absent
  ChangeIds = {c1, c2, c3, c4}
  NoId = NoId
  ExtKeys <- SimpleAndOne
  PreKeys = {}
  Adoption = {FALSE}
  MaxFaults = 0
  MaxEdits = 4
PROPERTY DeletesOnlyOwn
CHECK_DEADLOCK FALSE
