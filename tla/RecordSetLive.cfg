SPECIFICATION FairSpec
CONSTANTS
  Keys <- OnlyOne
  Own = 1
  Values = {v, x}
  Bad = {x}
  Absent = Absent
  ChangeIds = {c1, c2, c3, c4}
  NoId = NoId
  ExtKeys = {}
  PreKeys = {1}
  Adoption = {TRUE, FALSE}
  MaxFaults = 2
  MaxEdits = 3
PROPERTIES Converges Deletes
CHECK_DEADLOCK FALSE
