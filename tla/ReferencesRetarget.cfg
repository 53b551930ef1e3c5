SPECIFICATION Spec
CONSTANTS
  n1 = n1
  n2 = n2
  z1 = z1
  z2 = z2
  NoRef = NoRef
  EmptyRef = EmptyRef
  CheckRef = hc
  CheckIds = {h1, h2}
  NoId = NoId
  Absent = Absent
  ZoneRefs = {n1, n2}
  ZoneIds = {z1, z2}
  Targets <- ByReference
  MaxFaults = 0
  MaxEdits = 3
  MaxRetargets = 1
  MaxMoves = 2
INVARIANT NoOrphanedRecordSet
CHECK_DEADLOCK FALSE
