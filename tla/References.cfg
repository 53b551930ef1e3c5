SPECIFICATION FairSpec
CONSTANTS
  n1 = n1
  n2 = n2
  z1 = z1
  z2 = z2
  NoRef = NoRef
  EmptyRef = EmptyRef
  CheckRef = hc
  CheckIds = {h1, h2}
  NoId = NoId
  Absent = Absent
  ZoneRefs = {n1}
  ZoneIds = {z1, z2, z3}
  Targets <- ValidOrNot
  MaxFaults = 1
  MaxEdits = 3
  MaxRetargets = 0
  MaxMoves = 4
INVARIANTS Inv
PROPERTIES Managed WritesWhereAsked Converges Deletes
CHECK_DEADLOCK FALSE
