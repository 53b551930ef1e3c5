SPECIFICATION Spec
CONSTANTS
  a = a
  b = b
  c = c
  d = d
  VPCs <- TwoVPCs
  Taken <- NoVPC
  Wishes <- FewWishes
  TagLists <- TwoTagLists
  DefaultTags <- ControllerTags
  SystemTags <- StackTags
  AwsKeys <- AwsPrefixed
  BadTags <- NoBadTags
  ZoneIds = {z1, z2, z3}
  Renamed = TRUE
  NoZone = NoZone
  NoId = NoId
  MaxFailures = 1
  MaxLosses = 1
  MaxEdits = 3
  MaxMeddling = 1
SYMMETRY ZoneSymmetry
INVARIANTS Inv OneZone ZoneIsManaged SystemTagsUntouched
PROPERTIES KeptTagsStay Managed
CHECK_DEADLOCK FALSE
