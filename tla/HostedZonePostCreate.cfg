SPECIFICATION Spec
CONSTANTS
  a = a
  b = b
  c = c
  d = d
  VPCs <- TwoVPCs
  Taken <- NoVPC
  Wishes <- FewWishes
  TagLists <- TwoTagLists
  DefaultTags <- ControllerTags
  SystemTags <- StackTags
  AwsKeys <- AwsPrefixed
  BadTags <- NewTagBad
  ZoneIds = {z1, z2}
  Renamed = TRUE
  NoZone = NoZone
  NoId = NoId
  MaxFailures = 0
  MaxLosses = 0
  MaxEdits = 1
  MaxMeddling = 0
PROPERTIES PostCreateMarked
CHECK_DEADLOCK FALSE
