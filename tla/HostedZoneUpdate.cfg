SPECIFICATION FairSpec
CONSTANTS
  a = a
  b = b
  c = c
  d = d
  VPCs <- FourVPCs
  Taken <- Held
  Wishes <- AllWishes
  TagLists <- TwoTagLists
  DefaultTags <- ControllerTags
  SystemTags <- StackTags
  AwsKeys <- AwsPrefixed
  BadTags <- NoBadTags
  ZoneIds = {z1, z2}
  Renamed = FALSE
  NoZone = NoZone
  NoId = NoId
  MaxFailures = 1
  MaxLosses = 1
  MaxEdits = 2
  MaxMeddling = 0
INVARIANTS SyncedReflects
PROPERTIES RoundEnds NeverDetached Converges Deletes
CHECK_DEADLOCK FALSE
