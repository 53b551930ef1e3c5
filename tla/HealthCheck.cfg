SPECIFICATION FairSpec
CONSTANTS
  Wanted = {1, 2, 3, 4}
  Bad = {3}
  MinInt32 <- Lowest
  MaxInt32 = 3
  BadTags <- NoBadTags
  Specs <- SomeSpecs
  TagLists <- TwoTagLists
  DefaultTags <- ControllerTags
  SystemTags <- StackTags
  AwsKeys <- AwsPrefixed
  CheckIds = {k1, k2, k3}
  NoCheck = NoCheck
  NoId = NoId
  MaxFailures = 1
  MaxLosses = 1
  MaxEdits = 2
  MaxMeddling = 1
INVARIANTS SyncedReflects Unmangled OneCheck Inv
PROPERTIES NoLostUpdate Managed Converges Deletes
CHECK_DEADLOCK FALSE
