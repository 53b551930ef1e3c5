SPECIFICATION FairSpec
CONSTANTS
  Workers = {w1, w2}
  Targets <- TwoRoles
  NoManager = NoManager
  NoWorker = NoWorker
INVARIANTS OwnManager BuiltOnce Inv
PROPERTIES Returns
