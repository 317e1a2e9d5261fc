SPECIFICATION FairPatchSpec
CONSTANTS
  r1 = r1  r2 = r2  v1 = v1  v2 = v2
  None = None
  Remotes <- MCRemotes
  Virtuals <- MCVirtuals
  KeyOrder <- MCKeyOrder
  MayDisconnectAll = TRUE
  MayRename = FALSE
  MayCrash = FALSE
PROPERTIES
  DisconnectRemoteCompletes
CHECK_DEADLOCK FALSE
