SPECIFICATION GroupSpec
CONSTANTS
  r1 = r1  r2 = r2  v1 = v1
  None = None
  NoRemote = NoRemote
  MaxAvatars = 3
  Remotes <- MCRemotes
  Virtuals <- MCVirtuals
  KeyOrder <- MCKeyOrder
  MayDisconnectAll = FALSE
  MayRename = FALSE
  MayCrash = TRUE
INVARIANTS
  GroupTypeOK
  SlavesFollowPatch
  AvatarsAsConfigured
PROPERTY
  RestartKeepsAvatars
