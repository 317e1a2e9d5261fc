SPECIFICATION RoutingSpec
CONSTANTS
  r1 = r1  r2 = r2  v1 = v1  v2 = v2
  None = None
  Remotes <- MCRemotes
  Present <- MCPresent
  Virtuals <- MCVirtuals
  KeyOrder <- MCKeyOrder
  MayDisconnectAll = TRUE
  MayRename = TRUE
  MayCrash = TRUE
SYMMETRY VirtualSymmetry
INVARIANTS
  LinksInverse
  NoDoubleLink
  
  ShowsRemote
CHECK_DEADLOCK FALSE
