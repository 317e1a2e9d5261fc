SPECIFICATION FairSessionSpec
CONSTANTS
  StartHistPos <- MCStartHistPos
  MaxLine = 3
  MaxHistory = 2
  MaxShots = 2
INVARIANTS
  EditorInBounds
  VerboseFollowsMode
  LockCovered
PROPERTIES
  LockReleased
