SPECIFICATION FairLinkSpec
CONSTANTS
  Buttons = {176, 180}
  ButtonLabels = {176, 180}
  Levels = {5, 254}
  MaxSets = 2
  UpBound = 3
  MayMixKeys = FALSE
  MaySetDuringTick = FALSE
INVARIANTS
  LinkTypeOK
  ModeConverges
  ButtonsConverge
PROPERTIES
  LedsAreChannels
  HeldButtonSeen
  SetsArrive
