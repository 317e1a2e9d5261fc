SPECIFICATION DriverSpec
CONSTANTS
  MaxFrameLen = 6
  Values = {126}
  Noise = {0, 126, 172}
  MaxFaults = 1
  MaxStatus = 1
  MaxAsked = 5
INVARIANTS
  DriverTypeOK
  
  NothingLostOnGoodLine

  
CHECK_DEADLOCK FALSE
