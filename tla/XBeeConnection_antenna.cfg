SPECIFICATION ConnectionSpec
CONSTANTS
  Ports = {p1, p2}
  NoPort = NoPort
  MaxSets = 2
  MaxPlugs = 2
PROPERTIES
  AntennaFound
  LossNoticed
CHECK_DEADLOCK FALSE
