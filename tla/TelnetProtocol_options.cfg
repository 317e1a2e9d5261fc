SPECIFICATION ProtocolSpec
CONSTANTS
  BufferLimit = 1
  UpBound = 1
  Typed = {65, 255}
  MaxTyped = 2
  MaxRequests = 1
  MaxSub = 1
  MaxToggles = 2
INVARIANTS
  
  OptionsAgree
  EchoFollowsCLI
PROPERTIES
  NegotiationEnds
CHECK_DEADLOCK FALSE
