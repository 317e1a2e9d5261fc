SPECIFICATION FairRadioSpec
CONSTANTS
  TableSize = 2
  Commands = {"ND", "DH", "DL", "AT"}
  Local = Local
  Nobody = Nobody
  MACs = {m1, m2}
  Devices = {m1, m2}
  Loaded = {}
  MaxSets = 1
  MaxClient = 1
  MaxAdds = 2
  MayRace = FALSE
INVARIANTS
  AnswersReachAsker
  
  ScanStaysAlive
  CachedWhileUnmoved
PROPERTIES
  CommandsGetThrough
  
CHECK_DEADLOCK FALSE
