SPECIFICATION EventsSpec
CONSTANTS
  mp = mp  mq = mq  key = key  p = p  q = q
  None = None  NoEntry = NoEntry
  Triggers = {any, down}
  MidiDefs <- MCMidiDefs
  KeyDefs = {key}
  PortNames = {p, q}
  PortOf <- MCPortOf
  Devices = {d1, d2}
  MaxOpens = 3
  MaxSaved = 2
INVARIANTS
  RegisteredIffMidi
  EventsFollowPorts
  EventsSaved
