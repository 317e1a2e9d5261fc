SPECIFICATION FirmwareSpec
CONSTANTS
  Buttons = {176, 177, 178, 179, 180}
INVARIANTS
  TxInBounds
