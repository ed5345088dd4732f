SPECIFICATION Spec
CONSTANTS
  MAX_BUFFER_ENTRIES = 5
  PatternLen = 2
  TxPackets = 1
  MaxEvents = 2
  None = None
  Junk = Junk
  Byte <- Bits
  KeyPatterns <- BothOrNone
  Released <- NoKey
  ProtocolMode = FALSE
  BatteryNotifies = FALSE
PROPERTY DisconnectDropsAll
