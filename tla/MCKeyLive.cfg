SPECIFICATION LiveSpec
CONSTANTS
  MAX_BUFFER_ENTRIES = 1
  PatternLen = 2
  TxPackets = 1
  MaxEvents = 1
  None = None
  Junk = Junk
  Byte <- Bits
  KeyPatterns <- BothOrNone
  Released <- NoKey
  ProtocolMode = FALSE
  BatteryNotifies = FALSE
PROPERTY KeysReachHost
