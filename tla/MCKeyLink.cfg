SPECIFICATION Spec
CONSTANTS
  MAX_BUFFER_ENTRIES = 1
  PatternLen = 2
  TxPackets = 2
  MaxEvents = 3
  None = None
  Junk = Junk
  Byte <- Bits
  KeyPatterns <- BothOrNone
  Released <- NoKey
  ProtocolMode = TRUE
  BatteryNotifies = TRUE
INVARIANT NoStrandedKeys
INVARIANT HandlesFollowLink
PROPERTY ResetsOnlyOnLoss
