SPECIFICATION Spec
CONSTANTS
  MAX_BUFFER_ENTRIES = 2
  PatternLen = 2
  TxPackets = 1
  MaxEvents = 1
  None = None
  Junk = Junk
  Byte <- Bits
  KeyPatterns <- BothOrNone
  Released <- NoKey
  ProtocolMode = FALSE
  BatteryNotifies = TRUE
INVARIANT TypeOK
INVARIANT CountInRange
INVARIANT NullReadOnlyAfterLap
INVARIANT HostConverges
INVARIANT ListInOrder
PROPERTY ReportsAreCurrent
