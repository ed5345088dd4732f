SPECIFICATION ControllerSpec
CONSTANTS
  w1 = w1
  w2 = w2
  Words <- TwoWords
  FifoSize = 3
  MaxOnLine = 2
INVARIANT TypeOK
INVARIANT NothingMissed
INVARIANT WordsWhole
INVARIANT ReceivesLastWord
PROPERTY WordsArrive
PROPERTY StartsUp
