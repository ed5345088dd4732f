SPECIFICATION LinkSpec
CONSTANTS
  MaxLinks = 2
  MaxEvents = 3
INVARIANT MemoryReplyToItsLink
INVARIANT EveryRequestAnswered
INVARIANT AsksBounded
INVARIANT ServedWhenEncrypted
PROPERTY ResetsOnlyTooLate
PROPERTY NegotiationEnds
