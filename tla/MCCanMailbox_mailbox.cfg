SPECIFICATION MCSpec
CONSTANTS
  PayloadLength = 6
  MaxCalls = 3
  Buses = {"prompt", "any"}
INVARIANTS
  TypeOK
  MailboxInv
  AdjacentPayloads
PROPERTY ChannelSpec
