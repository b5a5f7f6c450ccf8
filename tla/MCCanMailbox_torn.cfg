SPECIFICATION MCSpec
CONSTANTS
  PayloadLength = 48
  MaxCalls = 2
  Buses = {"any"}
INVARIANT FramesWhole
