SPECIFICATION MCSpec
CONSTANTS
  MinTicks = 2
  MaxTicks = 3
  SleepTicks = 4
  MaxPolls = 1
INVARIANT OwnChannel
