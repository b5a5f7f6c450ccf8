SPECIFICATION MCSpec
CONSTANTS
  MinTicks = 2
  MaxTicks = 5
  SleepTicks = 6
  MaxPolls = 3
INVARIANTS
  TypeOK
  AdcInv
  ReadingsInOrder
PROPERTY ReadsEnd
