SPECIFICATION FairSpec
CONSTANTS
  HALF = 8
  PERIOD = 5
  MAX_RELOAD = 3
  MaxLag = 7
  Fallible = TRUE
INVARIANTS
  TypeOK
  ArmedInTime
PROPERTY PeriodicSpec
