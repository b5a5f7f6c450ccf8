SPECIFICATION FairSpec
CONSTANT MaxLatency = 12
INVARIANTS
  TypeOK
  CanOnPll
  ConfiguredFrozen
  ReadyWhenStarted
  OscillatorFirst
PROPERTY InitReturns
