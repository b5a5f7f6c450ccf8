SPECIFICATION Spec
CONSTANTS
  ThreadCalls <- ThreadCallsDef
  IsrCalls <- IsrCallsDef
  AsyncCalls <- AsyncCallsDef
  Faults = {"GENERAL_ERROR"}
INVARIANTS
  TypeOK
  HandlerOwnsAsync
  EngineInStep
  SequenceErrorsExplained
  OutputsComplete
  AsyncStatusRight
  DrvInv
