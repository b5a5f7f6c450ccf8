SPECIFICATION PromptSpec
CONSTANTS
  ThreadCalls <- ThreadCallsDef
  IsrCalls <- IsrCallsDef
  AsyncCalls <- AsyncCallsDef
  Faults = {}
INVARIANT OutputsValid
