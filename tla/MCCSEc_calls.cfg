SPECIFICATION MCSpec
CONSTANTS
  Clients = {"free", "program"}
  CbcPages = {0, 1, 5, 6, 7, 13, 14}
  MacBytes = {0, 1, 16, 80, 81, 96, 97, 112, 113, 192, 193, 208, 224}
  MaxPages = 14
  Sizes = {16, 80, 96, 112, 160, 208, 224}
  MaxCalls = 3
  Programs <- MCPrograms
  PlainKey <- Key
  ZeroPage <- MCBlank
  Page <- MCPage
  RandomPage <- Random
  Cipher <- MCCipher
  Cmac <- MCCmac
  VerifyPass <- MCPass
  VerifyFail <- MCFail
  NoKey <- MCNoKey
  Blank <- MCBlank
  Calls <- MCCalls
  Faults = {2048, 3}
INVARIANTS
  TypeOK
  Inductive
  InStep
  OutputIsPrefix
  StackBounded
PROPERTIES
  ServiceSpec
  CallsReturn
  ProgramsReachLed
