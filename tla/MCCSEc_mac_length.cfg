SPECIFICATION MCSpec
CONSTANTS
  Clients = {"free"}
  CbcPages = {}
  MacBytes = {8191, 8192}
  MaxPages = 8
  Sizes = {16}
  MaxCalls = 2
  Programs <- MCPrograms
  PlainKey <- Key
  ZeroPage <- MCBlank
  Page <- MCPage
  RandomPage <- Random
  Cipher <- MCCipher
  Cmac <- MCCmac
  VerifyPass <- MCPass
  VerifyFail <- MCFail
  NoKey <- MCNoKey
  Blank <- MCBlank
  Calls <- MCCalls
  Faults = {}
INVARIANT LengthAnnounced
