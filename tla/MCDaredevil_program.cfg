SPECIFICATION MCSpec
CONSTANTS
  MinTicks = 2
  MaxTicks = 3
  SleepTicks = 3
  Page <- MCPage
  RandomPage <- MCRandomPage
  Cipher <- MCCipher
  Cmac <- MCCmac
  VerifyPass <- MCPass
  VerifyFail <- MCFail
  NoKey <- MCNoKey
  Calls <- MCCalls
  PLAINKEY <- MCPlainKey
  ZeroPage <- MCZeroPage
  DataPage <- MCDataPage
  BytesOf <- MCBytesOf
  Converted <- MCConverted
  MaxPolls = 3
  Draws = {1, 2}
  Faults = {2, 3}
INVARIANTS
  TypeOK
  HaltsOnFaultOnly
PROPERTY FeedSpec
