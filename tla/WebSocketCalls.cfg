SPECIFICATION ClientSpec
CONSTANTS
  Capacity = 4
  DataSize = 2
  NumCalls = 3
  NumNotices = 1
  Lengths <- LengthsDef
  MayTimeOut = TRUE
  MayEnd = TRUE
  Responses <- ResponsesDef
  BufSize = 4
  HeaderSize = 8
INVARIANTS
  ClientTypeOK
  OnlyReceivedBytes
  AnswersItsCall
  UpgradesCleanly
  ClientFaultsKnown
  IndInv
PROPERTIES
  EveryCallReturns
CHECK_DEADLOCK FALSE
