SPECIFICATION LiveSpec
CONSTANTS
  x = x
  y = y
  z = z
  Convs <- MCConvs
  ApiOf <- MCApis
  MaxPos = 2
  MaxQueue = 2
  MaxFiles = 1
  Nobody = Nobody
  Mixed = Mixed
CONSTRAINT OneWaitsOnceAliased
SYMMETRY Swapped
INVARIANTS
  ServedFromOwnHistory
  TailServedLive
  PromptAnswerAccepted
