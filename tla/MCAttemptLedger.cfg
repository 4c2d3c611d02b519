SPECIFICATION LedgerSpec
CONSTANTS
  Messages <- MCMessages
  Sent <- MCSent
  Parent <- MCParent
  Blank <- MCBlank
  MaxMessages = 1
  Day = 7
  Null = Null
  Commands <- MCCommands
  MaxAttempts = 2
  MaxLapses = 1
CONSTRAINT OneOther
INVARIANTS LedgerInv NothingPassedOver
PROPERTIES BoundaryMonotone ConsumptionSpec
CHECK_DEADLOCK FALSE
