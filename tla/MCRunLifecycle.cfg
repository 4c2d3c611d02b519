CONSTANTS
    a1 = a1
    a2 = a2
    Runs <- MCRuns
    ChatOf <- MCChatOf
    CommandMessageId <- MCCommandMessageId
    MaxClaims = 4
SPECIFICATION LifecycleSpec
INVARIANTS
    LifecycleInv
PROPERTIES
    ContractSpec
CHECK_DEADLOCK FALSE
