CONSTANTS
    a1 = a1
    a2 = a2
    w1 = w1
    w2 = w2
    c1 = c1
    c2 = c2
    Runs <- TwoRuns
    ChatOf <- MCChatOf
    CommandMessageId <- MCCommandMessageId
    Workers <- TwoWorkers
    Crons = {}
    MaxClaims = 9
    MAX_ATTEMPTS = 2
    MAX_DELIVERY_ATTEMPTS = 1
    MaxFaults = 1
    MaxJobs = 1
SPECIFICATION PipelineSpec
INVARIANTS
    PipelineInv
PROPERTIES
    OutcomesInChatOrder
SYMMETRY WorkerSymmetry
CHECK_DEADLOCK FALSE
