CONSTANTS
    a1 = a1
    a2 = a2
    w1 = w1
    w2 = w2
    c1 = c1
    c2 = c2
    Runs <- OneRun
    ChatOf <- MCChatOf
    CommandMessageId <- OneCommandMessageId
    Workers <- TwoWorkers
    Crons <- OneCron
    MaxClaims = 9
    MAX_ATTEMPTS = 1
    MAX_DELIVERY_ATTEMPTS = 1
    MaxFaults = 1
    MaxJobs = 2
SPECIFICATION PipelineSpec
INVARIANTS
    NoSendAboveBudget
CHECK_DEADLOCK FALSE
