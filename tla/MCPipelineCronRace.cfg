CONSTANTS
    a1 = a1
    a2 = a2
    w1 = w1
    w2 = w2
    c1 = c1
    c2 = c2
    Runs <- OneRun
    ChatOf <- MCChatOf
    CommandMessageId <- OneCommandMessageId
    Workers <- OneWorker
    Crons <- TwoCrons
    MaxClaims = 9
    MAX_ATTEMPTS = 2
    MAX_DELIVERY_ATTEMPTS = 2
    MaxFaults = 0
    MaxJobs = 2
SPECIFICATION PipelineSpec
PROPERTIES
    PreparesOnlyStaleRuns
CHECK_DEADLOCK FALSE
