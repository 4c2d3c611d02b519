CONSTANTS MaxText = 2  MaxChunks = 2  MaxLines = 2  MaxBeats = 2
SPECIFICATION FairAttemptSpec
INVARIANTS SessionInv EvidenceIsTrue ChatAgrees ResultUnderLease OverIsQuiet RetryableIsRetried
PROPERTIES AttemptEnds
CHECK_DEADLOCK FALSE
