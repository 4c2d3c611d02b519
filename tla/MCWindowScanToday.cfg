SPECIFICATION MCSpec
CONSTANTS
  Messages <- MCMessages
  Sent <- MCSent
  Parent <- MCParent
  Blank <- MCBlank
  MaxMessages = 4
  Day = 5
  Null = Null
  Absent = Absent
  Batches <- MCBatches
  MaxDeliveries = 2
  Histories <- MCHistories
  Commands <- MCCommands
  Checkpoints <- MCCheckpoints
INVARIANTS TodayStartsAtMidnight
CHECK_DEADLOCK FALSE
