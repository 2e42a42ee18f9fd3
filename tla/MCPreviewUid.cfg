\* One Batch execution with fair maintenance: is the uid of its job recovered?
SPECIFICATION FairSpec
CONSTANTS
  Focus = {"executions"}
  Writers <- LogWriters
  Goal <- LogGoal
  Runs = {r1}
  MaxAttempts = 1
  SlotLimit = 1
  Files = {1, 2}
  MaxRecords = 1
  Tries = 1
PROPERTY
  UidRecovered
CHECK_DEADLOCK FALSE
