\* Every component of MCPreviews, with crashes, outages and lost answers.
SPECIFICATION Spec
CONSTANTS
  Focus = {"log", "executions", "writes", "journals"}
  Writers <- LogWriters
  Goal <- LogGoal
  Runs = {r1}
  MaxAttempts = 2
  SlotLimit = 1
  Files = {1, 2}
  MaxRecords = 2
  Tries = 3
INVARIANTS
  JournalSound
  ExecutionsSound
  WritesSound
  ServedIsWhole
  JournalsSound
PROPERTIES
  ImplementsAtomicRegister
  TombstoneIsFinal
  RecoveryIsComplete
CHECK_DEADLOCK FALSE
