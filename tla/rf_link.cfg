SPECIFICATION LiveSpec
CONSTANTS
  FifoSize = 2
  MaxChanges = 1
  MaxCommands = 3
  Reads = {"found"}
INVARIANTS TypeOK ExecutedOnce
PROPERTIES ReadReturns WriteReturns LatestReaches
CHECK_DEADLOCK FALSE
