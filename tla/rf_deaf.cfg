SPECIFICATION LiveSpec
CONSTANTS
  FifoSize = 3
  MaxChanges = 1
  MaxCommands = 1
  Reads = {}
PROPERTY LatestAlwaysReaches
CHECK_DEADLOCK FALSE
