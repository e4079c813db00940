CONSTANTS
  N = 3
  MaxLen = 2
  MaxIsr = 1
  MaxBytes = 5
SPECIFICATION FairSpec
INVARIANTS TypeOK mInOrder uInOrder mNoStall uNoStall
PROPERTY AllSent
CHECK_DEADLOCK FALSE
