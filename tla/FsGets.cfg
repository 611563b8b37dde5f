SPECIFICATION GetsSpec
CONSTANTS
  MaxSize = 5
  Lengths = {2, 3, 5, 8}
CHECK_DEADLOCK FALSE
INVARIANTS TextKept  
