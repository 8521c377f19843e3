SPECIFICATION Spec
CONSTANTS
  timeout_sec = 2
  Lengths = {4, 9, 11}
  MaxCalls = 1
  MaxWait = 3
CHECK_DEADLOCK FALSE
INVARIANTS
  TimeoutHolds
