SPECIFICATION FairXSpec
CONSTANTS
  timeout_sec = 2
  Lengths = {4, 8, 11, 13}
  MaxCalls = 2
  MaxWait = 3
  unitId = 1
  Endianness = 0
  Operations <- MCOperations
  Coils = {0, 1, 2, 3, 4, 5, 6, 7, 8, 9}
  Registers = {0, 1, 2}
CHECK_DEADLOCK FALSE
INVARIANTS
  TypeOK
  SuccessIsOwn
  WaitBounded
  ReadsRight
  ValuesReturn
  RequestsUnderstood
  ConfirmedInOrder
PROPERTIES
  WritesLand
  ImplementsAccess
  WaitEnds
