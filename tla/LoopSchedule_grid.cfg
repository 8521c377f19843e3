SPECIFICATION Spec
CONSTANTS
  requestedInterval = 3
  DayLength = 8
  MaxTime = 22
INVARIANTS
  TypeOK
  OnGrid
PROPERTIES
  NeverEarly
