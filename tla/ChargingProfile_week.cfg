CONSTANTS
  DAYSBETWEENSHORTEQ = 2
  DAYSBETWEENABSBORB = 1
  Parts = 3
  Ten = 1
  MaxTime = 18
SPECIFICATION Spec
INVARIANT TypeOK
PROPERTIES ShortEQSpaced FloatEarned
