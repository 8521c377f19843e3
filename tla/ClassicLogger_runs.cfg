SPECIFICATION FairSpec
CONSTANTS
  useRealEndAmps = TRUE
  LowBytes = {0, 9}
INVARIANTS
  TypeOK
  NoBlindCommand
PROPERTIES
  DSEQStarts
