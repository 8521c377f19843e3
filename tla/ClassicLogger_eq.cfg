SPECIFICATION Spec
CONSTANTS
  useRealEndAmps = TRUE
  LowBytes = {0}
INVARIANTS
  EQForced
