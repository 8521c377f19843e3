CONSTANTS
  Volts = {620, 625}
  Times = {1, 2}
  Amps = {40}
  Counts = {0, 1, 3}
SPECIFICATION Spec
INVARIANTS TypeOK ChargeEnded
PROPERTY EQForcedSafely
