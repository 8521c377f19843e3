CONSTANTS
  p = 3
  MaxQueue = 3
SPECIFICATION FairSpec
INVARIANTS TypeOK HeatingFollows PumpFollows
PROPERTIES SwitchedByFresh RunEnds
