SPECIFICATION Spec
CONSTANTS
  DeviceCount = 2
  ChannelCount = 2
  MaxTurns = 2
  MaxRows = 3
PROPERTIES
  EveryPassStored
