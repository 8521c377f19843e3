SPECIFICATION Spec
CONSTANTS
  DriverCount = 2
  MaxArrayLen = 2
  DeviceCounts <- MCDeviceCounts
INVARIANTS
  TypeOK
  LoggingReady
  RootRemovable
  OnlyHalfSetupIsFatal
