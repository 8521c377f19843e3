SPECIFICATION FairSpec
CONSTANTS
  DeviceCount = 2
  ChannelCount = 2
  MaxTurns = 3
  MaxRows = 4
INVARIANTS
  TypeOK
  RowsUnmixed
  NoRowPastFailure
  HandlesCurrent
  NeverShutsDown
PROPERTIES
  ImplementsSampleLog
  LossIsRecovered
  TurnsGoOn
