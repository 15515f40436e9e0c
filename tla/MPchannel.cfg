SPECIFICATION FairSpec
CONSTANTS
  b1 = b1
  b2 = b2
  row0 = row0
  row1 = row1
  None = None
  NRequests = 5
  SubOf <- SubOfFive
  Kind <- KindOfFive
  BankOf <- BankOfFive
  RowOf <- RowOfFive
  NSub = 2
  Banks = {b1, b2}
  Rows = {row0, row1}
  FirstRow = row0
  IcntL2Size = 4
  L2DramSize = 1
  DramL2Size = 1
  L2IcntSize = 1
  SchedSize = 2
  ReturnSize = 1
  WriteSize = 2
  HighWatermark = 2
  LowWatermark = 1
  RwqSize = 1
  Simple = {TRUE, FALSE}
  Separate = {TRUE, FALSE}
INVARIANTS TypeOK CreditsMatch BusyCoversRequests SchedulerHasRoom SameRowInOrder
PROPERTIES RequestsAnswered
