SPECIFICATION FairSpec
CONSTANTS
  x = x
  y = y
  b1 = b1
  b2 = b2
  None = None
  NWarps = 4
  Programs <- Kernels
  Regs = {x, y}
  Barriers = {b1, b2}
  AluWidth = 2
  MemWidth = 2
CHECK_DEADLOCK FALSE
INVARIANTS ScoreboardExact InFlightAccounted FetchMatchesPc BarrierHolds
PROPERTIES CtasComplete
