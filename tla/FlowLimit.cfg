CONSTANTS
  Readers = {r1, r2}
  LimitshareSize = 2
  Params <- BurstParams
  MayUpdate = TRUE
  BufSize = 3
  CallerSize = 5
  Total = 3
  MaxClock = 1
  DefaultRate = 3
  DefaultBurst = 6
SPECIFICATION BurstSpec
INVARIANTS TwoBursts StreamIntact NoOverdraft
PROPERTIES BufferDrains
