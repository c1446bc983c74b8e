CONSTANTS
  Readers = {r1, r2}
  LimitshareSize = 2
  Params <- RateParams
  MayUpdate = TRUE
  BufSize = 3
  CallerSize = 5
  Total = 4
  MaxClock = 1
  DefaultRate = 3
  DefaultBurst = 6
SYMMETRY Symmetry
SPECIFICATION Spec
INVARIANTS WithinBuffer
