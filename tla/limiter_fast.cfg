SPECIFICATION Spec
CONSTANTS
  Rps = 8
  TicksPerSecond = 3
  Waiters = {w1, w2}
  MaxTicks = 6
SYMMETRY Symmetry
INVARIANTS IInv RateIsRespected BurstIsBounded
