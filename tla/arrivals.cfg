SPECIFICATION Spec
CONSTANTS
  PreAllocatedVUs = 1
  MaxVUs = 2
  Total = 4
INVARIANTS ArrivalsAccounted HandoffNeverBlocks
PROPERTIES DropsOnlyAtCapacity DrainCutsNothing EngineEnds
CHECK_DEADLOCK FALSE
