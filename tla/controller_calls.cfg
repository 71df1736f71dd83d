SPECIFICATION Spec
CONSTANTS
  Callers = {c1, c2, c3}
  MaxRuns = 1
  MaxWork = 0
  Faults = {"compile", "engine", "batcher"}
INVARIANTS StopMeansStopped NoLostTransition
PROPERTIES CallsReturn FinishedRunIsReleased ParentEndsEverything
