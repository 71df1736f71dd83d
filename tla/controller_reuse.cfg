SPECIFICATION Spec
CONSTANTS
  Callers = {c1, c2}
  MaxRuns = 2
  MaxWork = 1
  Faults = {"compile"}
SYMMETRY Symmetry
INVARIANTS NothingRunsUnowned LastBatchIsFinal
