SPECIFICATION RunnerSpec
CONSTANTS
  Runner = runner
  Callers = {runner}
  MaxRuns = 1
  MaxWork = 2
  Faults = {"compile"}
INVARIANTS ReportIsExact
CHECK_DEADLOCK FALSE
