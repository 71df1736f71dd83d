SPECIFICATION RunnerSpec
CONSTANTS
  Runner = runner
  Callers = {runner}
  MaxRuns = 1
  MaxWork = 1
  Faults = {"compile"}
INVARIANTS ReportMeansCompleted
CHECK_DEADLOCK FALSE
