SPECIFICATION RunnerSpec
CONSTANTS
  Runner = runner
  Callers = {runner}
  MaxRuns = 1
  MaxWork = 2
  Faults = {"compile"}
INVARIANTS ReportFollowsRun FailureLeavesNothing
PROPERTIES RunReturns
CHECK_DEADLOCK FALSE
