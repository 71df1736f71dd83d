SPECIFICATION Spec
CONSTANTS
  Workers = {w1, w2}
  Cells = {"total", "success"}
  MaxRecords = 1
  Faults = {"lost", "restart", "refused"}
  MaxFaults = 1
  MaxPolls = 1
SYMMETRY Symmetry
INVARIANTS FailedStartIsUndone
PROPERTIES TotalsNeverDecrease CompleteResultIsExact StopIsReported
CHECK_DEADLOCK FALSE
