SPECIFICATION Spec
CONSTANTS
  Runs = {r1, r2}
  NoRun = NoRun
  MaxGenerations = 2
  MaxWork = 1
  Stoppers = {s1, s2}
  Pollers = {p1}
INVARIANTS IInv NoOrphanEngine StopIsFinal FinalSnapshotIsFinal
PROPERTIES LifecycleSpec StopReturns StopEndsLoad CompletionIsReported
