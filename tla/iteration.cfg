SPECIFICATION Spec
CONSTANTS
  Requests <- MCRequests
  MaxIterations = 2
  MaxShards = 4
INVARIANTS RoutesNest BoundIsEnough AssertionsAreFresh  ShardsAgree
CHECK_DEADLOCK FALSE
