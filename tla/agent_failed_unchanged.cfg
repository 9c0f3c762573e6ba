SPECIFICATION Spec
CONSTANTS
  Requests <- MCRequests
  Limits <- MCLimits
  NoRequest = NoRequest
  NoDecision = NoDecision
  NoReport = NoReport
  PlannerCalls = 2
  EvaluatorCalls = 2
INVARIANT FailedRunSavesNothing
CHECK_DEADLOCK FALSE
