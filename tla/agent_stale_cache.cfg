SPECIFICATION Spec
CONSTANTS
  Requests <- MCRequests
  Limits <- MCLimits
  NoRequest = NoRequest
  NoDecision = NoDecision
  NoReport = NoReport
  PlannerCalls = 2
  EvaluatorCalls = 2
INVARIANT StaleCacheAnswered
CHECK_DEADLOCK FALSE
