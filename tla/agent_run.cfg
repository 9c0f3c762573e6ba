SPECIFICATION Spec
CONSTANTS
  Requests <- MCRequests
  Limits <- MCLimits
  NoRequest = NoRequest
  NoDecision = NoDecision
  NoReport = NoReport
  PlannerCalls = 2
  EvaluatorCalls = 2
INVARIANTS
  BackedFactsPass
  AnswerReviewed
  FactsBacked
  LimitsTold
  CallsCounted
  StoredAsObserved
  ShownIsStored
  UnsafeNotServed
PROPERTIES
  Answered
CHECK_DEADLOCK FALSE
