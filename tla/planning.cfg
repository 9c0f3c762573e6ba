SPECIFICATION TurnSpec
CONSTANTS
  NoText = NoText
  apple = apple
  berkshire = berkshire
  tencent = tencent
  holding = holding
  Databases <- MCDatabases
  LimitChoices <- MCLimits
  Failures <- MCFailures
  Now <- MCNow
  Positions <- MCPositions
  Weights <- MCWeights
  Requests <- MCRequests
  Fallbacks <- MCFallbacks
  Astray <- MCAstray
  MaxRequired = 2
INVARIANTS
  PacketFits
  CoveredMeansSupported
  CompiledPlanAccepted
  ReadsWhatWasNamed
  PlanHasItsData
CHECK_DEADLOCK FALSE
