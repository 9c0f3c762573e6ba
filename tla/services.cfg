SPECIFICATION Spec
CONSTANTS
  t1 = t1
  t2 = t2
  t3 = t3
  Threads = {t1, t2, t3}
  MaxRequests = 2
INVARIANTS
  CleanShutdown
PROPERTIES
  NoGatewayOnceSettled
SYMMETRY ThreadSymmetry
CHECK_DEADLOCK FALSE
