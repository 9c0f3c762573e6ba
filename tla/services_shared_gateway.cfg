SPECIFICATION Spec
CONSTANTS
  t1 = t1
  t2 = t2
  t3 = t3
  Threads = {t1, t2}
  MaxRequests = 1
INVARIANTS
  SharedGateway
CHECK_DEADLOCK FALSE
