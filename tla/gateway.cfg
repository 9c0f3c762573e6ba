SPECIFICATION FairSpec
CONSTANTS
  c1 = c1
  c2 = c2
  k1 = k1
  k2 = k2
  sql = sql
  Callers = {c1, c2}
  Closers = {k1, k2}
  ServerNames = {sql}
  MaxCalls = 2
  MaxSpawns = 2
INVARIANTS
  OneServingProcess
  ExecutedInOrder
PROPERTIES
  CallContract
  CallsAnswered
  CloseReturns
CHECK_DEADLOCK FALSE
