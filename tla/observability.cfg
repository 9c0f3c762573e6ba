SPECIFICATION ObservabilitySpec
CONSTANTS
  t1 = t1
  t2 = t2
  t3 = t3
  Threads = {t1, t2, t3}
  Retention = 2
  Nodes <- NodesInOrder
SYMMETRY ThreadSymmetry
INVARIANTS
  TracingHarmless
  FailuresTold
  SpansTellTheEnd
  CallsPaired
  CheckpointsBounded
