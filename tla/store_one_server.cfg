SPECIFICATION Spec
CONSTANTS
  a1 = a1
  a2 = a2
  q1 = q1
  q2 = q2
  c1 = c1
  c2 = c2
  w1 = w1
  w2 = w2
  s1 = s1
  s2 = s2
  NoBasis = NoBasis
  NotHeld = NotHeld
  Quantities <- MCQuantities
  Costs <- MCCosts
  Assets <- MCAssets
  Snapshots <- MCSnapshots
  Writers = {w1, w2}
  Servers = {s1}
  ServerOf <- OneServer
  ObsPerDay = 2
  MaxObs = 3
INVARIANTS
  OneActiveState
  ActiveRowsMatchSnapshot
  InsertOnlyOnChange
PROPERTIES
  ClosedRowsFrozen
SYMMETRY WriterSymmetry
CHECK_DEADLOCK FALSE
