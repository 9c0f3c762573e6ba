SPECIFICATION BaselineSpec
CONSTANTS
  a1 = a1
  c1 = c1
  w1 = w1
  s1 = s1
  s2 = s2
  NoBasis = NoBasis
  NotHeld = NotHeld
  Quantities = {1, 2}
  Costs = {c1}
  Assets = {a1}
  Snapshots <- MCSnapshots
  Writers = {w1}
  Servers = {s1}
  ServerOf <- WriterServer
  ReaderServers = {s1, s2}
  ObsPerDay = 2
  MaxObs = 4
  AnchorAge = 1
  AnchorSlack = 1
INVARIANTS
  PositionsNotOlder
  StatusNotNewer
  TimelineOrdered
  DailyViewCoherent
  ReportedChangesTrue
  ChangesReplay
PROPERTIES
  ValueNeverRegresses
CHECK_DEADLOCK FALSE
CONSTRAINT FirstStored
