SPECIFICATION FairSpec
CONSTANTS
  Queries = {}
  Updates = {u1}
  Scrapes = {s1}
  Probes = {p1}
  Gauges = {g1}
  MaxData = 1
  u1 = u1
  s1 = s1
  p1 = p1
  g1 = g1
INVARIANTS
  GaugeReady
  ReadyAfterLoad
PROPERTIES
  ShutdownReturns
  StopNoticed
