SPECIFICATION Spec
CONSTANTS
  Queries = {}
  Updates = {}
  Scrapes = {}
  Probes = {p1}
  Gauges = {}
  MaxData = 1
  p1 = p1
INVARIANT
  ReadyzReady
