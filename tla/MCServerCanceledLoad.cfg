SPECIFICATION Spec
CONSTANTS
  Queries = {}
  Updates = {}
  Scrapes = {}
  Probes = {}
  Gauges = {}
  MaxData = 1
INVARIANT
  CleanShutdownReturnsNil
