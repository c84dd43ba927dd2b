SPECIFICATION Spec
CONSTANTS
  Queries = {}
  Updates = {u1}
  Scrapes = {s1}
  Probes = {}
  Gauges = {}
  MaxData = 1
  u1 = u1
  s1 = s1
INVARIANT
  NoUseAfterClose
