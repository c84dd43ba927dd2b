SPECIFICATION FairSpec
CONSTANTS
  c1 = c1
  c2 = c2
  Nobody = Nobody
  Clients = {c1, c2}
  Scrapes = {s1, s2}
  Absent = Nobody
  Cases <- MCCases
  Buckets <- MCBuckets
  Durations = {1, 2}
INVARIANTS
  MetricsExact
  TokensHelp
  TokensGuard
  GzipRefusalRespected
PROPERTY HookReturns
CHECK_DEADLOCK FALSE
