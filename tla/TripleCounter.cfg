SPECIFICATION FairSpec
CONSTANTS
  w1 = w1
  w2 = w2
  s1 = s1
  s2 = s2
  Writers = {w1, w2}
  Scrapers = {s1, s2}
  MaxOps = 1
  MaxLoad = 1
INVARIANTS
  CacheFresh
  ScrapeSeesFinishedWrites
PROPERTY
  ScrapeAnswers
