\* Two answered requests, a failed one, and a scrape or a reading of /stats.
SPECIFICATION FairSpec
CONSTANTS
  a1 = a1
  a2 = a2
  f1 = f1
  k1 = k1
  k2 = k2
  Spans = {a1, a2}
  Failures = {f1}
  Scraper = scraper
  Keys = {k1, k2}
  Values = {1, 2, 3}
  Bounds <- TwoBounds
  MaxSamples = 1
  Loads <- ThreeLoads
INVARIANTS
  TypeOK
  HistogramExact
  ScrapeConsistent
  QuantileSound
PROPERTIES
  ScrapeEnds
CHECK_DEADLOCK FALSE
