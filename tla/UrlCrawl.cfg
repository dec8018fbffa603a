SPECIFICATION FairSpec
CONSTANTS
  a = a
  b = b
  c = c
  d = d
  blob = blob
  away = away
  Urls <- MCUrls
  Start = a
  Unledgered <- MCUnledgered
  Outside <- MCOutside
  Sites <- MCSites
  Sitemaps <- MCSitemaps
  MaxPages = 3
  MaxSitemapDocuments = 2
INVARIANTS
  FrontierIsExact
  CoverageCounts
  CompleteIsClosed
PROPERTIES
  EndsUnlessABodyStalls
CHECK_DEADLOCK FALSE
