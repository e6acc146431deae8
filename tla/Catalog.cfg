\* The app stops once everything is answered: no deadlock check.
SPECIFICATION CatalogSpec
CONSTANTS
  b1 = b1  b2 = b2  b3 = b3  c1 = c1  c2 = c2  d1 = d1  d2 = d2
  BarId = {b1, b2, b3}
  CrawlId = {c1, c2}
  DealId = {d1, d2}
  crawlIds <- MCcrawlIds
  dealIds <- MCdealIds
  barIds <- MCbarIds
  Undecodable = {c2}
CHECK_DEADLOCK FALSE
INVARIANTS
  CatalogTypeOK
  LookupsResolve
PROPERTIES
  LookupsSettle
