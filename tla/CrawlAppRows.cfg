\* One sheet opened from the list selection while the collections arrive.
SPECIFICATION Spec
CONSTANTS
  b1 = b1  b2 = b2  c1 = c1  d1 = d1  d2 = d2
  Small = {sm1}
  Standard = {st1}
  BarId = {b1, b2}
  CrawlId = {c1}
  DealId = {}
  crawlIds <- MCcrawlIds
  dealIds <- MCdealIdsNone
  barIds <- MCbarIds
  Undecodable = {}
CHECK_DEADLOCK FALSE
INVARIANT
  RowsWithinList
