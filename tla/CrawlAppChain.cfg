\* Three sheets opened one from the other, without deals and undecodable
\* documents.  The app may be left alone for good: no deadlock check.
SPECIFICATION Spec
CONSTANTS
  b1 = b1  b2 = b2  c1 = c1  d1 = d1  d2 = d2
  Small = {sm1}
  Standard = {st1, st2, st3}
  BarId = {b1, b2}
  CrawlId = {c1}
  DealId = {}
  crawlIds <- MCcrawlIds
  dealIds <- MCdealIdsNone
  barIds <- MCbarIds
  Undecodable = {}
SYMMETRY Symmetry
CHECK_DEADLOCK FALSE
INVARIANT AllOrNothing
