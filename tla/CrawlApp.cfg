\* Three sheets after the initial one, one of them a list selection; d2 crashes
\* the app.  The app may be left alone for good: no deadlock check.
SPECIFICATION Spec
CONSTANTS
  b1 = b1  b2 = b2  c1 = c1  d1 = d1  d2 = d2
  Small = {sm1, sm2}
  Standard = {st1, st2}
  BarId = {b1, b2}
  CrawlId = {c1}
  DealId = {d1, d2}
  crawlIds <- MCcrawlIds
  dealIds <- MCdealIds
  barIds <- MCbarIds
  Undecodable = {d2}
SYMMETRY Symmetry
CHECK_DEADLOCK FALSE
INVARIANTS
  AppTypeOK
  AllOrNothing
  CameraOnBar
  UserInReach
  MarkerPerBar
