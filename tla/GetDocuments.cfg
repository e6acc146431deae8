SPECIFICATION FairSpec
CONSTANTS
  c1 = c1  c2 = c2  c3 = c3  q1 = q1  q2 = q2
  Call = {c1, c2, c3}
  Query = {q1, q2}
  QueryOf <- MCQueryOf
  ServerCalls = {c2}
  MaxPending = 2
INVARIANTS CallSafety CacheOnlyOffline
PROPERTY ImplementsOneAnswer
\* Once every call is answered nothing need happen.
CHECK_DEADLOCK FALSE
