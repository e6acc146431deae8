SPECIFICATION FairSpec
CONSTANTS
  Target = {t1}
  Doc = {d1, d2}
  MaxListens = 2
  MaxChanges = 2
  MaxCloses = 1
INVARIANTS AggregatorSafety CurrentIsBackendState
PROPERTY EveryTargetSettles
\* The bounds on listens, changes and closes are used up.
CHECK_DEADLOCK FALSE
