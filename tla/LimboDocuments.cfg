\* Two views that share a document; the connection comes and goes for ever, so nothing stops.
SPECIFICATION FairSpec
CONSTANTS
  Target = {t1, t2}
  Doc = {d1}
  MaxEvents = 4
INVARIANTS LimboSafety SyncedIsTrue
PROPERTY EveryViewSyncs
