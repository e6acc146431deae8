SPECIFICATION FairSpec
CONSTANTS
  Target = {t1, t2}
  InitialDelay = 1000
  MaxDelay = 3000
  MaxFailures = 1
  MaxCloses = 6
INVARIANT ListenSafety
PROPERTIES RetriesSlowDown ListenProgress
