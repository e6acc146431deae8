SPECIFICATION PartsSpec
CONSTANTS
  MaxReads = 2
  MaxWrites = 3
  Users = {u1, u2}
  Tags = {retry}
  MaxOperations = 4
  MaxForced = 1
  Doc = {d1, d2}
  MaxAge = 2
  MaxTime = 4
INVARIANTS StreamSafety QueueSafety StoreSafety
PROPERTIES FinishGivenAlone StreamEnds EveryOperationRuns
\* A destroyed stream, and a queue with nothing more to run, stop.
CHECK_DEADLOCK FALSE
