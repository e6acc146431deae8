---------------------------- MODULE MCClientParts -----------------------------
(***************************************************************************)
(* Three parts of the Firestore client that share no state: the call to    *)
(* the backend with gRPC's completion queue (GrpcStream), the worker queue *)
(* with its timers (AsyncQueue), and the table of targets (TargetStore).   *)
(* A behaviour is one of a single part; the others stay where they start.  *)
(***************************************************************************)
EXTENDS GrpcStream

CONSTANTS
  Users, Tags, MaxOperations, MaxForced,
  Doc, MaxAge, MaxTime

VARIABLES
  part,
  calls, isShuttingDown, workerQueue, slots, schedule, nextId, handles,
  running, kinds, ran, withdrawn, forced,
  past, active, target, stored, keys, resume, trust

workerVars == <<calls, isShuttingDown, workerQueue, slots, schedule, nextId, handles,
                running, kinds, ran, withdrawn, forced>>
storeVars == <<past, active, target, stored, keys, resume, trust>>
partsVars == <<part, vars, workerVars, storeVars>>

Worker == INSTANCE AsyncQueue WITH queue <- workerQueue, cancelled <- withdrawn
Store == INSTANCE TargetStore

ASSUME PartsAssumption == MaxOperations \in Nat /\ MaxTime \in Nat \ {0}

\* A part that stays still has a single initial state.
PartsInit ==
  /\ part \in {"stream", "worker", "store"}
  /\ Init /\ Worker!Init /\ Store!Init
  /\ part # "store" => past = <<{}>>

PartsNext ==
  /\ part' = part
  /\ \/ part = "stream" /\ Next        /\ UNCHANGED <<workerVars, storeVars>>
     \/ part = "worker" /\ Worker!Next /\ UNCHANGED <<vars, storeVars>>
     \/ part = "store"  /\ Store!Next  /\ UNCHANGED <<vars, workerVars>>

PartsSpec == PartsInit /\ [][PartsNext]_partsVars /\ Fairness /\ Worker!Fairness
-----------------------------------------------------------------------------
\* The worker queue at every moment (see AsyncQueue).
QueueSafety == Worker!QueueSafety

\* Accepted operations run (see AsyncQueue).
EveryOperationRuns == Worker!EveryOperationRuns

\* The table of targets in memory and on disk (see TargetStore).
StoreSafety == Store!StoreSafety
=============================================================================
