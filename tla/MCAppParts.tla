----------------------------- MODULE MCAppParts -------------------------------
(***************************************************************************)
(* Four parts of the app that share no state: the loading of images, the   *)
(* drag of a sheet, the size of a pin, and the runs of the app.  A         *)
(* behaviour is one of a single part; the others stay where they start.    *)
(*                                                                         *)
(* Images: two URLs; two markers that share a pin, one cell that is reused.*)
(***************************************************************************)
EXTENDS ImageLoading, TLC

CONSTANTS u1, u2, c1, m1, m2,
          Height, MaxSide, MaxRuns

VARIABLES
  part,
  y, smallMode, panning, dismissed, cancelled,
  size, newSize,
  run, screen, loggedIn, services, auth, asking, updating, locatedIn, askedIn,
  bySettings, everOff

dragVars == <<y, smallMode, panning, dismissed, cancelled>>
pinVars == <<size, newSize>>
sessionVars == <<run, screen, loggedIn, services, auth, asking, updating, locatedIn,
                 askedIn, bySettings, everOff>>
partsVars == <<part, vars, dragVars, pinVars, sessionVars>>

Drag == INSTANCE SheetDrag
Pins == INSTANCE PinImage
App == INSTANCE Session

ASSUME AppAssumption == Drag!HeightAssumption /\ MaxSide \in Nat \ {0} /\ MaxRuns \in Nat

MCpinURL == (m1 :> u1) @@ (m2 :> u1)

\* A part that stays still has a single initial state.
PartsInit ==
  /\ part \in {"images", "drag", "pins", "session"}
  /\ Init /\ Drag!Init /\ Pins!Init /\ App!Init
  /\ part # "images" => \A u \in Url : cache[u] = "none"
  /\ part # "pins" => size = [width |-> 1, height |-> 1]
  /\ part # "session" => services

PartsNext ==
  /\ part' = part
  /\ \/ part = "images"  /\ Next         /\ UNCHANGED <<dragVars, pinVars, sessionVars>>
     \/ part = "drag"    /\ Drag!Next    /\ UNCHANGED <<vars, pinVars, sessionVars>>
     \/ part = "pins"    /\ Pins!Next    /\ UNCHANGED <<vars, dragVars, sessionVars>>
     \/ part = "session" /\ App!Next /\ UNCHANGED <<vars, dragVars, pinVars>>

\* Only the loading of images has a property that needs fairness.
PartsSpec == PartsInit /\ [][PartsNext]_partsVars /\ Fairness
-----------------------------------------------------------------------------
\* The drag of a sheet in points follows BottomSheets (see SheetDrag).
DragFollowsPlaces == Drag!DragFollowsPlaces

\* The size of a pin (see PinImage).
PinSafety == Pins!PinSafety

\* The location over the runs of the app (see Session).
SessionSafety == App!SessionSafety
=============================================================================
