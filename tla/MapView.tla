------------------------------- MODULE MapView --------------------------------
(***************************************************************************)
(* The map of the home screen: the markers HomeViewController puts on it,  *)
(* where it sends the camera, and whether the camera follows the user.     *)
(* The camera is abstracted to what it was sent to last, animations left   *)
(* out.  A handler that also swaps the bottom sheet is completed by the    *)
(* module that composes the two.                                           *)
(***************************************************************************)
EXTENDS Naturals

CONSTANT BarId          \* the bars, each with a place on the map

VARIABLES
  followUser,           \* the flag of HomeViewController
  myLocationButton,     \* the button that offers to follow is shown
  camera,               \* the city, the user, a bar, or elsewhere by hand
  location,             \* what CLLocationManager knows of the user's place
  markers               \* the number of markers for each bar

mapVars == <<followUser, myLocationButton, camera, location, markers>>

MapTypeOK ==
  /\ followUser \in BOOLEAN
  /\ myLocationButton \in BOOLEAN
  /\ camera \in {"city", "user", "elsewhere"} \union BarId
  /\ location \in {"unknown", "cached", "reported"}
  /\ markers \in [BarId -> Nat]

Follow(yes) ==
  /\ followUser' = yes
  /\ myLocationButton' = ~yes

\* manager.location?.coordinate is nil until there has been a fix, in this
\* session or an earlier one.
SendToUser == camera' = IF location = "unknown" THEN camera ELSE "user"
-----------------------------------------------------------------------------
\* loadMap, with followUser at its initial value.
Init ==
  /\ followUser = TRUE
  /\ myLocationButton = FALSE
  /\ camera = "city"
  /\ location \in {"unknown", "cached"}
  /\ markers = [b \in BarId |-> 0]

\* loadBars makes a marker for every bar in allBars; it does not look at the
\* markers made before.
LoadBars(bars) ==
  /\ markers' = [b \in BarId |-> markers[b] + IF b \in bars THEN 1 ELSE 0]
  /\ UNCHANGED <<followUser, myLocationButton, camera, location>>

\* Slip: following goes on, as after crawlTapped.
SlipBarTappedFollowing(b) ==
  /\ camera' = b
  /\ UNCHANGED <<followUser, myLocationButton, location, markers>>

BarTapped(b) ==
  /\ Follow(FALSE)
  /\ camera' = b
  /\ UNCHANGED <<location, markers>>

OpenListSelection ==
  /\ Follow(TRUE)
  /\ SendToUser
  /\ UNCHANGED <<location, markers>>

DidUpdateLocations ==
  /\ location' = "reported"
  /\ camera' = IF followUser THEN "user" ELSE camera
  /\ UNCHANGED <<followUser, myLocationButton, markers>>

\* Slip: the handler returns true, and the map leaves the camera alone.
SlipMarkerKeepsCamera(b) ==
  /\ markers[b] > 0
  /\ Follow(FALSE)
  /\ UNCHANGED <<camera, location, markers>>

\* The handler returns false, for which the map centres on the marker.
DidTapMarker(b) ==
  /\ markers[b] > 0
  /\ Follow(FALSE)
  /\ camera' = b
  /\ UNCHANGED <<location, markers>>

\* willMove with gesture = true; a move by animate(to...) changes nothing.
WillMove ==
  /\ Follow(FALSE)
  /\ camera' = "elsewhere"
  /\ UNCHANGED <<location, markers>>

\* The handler returns false, for which the map goes to the user if it can.
DidTapMyLocationButton ==
  /\ myLocationButton
  /\ Follow(TRUE)
  /\ SendToUser
  /\ UNCHANGED <<location, markers>>
-----------------------------------------------------------------------------
(***************************************************************************)
(* Properties                                                              *)
(***************************************************************************)

\* Once the user's place is reported, either the camera is on the user or the
\* button that brings it there is shown; and a camera on the user follows.
UserInReach ==
  /\ location = "reported" => camera = "user" \/ myLocationButton
  /\ camera = "user" => followUser
=============================================================================
