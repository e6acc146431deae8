------------------------------- MODULE Session --------------------------------
(***************************************************************************)
(* Runs of the app, from LaunchViewController to the home screen, and      *)
(* what HomeViewController does there about the user's location.  The      *)
(* authorization and the device's Location Services outlive a run; what    *)
(* the system and the user do about them is outside the app.               *)
(***************************************************************************)
EXTENDS Naturals

CONSTANT MaxRuns   \* bound: how often the app is launched

Runs == 1..MaxRuns

VARIABLES
  run,         \* which run of the app this is, 0 before the first
  screen,      \* "off", "launch" or "home"
  loggedIn,    \* the flag of LaunchViewController
  services,    \* CLLocationManager.locationServicesEnabled()
  auth,        \* the app's authorization
  asking,      \* a request for authorization awaits the user
  updating,    \* startUpdatingLocation has been called in this run
  locatedIn,   \* the runs whose delegate has had a location
  askedIn,     \* the runs that have called requestWhenInUseAuthorization
  bySettings,  \* history: the user has decided in Settings, unasked
  everOff      \* history: a run has found Location Services off for the device

vars == <<run, screen, loggedIn, services, auth, asking, updating, locatedIn,
          askedIn, bySettings, everOff>>

SessionTypeOK ==
  /\ run \in 0..MaxRuns
  /\ screen \in {"off", "launch", "home"}
  /\ loggedIn = (screen # "off")
  /\ services \in BOOLEAN /\ bySettings \in BOOLEAN /\ everOff \in BOOLEAN
  /\ auth \in {"notDetermined", "whenInUse", "denied"}
  /\ asking \in BOOLEAN /\ updating \in BOOLEAN
  /\ asking \/ updating => screen = "home"
  /\ locatedIn \subseteq 1..run /\ askedIn \subseteq 1..run

\* The user's account is not looked at yet: the function has a constant.
isUserLoggedIn == FALSE

Init ==
  /\ run = 0 /\ screen = "off" /\ loggedIn = FALSE
  /\ services \in BOOLEAN /\ auth = "notDetermined"
  /\ asking = FALSE /\ updating = FALSE
  /\ locatedIn = {} /\ askedIn = {} /\ bySettings = FALSE /\ everOff = FALSE
-----------------------------------------------------------------------------
\* Slip: the flag is taken from the unfinished isUserLoggedIn.
SlipLaunch ==
  /\ screen = "off" /\ run < MaxRuns
  /\ run' = run + 1 /\ screen' = "launch" /\ loggedIn' = isUserLoggedIn
  /\ UNCHANGED <<services, auth, asking, updating, locatedIn, askedIn, bySettings, everOff>>

\* viewDidLoad of LaunchViewController.
Launch ==
  /\ screen = "off" /\ run < MaxRuns
  /\ run' = run + 1
  /\ screen' = "launch"
  /\ loggedIn' = TRUE
  /\ UNCHANGED <<services, auth, asking, updating, locatedIn, askedIn, bySettings, everOff>>

\* Slip: authorization is asked for when it is undetermined.
SlipGetUserLocation ==
  IF auth = "notDetermined"
    THEN asking' = TRUE /\ askedIn' = askedIn \union {run} /\ updating' = services
    ELSE updating' = services /\ UNCHANGED <<asking, askedIn>>

\* Slip: the location is asked for after the request, whatever comes of it.
SlipStartAnyway ==
  /\ asking' = (~services /\ auth = "notDetermined")
  /\ askedIn' = IF services THEN askedIn ELSE askedIn \union {run}
  /\ updating' = TRUE

\* getUserLocation: permission is asked for only when services are off for the
\* device, and the two tests of services see the same value, so a run that asks
\* does not start the updates.  A request after the user's decision does nothing.
GetUserLocation ==
  IF services
    THEN updating' = TRUE /\ UNCHANGED <<asking, askedIn>>
    ELSE /\ asking' = (auth = "notDetermined")
         /\ askedIn' = askedIn \union {run}
         /\ UNCHANGED updating

\* viewDidAppear of the launch screen presents the home screen over it for good.
HomeAppears ==
  /\ screen = "launch" /\ loggedIn
  /\ screen' = "home"
  /\ GetUserLocation
  /\ everOff' = (everOff \/ ~services)
  /\ UNCHANGED <<run, loggedIn, services, auth, locatedIn, bySettings>>

\* didUpdateLocations; the delegate has no other callback.
DidUpdateLocations ==
  /\ updating /\ services /\ auth = "whenInUse"
  /\ locatedIn' = locatedIn \union {run}
  /\ UNCHANGED <<run, screen, loggedIn, services, auth, asking, updating, askedIn,
                 bySettings, everOff>>

\* The user answers the alert, which may only send them to Settings.
UserAnswers ==
  /\ asking
  /\ asking' = FALSE
  /\ auth' \in {"notDetermined", "whenInUse", "denied"}
  /\ UNCHANGED <<run, screen, loggedIn, services, updating, locatedIn, askedIn,
                 bySettings, everOff>>

\* The switch for the whole device, and the one for the app.
UserSetsServices ==
  /\ services' = ~services
  /\ UNCHANGED <<run, screen, loggedIn, auth, asking, updating, locatedIn, askedIn,
                 bySettings, everOff>>

UserSetsAuthorization ==
  /\ auth' \in {"whenInUse", "denied"}
  /\ bySettings' = TRUE
  /\ asking' = FALSE
  /\ UNCHANGED <<run, screen, loggedIn, services, updating, locatedIn, askedIn, everOff>>

\* The system or the user ends the app, at any time.
Terminated ==
  /\ screen # "off"
  /\ screen' = "off" /\ loggedIn' = FALSE
  /\ asking' = FALSE /\ updating' = FALSE
  /\ UNCHANGED <<run, services, auth, locatedIn, askedIn, bySettings, everOff>>

Next ==
  \/ Launch \/ HomeAppears \/ DidUpdateLocations \/ Terminated
  \/ UserAnswers \/ UserSetsServices \/ UserSetsAuthorization

Spec == Init /\ [][Next]_vars
-----------------------------------------------------------------------------
(***************************************************************************)
(* Properties                                                              *)
(***************************************************************************)

\* A user whose Location Services are on whenever the app starts never gets the
\* app to use them, in however many runs: a run has a location only if one
\* before it found the services off, or the user found the app's switch in
\* Settings.
NeverAskedWithServicesOn == locatedIn # {} => everOff \/ bySettings

\* A run that asks never gets a location, even if the user allows it at once:
\* the updates are started by the next run.
AnswerTakesNextRun == locatedIn \intersect askedIn = {}

\* Who gets a location, over any number of runs of the app: not the user whose
\* Location Services are on, and not the run that asks.
SessionSafety == SessionTypeOK /\ NeverAskedWithServicesOn /\ AnswerTakesNextRun
=============================================================================
