----------------------------- MODULE ListenStream ------------------------------
(***************************************************************************)
(* The connection a Firestore client listens on: the watch stream (Stream, *)
(* ExponentialBackoff), the part of RemoteStore that starts and stops it,  *)
(* and OnlineStateTracker, which decides whether the client counts as      *)
(* online.  Every action is one operation of the worker queue.             *)
(*                                                                         *)
(* The stream and the tracker are records, and a function of the code is   *)
(* an operator on them, so that a handler that closes the stream and       *)
(* starts it again is written as it is in the code: the one operator       *)
(* applied to the other.  Messages are left to WatchTargets.               *)
(***************************************************************************)
EXTENDS Integers

CONSTANTS
  Target,                   \* target ids
  InitialDelay, MaxDelay,   \* kBackoffInitialDelay and kBackoffMaxDelay
  MaxFailures,              \* kMaxWatchStreamFailures
  MaxCloses                 \* bound: how often the stream is closed

ASSUME DelayAssumption ==
  InitialDelay \in Nat \ {0, 1} /\ MaxDelay \in Nat /\ InitialDelay <= MaxDelay
ASSUME FailuresAssumption == MaxFailures \in Nat \ {0} /\ MaxCloses \in Nat

VARIABLES
  stream,      \* the watch stream
  targets,     \* listen_targets_
  enabled,     \* is_network_enabled_
  aggregator,  \* watch_change_aggregator_ is there
  online,      \* the tracker: its state, failures and timer
  lapsed       \* history: the tracker was told Unknown while the stream starts

vars == <<stream, targets, enabled, aggregator, online, lapsed>>

StreamState == {"Initial", "Starting", "Open", "Error", "Backoff"}
OnlineState == {"Unknown", "Online", "Offline"}
Delay == 0..MaxDelay

(***************************************************************************)
(* state   state_                                                          *)
(* closes  close_count_                                                    *)
(* tokens  the close counts captured by requests for a token under way     *)
(* grpc    grpc_stream_ is there                                           *)
(* idle    idleness_timer_ is set                                          *)
(* retry   the operation of backoff_ is scheduled                          *)
(* base    current_base_ of backoff_                                       *)
(***************************************************************************)
ListenTypeOK ==
  /\ stream \in [state : StreamState, closes : 0..MaxCloses,
                 tokens : SUBSET (0..MaxCloses), grpc : BOOLEAN, idle : BOOLEAN,
                 retry : BOOLEAN, base : Delay]
  /\ targets \subseteq Target
  /\ enabled \in BOOLEAN /\ aggregator \in BOOLEAN /\ lapsed \in BOOLEAN
  /\ online \in [state : OnlineState, failures : Nat, timer : BOOLEAN]

IsOpen(s) == s.state = "Open"
IsStarted(s) == s.state \in {"Starting", "Open", "Backoff"}
-----------------------------------------------------------------------------
(***************************************************************************)
(* OnlineStateTracker                                                      *)
(***************************************************************************)

UpdateState(new) == [state |-> new, failures |-> 0, timer |-> FALSE]

\* Slip: the state is set, the timer is not.
SlipUntimedStart(o) == IF o.failures = 0 THEN [o EXCEPT !.state = "Unknown"] ELSE o

HandleWatchStreamStart(o) ==
  IF o.failures = 0 THEN [o EXCEPT !.state = "Unknown", !.timer = TRUE] ELSE o

\* Slip: the timer is left running when the failures decide.
SlipFailureKeepsTimer(o) ==
  CASE o.state = "Online" -> [o EXCEPT !.state = "Unknown"]
    [] o.state # "Online" /\ o.failures + 1 >= MaxFailures ->
         [o EXCEPT !.state = "Offline", !.failures = @ + 1]
    [] OTHER -> [o EXCEPT !.failures = @ + 1]

HandleWatchStreamFailure(o) ==
  CASE o.state = "Online" -> [o EXCEPT !.state = "Unknown"]
    [] o.state # "Online" /\ o.failures + 1 >= MaxFailures ->
         [state |-> "Offline", failures |-> o.failures + 1, timer |-> FALSE]
    [] OTHER -> [o EXCEPT !.failures = @ + 1]
-----------------------------------------------------------------------------
(***************************************************************************)
(* Stream and ExponentialBackoff                                           *)
(***************************************************************************)

Clamp(d) == IF d < InitialDelay THEN InitialDelay
            ELSE IF d > MaxDelay THEN MaxDelay ELSE d

\* Slip: the delay grows past its limit.
SlipGrown(base) == IF base = 0 THEN InitialDelay ELSE (base * 3) \div 2

\* The factor is 1.5; the jitter and the time already past change when the
\* operation runs, which the model leaves open.
Grown(base) == Clamp((base * 3) \div 2)

Status == {"ok", "error", "resourceExhausted"}

\* Slip: the restart after an error is not scheduled.
SlipStart(s) ==
  IF s.state = "Error" THEN [s EXCEPT !.state = "Backoff", !.base = Grown(@)]
  ELSE [s EXCEPT !.state = "Starting", !.tokens = @ \union {s.closes}]

\* Start: after an error through the backoff, else with a request for a token.
Start(s) ==
  IF s.state = "Error"
    THEN [s EXCEPT !.state = "Backoff", !.retry = TRUE, !.base = Grown(@)]
    ELSE [s EXCEPT !.state = "Starting", !.tokens = @ \union {s.closes}]

\* Reset and ResetToMax, by what the stream is closed with.
BaseAfter(base, status) ==
  CASE status = "ok" -> 0
    [] status = "error" -> base
    [] status = "resourceExhausted" -> MaxDelay

\* Slip: closing does not count, so that an earlier request can still resume.
SlipUncountedClose(s, status) ==
  [s EXCEPT !.state = IF status = "ok" THEN "Initial" ELSE "Error",
            !.grpc = FALSE, !.idle = FALSE, !.retry = FALSE,
            !.base = IF status = "ok" THEN 0 ELSE @]

\* Slip: the base starts again at nothing after an error too.
SlipForgetfulClose(s, status) ==
  [s EXCEPT !.state = IF status = "ok" THEN "Initial" ELSE "Error",
            !.closes = @ + 1, !.grpc = FALSE, !.idle = FALSE, !.retry = FALSE,
            !.base = 0]

\* Close, up to the call of NotifyStreamClose: only the requests for a token that
\* are under way are left as they are.
Close(s, status) ==
  [state |-> IF status = "ok" THEN "Initial" ELSE "Error",
   closes |-> s.closes + 1, tokens |-> s.tokens,
   grpc |-> FALSE, idle |-> FALSE, retry |-> FALSE,
   base |-> BaseAfter(s.base, status)]

\* Write: any request cancels the idle check.
Written(s) == [s EXCEPT !.idle = FALSE]

Init ==
  /\ stream = [state |-> "Initial", closes |-> 0, tokens |-> {}, grpc |-> FALSE,
               idle |-> FALSE, retry |-> FALSE, base |-> 0]
  /\ targets = {} /\ enabled = TRUE /\ aggregator = FALSE
  /\ online = UpdateState("Unknown") /\ lapsed = FALSE

\* UpdateState(Unknown) while a stream is started takes its timer away.
Lapse(s) == lapsed' = IsStarted(s)
Settle == lapsed' = (lapsed /\ online'.state = "Unknown")
-----------------------------------------------------------------------------
(***************************************************************************)
(* RemoteStore                                                             *)
(***************************************************************************)

ShouldStartWatchStream(s, ts, net) == net /\ ~IsStarted(s) /\ ts # {}

StartWatchStream(s, o) ==
  /\ aggregator' = TRUE
  /\ stream' = Start(s)
  /\ online' = HandleWatchStreamStart(o)

Listen(t) ==
  /\ t \notin targets
  /\ targets' = targets \union {t}
  /\ IF ShouldStartWatchStream(stream, targets', enabled)
       THEN StartWatchStream(stream, online) /\ lapsed' = FALSE
       ELSE /\ stream' = IF IsOpen(stream) THEN Written(stream) ELSE stream
            /\ UNCHANGED <<aggregator, online, lapsed>>
  /\ UNCHANGED enabled

\* Slip: the stream counts as idle whenever a target goes.
SlipStopListening(t) ==
  /\ t \in targets
  /\ targets' = targets \ {t}
  /\ stream' = IF IsOpen(stream) THEN [stream EXCEPT !.idle = TRUE] ELSE stream
  /\ UNCHANGED <<online, lapsed, aggregator, enabled>>

\* MarkIdle sets the timer of an open stream.
StopListening(t) ==
  /\ t \in targets
  /\ targets' = targets \ {t}
  /\ stream' = IF IsOpen(stream) THEN [stream EXCEPT !.idle = (targets' = {})]
               ELSE stream
  /\ IF targets' = {} /\ ~IsOpen(stream) /\ enabled
       THEN online' = UpdateState("Unknown") /\ Lapse(stream)
       ELSE UNCHANGED <<online, lapsed>>
  /\ UNCHANGED <<aggregator, enabled>>

\* Slip: a stream that has failed is not started again.
SlipOnWatchStreamClose(s) ==
  /\ stream' = s /\ aggregator' = FALSE
  /\ online' = UpdateState("Unknown") /\ lapsed' = FALSE

\* OnWatchStreamClose, with what Close has left.
OnWatchStreamClose(s) ==
  IF ShouldStartWatchStream(s, targets, enabled)
    THEN StartWatchStream(s, HandleWatchStreamFailure(online)) /\ Settle
    ELSE /\ stream' = s /\ aggregator' = FALSE
         /\ online' = UpdateState("Unknown") /\ lapsed' = FALSE

\* Stop is ignored unless the stream is started.
Stopped(s) == IF IsStarted(s) THEN Close(s, "ok") ELSE s

\* DisableNetwork: what OnWatchStreamClose tells the tracker is overwritten.  Of a
\* network that is disabled it changes nothing.
DisableNetwork ==
  /\ enabled
  /\ stream.closes < MaxCloses
  /\ enabled' = FALSE
  /\ stream' = Stopped(stream)
  /\ aggregator' = FALSE
  /\ online' = UpdateState("Offline")
  /\ lapsed' = FALSE
  /\ UNCHANGED targets

\* EnableNetwork, which may be called of a network that is enabled; the tracker is
\* then set back while the stream goes on.
EnableNetwork ==
  /\ enabled' = TRUE
  /\ IF ShouldStartWatchStream(stream, targets, TRUE)
       THEN StartWatchStream(stream, online) /\ lapsed' = FALSE
       ELSE /\ online' = UpdateState("Unknown") /\ Lapse(stream)
            /\ UNCHANGED <<stream, aggregator>>
  /\ UNCHANGED targets

\* HandleCredentialChange: both of them, for the user's new token.
HandleCredentialChange ==
  /\ enabled
  /\ stream.closes < MaxCloses
  /\ IF targets # {}
       THEN StartWatchStream(Stopped(stream), UpdateState("Unknown"))
       ELSE /\ stream' = Stopped(stream) /\ aggregator' = FALSE
            /\ online' = UpdateState("Unknown")
  /\ lapsed' = FALSE
  /\ UNCHANGED <<targets, enabled>>
-----------------------------------------------------------------------------
(***************************************************************************)
(* What comes from the credentials, from gRPC and from the timers          *)
(***************************************************************************)

\* Slip: the token is used whatever stream it was asked for.
SlipTokenArrives(c) ==
  /\ c \in stream.tokens
  /\ stream' = [stream EXCEPT !.tokens = @ \ {c}, !.state = "Open", !.grpc = TRUE]
  /\ UNCHANGED <<targets, enabled, aggregator, online, lapsed>>

\* ResumeStartWithCredentials, for the stream that asked.  The gRPC stream calls
\* OnStreamStart from its Start, before it has heard from the backend, and
\* OnWatchStreamOpen writes the watches.
TokenArrives(c) ==
  /\ c \in stream.tokens
  /\ LET rest == [stream EXCEPT !.tokens = @ \ {c}]
     IN stream' = IF c # stream.closes THEN rest
                  ELSE IF targets = {} THEN [rest EXCEPT !.state = "Open", !.grpc = TRUE]
                  ELSE Written([rest EXCEPT !.state = "Open", !.grpc = TRUE])
  /\ UNCHANGED <<targets, enabled, aggregator, online, lapsed>>

TokenFails(c) ==
  /\ c \in stream.tokens /\ c = stream.closes
  /\ stream.closes < MaxCloses
  /\ OnWatchStreamClose(Close([stream EXCEPT !.tokens = @ \ {c}], "error"))
  /\ UNCHANGED <<targets, enabled>>

\* A well-formed response: the backoff is reset and the client is online.
\* ProcessTargetError also takes the targets the backend has rejected.
OnStreamRead(rejected) ==
  /\ IsOpen(stream) /\ stream.grpc
  /\ stream' = [stream EXCEPT !.base = 0]
  /\ online' = UpdateState("Online")
  /\ targets' = targets \ rejected
  /\ lapsed' = FALSE
  /\ UNCHANGED <<enabled, aggregator>>

\* OnStreamFinish: the call has failed, the device has changed networks, or a
\* response could not be read.
OnStreamFinish(status) ==
  /\ IsOpen(stream) /\ stream.grpc
  /\ stream.closes < MaxCloses
  /\ OnWatchStreamClose(Close(stream, status))
  /\ UNCHANGED <<targets, enabled>>

\* The operation of BackoffAndRun.
BackoffElapsed ==
  /\ stream.retry
  /\ stream' = Start([stream EXCEPT !.retry = FALSE, !.state = "Initial"])
  /\ UNCHANGED <<targets, enabled, aggregator, online, lapsed>>

\* The idle timer stops the stream.
IdleElapsed ==
  /\ stream.idle
  /\ stream.closes < MaxCloses
  /\ OnWatchStreamClose(Close([stream EXCEPT !.idle = FALSE], "ok"))
  /\ UNCHANGED <<targets, enabled>>

OnlineTimerElapsed ==
  /\ online.timer
  /\ online' = [online EXCEPT !.timer = FALSE, !.state = "Offline"]
  /\ lapsed' = FALSE
  /\ UNCHANGED <<stream, targets, enabled, aggregator>>

TokenAnswered == \E c \in stream.tokens : TokenArrives(c) \/ TokenFails(c)

Next ==
  \/ \E t \in Target : Listen(t) \/ StopListening(t)
  \/ DisableNetwork \/ EnableNetwork \/ HandleCredentialChange
  \/ TokenAnswered
  \/ \E rejected \in SUBSET targets : OnStreamRead(rejected)
  \/ \E status \in {"error", "resourceExhausted"} : OnStreamFinish(status)
  \/ BackoffElapsed \/ IdleElapsed \/ OnlineTimerElapsed

Spec == Init /\ [][Next]_vars

\* The timers of the worker queue elapse, and a token is answered; of the
\* backend, nothing is assumed.
FairSpec ==
  /\ Spec
  /\ WF_vars(BackoffElapsed) /\ WF_vars(OnlineTimerElapsed)
  /\ \A c \in 0..MaxCloses : WF_vars(TokenArrives(c))
-----------------------------------------------------------------------------
(***************************************************************************)
(* Properties                                                              *)
(***************************************************************************)

\* A stream that is starting waits for exactly the token it asked for: one asked
\* for before the last close can resume no stream (stream.cc's "State should
\* still be 'Starting'"), and no start is left without one.
TokenForThisStart ==
  /\ \A c \in stream.tokens : c <= stream.closes
  /\ stream.closes \in stream.tokens <=> stream.state = "Starting"

\* What the timers and gRPC call back is for the state the stream is in, so that
\* "Backoff elapsed but state is now" and a read of a stopped stream cannot be.
CallbacksFitState ==
  /\ stream.retry <=> stream.state = "Backoff"
  /\ stream.grpc <=> stream.state = "Open"
  /\ aggregator <=> IsStarted(stream)

\* The stream is started as long as it is needed, through every failure, and
\* the network being off is the only reason it is not.
NeededIsStarted == targets # {} => (IsStarted(stream) <=> enabled)

\* The idle timer runs only on a stream nothing listens on: it never stops one
\* that is needed.
IdleIsUnneeded == stream.idle => stream.state = "Open" /\ targets = {} /\ enabled

\* The assertions of the tracker: its timer runs only while the state is Unknown
\* and nothing has failed often enough, and online means no failures.
TimerFitsState ==
  /\ online.timer => online.state = "Unknown" /\ online.failures < MaxFailures
  /\ online.state = "Online" => online.failures = 0 /\ IsStarted(stream)
  /\ online.timer => IsStarted(stream)

\* While the client tries to connect without knowing, the timer runs, unless the
\* tracker was set back to Unknown while the stream was already on its way.
UnknownIsTimed ==
  (online.state = "Unknown" /\ IsStarted(stream) /\ targets # {}) =>
    (online.timer \/ lapsed)

\* The base delay of a retry (what backoff doubles; the jitter added to it is left
\* out) is longer than the one before it, up to the limit, and gets shorter only
\* when a response has come or the stream is stopped on purpose.
RetriesSlowDown ==
  [][/\ stream'.state = "Backoff" /\ stream.state # "Backoff" =>
          stream'.base > stream.base \/ stream'.base = MaxDelay
     /\ stream'.base < stream.base =>
          stream'.state \in {"Initial", "Starting"} \/ online'.state = "Online"]_vars

\* However the backend behaves, a client that listens gets to know whether it is
\* online or should answer from its cache (or the timer has lapsed).
UnknownResolves ==
  (online.state = "Unknown" /\ targets # {} /\ enabled) ~>
    (online.state # "Unknown" \/ targets = {} \/ ~enabled \/ lapsed)

\* A stream that is needed opens, after however many failures (at most MaxCloses),
\* from whatever state it was in when the need arose.
NeededOpens ==
  (targets # {} /\ enabled) ~> (stream.state = "Open" \/ targets = {} \/ ~enabled)

\* What holds of the watch stream at every moment: its state, its timers and the
\* online state agree with what is listened to, whatever tokens, failures and
\* elapsed timers come late.
ListenSafety ==
  /\ ListenTypeOK
  /\ TokenForThisStart /\ CallbacksFitState
  /\ NeededIsStarted /\ IdleIsUnneeded
  /\ TimerFitsState /\ UnknownIsTimed

\* A client that listens is not kept waiting: it learns whether it is online, and
\* its stream opens.
ListenProgress == UnknownResolves /\ NeededOpens
=============================================================================
