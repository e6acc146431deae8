--------------------------- MODULE ListenStreamProofs ---------------------------
(***************************************************************************)
(* Proofs about ListenStream, for any targets, delays and number of        *)
(* failures.  A handler is a composition of operators on the stream and on *)
(* the tracker, and so are the proofs: first what each operator makes of a *)
(* record that is in order, then the handlers.                             *)
(***************************************************************************)
EXTENDS ListenStream, TLAPS

Streams == [state : StreamState, closes : 0..MaxCloses,
            tokens : SUBSET (0..MaxCloses), grpc : BOOLEAN, idle : BOOLEAN,
            retry : BOOLEAN, base : Delay]
Trackers == [state : OnlineState, failures : Nat, timer : BOOLEAN]

\* A stream whose tokens and callbacks fit its state; TokenForThisStart and the
\* first parts of CallbacksFitState, of any record.
InOrder(s) ==
  /\ s \in Streams
  /\ \A c \in s.tokens : c <= s.closes
  /\ s.closes \in s.tokens <=> s.state = "Starting"
  /\ s.retry <=> s.state = "Backoff"
  /\ s.grpc <=> s.state = "Open"
  /\ s.idle => s.state = "Open"

\* A tracker whose timer fits its state; the first parts of TimerFitsState.
Sound(o) ==
  /\ o \in Trackers
  /\ o.timer => o.state = "Unknown" /\ o.failures < MaxFailures
  /\ o.state = "Online" => o.failures = 0

(***************************************************************************)
(* What the tracker knows of a stream: without one it waits for nothing    *)
(* and counts nothing; with one under way a state that is unknown is       *)
(* timed, or has lapsed, whether or not anything is listened to.           *)
(***************************************************************************)
TrackerFits(s, o, l) ==
  /\ o.timer => IsStarted(s)
  /\ o.state = "Online" => IsStarted(s)
  /\ ~IsStarted(s) => o.failures = 0
  /\ o.state = "Unknown" /\ IsStarted(s) => o.timer \/ l

(***************************************************************************)
(* The inductive invariant.  Two facts are not in ListenSafety: with the   *)
(* network off there is no stream and the state is Offline, also while     *)
(* nothing is listened to; and the tracker fits the stream at all times.   *)
(***************************************************************************)
DisabledIsStopped == ~enabled => ~IsStarted(stream) /\ online.state = "Offline"

IInv ==
  /\ InOrder(stream) /\ Sound(online)
  /\ targets \subseteq Target
  /\ enabled \in BOOLEAN /\ aggregator \in BOOLEAN /\ lapsed \in BOOLEAN
  /\ aggregator <=> IsStarted(stream)
  /\ NeededIsStarted /\ IdleIsUnneeded
  /\ TrackerFits(stream, online, lapsed)
  /\ DisabledIsStopped
-----------------------------------------------------------------------------
(***************************************************************************)
(* The operators on a stream                                               *)
(***************************************************************************)

\* A delay grows, until it is the longest one (BackoffAndRun).
LEMMA GrownIsLarger ==
  ASSUME NEW b \in Delay
  PROVE  Grown(b) \in Delay /\ (Grown(b) > b \/ Grown(b) = MaxDelay)
<1>1. InitialDelay \in Nat /\ InitialDelay > 1 /\ MaxDelay \in Nat /\ InitialDelay <= MaxDelay
  BY DelayAssumption
<1>2. b \in Nat /\ b <= MaxDelay /\ (b * 3) \div 2 \in Int
  BY <1>1 DEF Delay
<1>3. b > 1 => (b * 3) \div 2 > b
  BY <1>2
<1> QED
  BY <1>1, <1>2, <1>3 DEF Grown, Clamp, Delay

\* Start leaves a started stream in order, through the backoff only after an
\* error, and then with a longer delay.
LEMMA StartInOrder ==
  ASSUME NEW s, InOrder(s), ~IsStarted(s)
  PROVE  /\ InOrder(Start(s)) /\ IsStarted(Start(s))
         /\ Start(s).state # "Open" /\ ~Start(s).idle
         /\ Start(s).state = "Backoff" =>
              Start(s).base > s.base \/ Start(s).base = MaxDelay
         /\ Start(s).state = IF s.state = "Error" THEN "Backoff" ELSE "Starting"
<1> USE DEF InOrder, IsStarted, Streams, StreamState
<1>1. s.base \in Delay
  OBVIOUS
<1>2. CASE s.state = "Error"
  <2> DEFINE b == Grown(s.base)
             t == [state |-> "Backoff", closes |-> s.closes, tokens |-> s.tokens,
                   grpc |-> s.grpc, idle |-> s.idle, retry |-> TRUE, base |-> b]
  <2>1. b \in Delay /\ (b > s.base \/ b = MaxDelay) /\ s.base <= MaxDelay
    BY <1>1, GrownIsLarger, DelayAssumption DEF Delay
  <2>2. Start(s) = t
    BY <1>2 DEF Start
  <2> HIDE DEF b
  <2>3. t \in Streams
    BY <2>1
  <2>4. InOrder(t) /\ IsStarted(t) /\ t.state = "Backoff" /\ ~t.idle
    BY <1>2, <2>3
  <2>5. t.base = b /\ ~(b < s.base)
    BY <1>1, <2>1, DelayAssumption DEF Delay
  <2> QED
    BY <1>2, <2>1, <2>2, <2>4, <2>5
<1>3. CASE s.state # "Error"
  <2> DEFINE t == [state |-> "Starting", closes |-> s.closes,
                   tokens |-> s.tokens \union {s.closes}, grpc |-> s.grpc,
                   idle |-> s.idle, retry |-> s.retry, base |-> s.base]
  <2>1. Start(s) = t
    BY <1>3 DEF Start
  <2>2. t \in Streams /\ s.closes \in Nat
    BY FailuresAssumption
  <2>3. InOrder(t) /\ IsStarted(t) /\ t.state = "Starting" /\ ~t.idle
    BY <1>3, <2>2
  <2> QED
    BY <1>3, <2>1, <2>3
<1> QED
  BY <1>2, <1>3

\* Close leaves a stopped stream that no token still under way can resume, and
\* keeps its delay unless it is closed on purpose.
LEMMA CloseInOrder ==
  ASSUME NEW s \in Streams, NEW status \in Status, s.closes < MaxCloses,
         \A c \in s.tokens : c <= s.closes
  PROVE  /\ InOrder(Close(s, status)) /\ ~IsStarted(Close(s, status))
         /\ ~Close(s, status).idle
         /\ status # "ok" => Close(s, status).base >= s.base
         /\ Close(s, status).state = IF status = "ok" THEN "Initial" ELSE "Error"
<1> USE DEF InOrder, IsStarted, Streams, StreamState, Status
<1> DEFINE b == BaseAfter(s.base, status)
<1>1. MaxDelay \in Nat /\ MaxCloses \in Nat /\ s.base \in Delay
  BY DelayAssumption, FailuresAssumption
<1>2. b \in Delay /\ (status # "ok" => b >= s.base)
  BY <1>1 DEF Delay, BaseAfter
<1>3. s.closes + 1 \in 0..MaxCloses /\ s.closes + 1 \notin s.tokens
  BY <1>1
<1> HIDE DEF b
<1>4. Close(s, status) \in Streams
  BY <1>2, <1>3 DEF Close, b
<1> QED
  BY <1>1, <1>2, <1>3, <1>4 DEF Close, b

\* Stop, of a started stream or of any other.
LEMMA StoppedInOrder ==
  ASSUME NEW s, InOrder(s), s.closes < MaxCloses
  PROVE  InOrder(Stopped(s)) /\ ~IsStarted(Stopped(s)) /\ ~Stopped(s).idle
         /\ (Stopped(s).base < s.base => Stopped(s).state = "Initial")
<1>1. s \in Streams /\ "ok" \in Status
  BY DEF InOrder, Status
<1>2. CASE IsStarted(s)
  BY <1>1, <1>2, CloseInOrder DEF InOrder, Stopped
<1>3. CASE ~IsStarted(s)
  BY <1>1, <1>3 DEF Stopped, InOrder, IsStarted, Streams, Delay
<1> QED
  BY <1>2, <1>3
-----------------------------------------------------------------------------
(***************************************************************************)
(* The operators on the tracker                                            *)
(***************************************************************************)

\* UpdateState stops the timer and counts no failures.
LEMMA UpdateStateSound ==
  ASSUME NEW new \in OnlineState
  PROVE  Sound(UpdateState(new)) /\ ~UpdateState(new).timer
         /\ UpdateState(new).failures = 0 /\ UpdateState(new).state = new
BY FailuresAssumption DEF Sound, Trackers, UpdateState

\* A start is timed, unless failures have been counted before: then the tracker
\* is left alone.
LEMMA StreamStartSound ==
  ASSUME NEW o, Sound(o)
  PROVE  /\ Sound(HandleWatchStreamStart(o))
         /\ o.failures = 0 => HandleWatchStreamStart(o).timer
         /\ o.failures # 0 => HandleWatchStreamStart(o) = o
<1> DEFINE t == [state |-> "Unknown", failures |-> o.failures, timer |-> TRUE]
<1>1. CASE o.failures = 0
  <2>1. HandleWatchStreamStart(o) = t
    BY <1>1 DEF Sound, Trackers, HandleWatchStreamStart
  <2>2. Sound(t) /\ t.timer
    BY <1>1, FailuresAssumption DEF Sound, Trackers, OnlineState
  <2> QED
    BY <1>1, <2>1, <2>2
<1>2. CASE o.failures # 0
  BY <1>2 DEF HandleWatchStreamStart
<1> QED
  BY <1>1, <1>2

\* A failure never leaves the client online; while the state stays Unknown, so
\* does the timer.
LEMMA StreamFailureSound ==
  ASSUME NEW o, Sound(o)
  PROVE  /\ Sound(HandleWatchStreamFailure(o))
         /\ HandleWatchStreamFailure(o).state # "Online"
         /\ HandleWatchStreamFailure(o).state = "Unknown" =>
              \/ HandleWatchStreamFailure(o).failures = 0
              \/ o.state = "Unknown" /\ HandleWatchStreamFailure(o).timer = o.timer
<1> USE DEF Sound, Trackers
<1>1. o.failures \in Nat /\ o.state \in OnlineState /\ o.timer \in BOOLEAN
  OBVIOUS
<1>2. CASE o.state = "Online"
  <2> DEFINE t == [state |-> "Unknown", failures |-> o.failures, timer |-> o.timer]
  <2>1. HandleWatchStreamFailure(o) = t
    BY <1>2 DEF HandleWatchStreamFailure
  <2>2. t \in Trackers /\ Sound(t) /\ t.state = "Unknown" /\ t.failures = 0
    BY <1>1, <1>2, FailuresAssumption DEF OnlineState
  <2> QED
    BY <2>1, <2>2
<1>3. CASE o.state # "Online" /\ o.failures + 1 >= MaxFailures
  <2> DEFINE t == [state |-> "Offline", failures |-> o.failures + 1, timer |-> FALSE]
  <2>1. HandleWatchStreamFailure(o) = t
    BY <1>3 DEF HandleWatchStreamFailure
  <2>2. Sound(t) /\ t.state = "Offline"
    BY <1>1 DEF OnlineState
  <2> QED
    BY <2>1, <2>2
<1>4. CASE o.state # "Online" /\ ~(o.failures + 1 >= MaxFailures)
  <2> DEFINE t == [state |-> o.state, failures |-> o.failures + 1, timer |-> o.timer]
  <2>1. HandleWatchStreamFailure(o) = t
    BY <1>4 DEF HandleWatchStreamFailure
  <2>2. t \in Trackers
    BY <1>1
  <2>3. Sound(t) /\ t.timer = o.timer /\ t.state = o.state
    BY <1>1, <1>4, <2>2, FailuresAssumption
  <2> QED
    BY <1>4, <2>1, <2>3
<1> QED
  BY <1>2, <1>3, <1>4
-----------------------------------------------------------------------------
(***************************************************************************)
(* The handlers                                                            *)
(***************************************************************************)

\* What RetriesSlowDown says of a step.
SlowDown ==
  /\ stream'.state = "Backoff" /\ stream.state # "Backoff" =>
       stream'.base > stream.base \/ stream'.base = MaxDelay
  /\ stream'.base < stream.base =>
       stream'.state \in {"Initial", "Starting"} \/ online'.state = "Online"

\* Starting the watch stream, from whatever the handler has made of the stream
\* and of the tracker.
LEMMA StartWatchStreamInOrder ==
  ASSUME NEW s, InOrder(s), ~IsStarted(s), NEW o, Sound(o), o.state # "Online",
         StartWatchStream(s, o)
  PROVE  /\ InOrder(stream') /\ IsStarted(stream') /\ ~stream'.idle
         /\ Sound(online') /\ aggregator' = TRUE /\ online'.state # "Online"
         /\ o.failures = 0 => online'.timer
         /\ o.failures # 0 => online' = o
<1>1. stream' = Start(s) /\ online' = HandleWatchStreamStart(o) /\ aggregator' = TRUE
  BY DEF StartWatchStream
<1>2. InOrder(stream') /\ IsStarted(stream') /\ ~stream'.idle
  BY <1>1, StartInOrder
<1>3. Sound(online') /\ (o.failures = 0 => online'.timer) /\ (o.failures # 0 => online' = o)
  BY <1>1, StreamStartSound
<1>4. online'.state # "Online"
  BY <1>3 DEF Sound
<1> QED
  BY <1>1, <1>2, <1>3, <1>4

\* OnWatchStreamClose, called with a stream that was started and has been closed:
\* if it is restarted, the time it had to come online goes on.
LEMMA WatchStreamCloseKeepsIInv ==
  ASSUME IInv, IsStarted(stream), UNCHANGED <<targets, enabled>>,
         NEW s, InOrder(s), ~IsStarted(s), ~s.idle,
         s.base >= stream.base \/ s.state = "Initial",
         OnWatchStreamClose(s)
  PROVE  IInv' /\ SlowDown
<1>1. enabled /\ enabled' /\ targets' = targets /\ Sound(online)
  BY DEF IInv, DisabledIsStopped
<1>2. s \in Streams /\ s.base \in Delay /\ stream.base \in Delay /\ s.state \in {"Initial", "Error"}
  BY DEF IInv, InOrder, Streams, IsStarted, StreamState
<1>3. CASE targets # {}
  <2> DEFINE o == HandleWatchStreamFailure(online)
  <2>1. StartWatchStream(s, o) /\ Settle
    BY <1>1, <1>3 DEF OnWatchStreamClose, ShouldStartWatchStream
  <2>2. /\ Sound(o) /\ o.state # "Online"
        /\ o.state = "Unknown" =>
             \/ o.failures = 0
             \/ online.state = "Unknown" /\ o.timer = online.timer
    BY <1>1, StreamFailureSound
  <2> HIDE DEF o
  <2>3. /\ InOrder(stream') /\ IsStarted(stream') /\ ~stream'.idle
        /\ Sound(online') /\ aggregator' = TRUE /\ online'.state # "Online"
        /\ o.failures = 0 => online'.timer
        /\ o.failures # 0 => online' = o
    BY <2>1, <2>2, StartWatchStreamInOrder
  <2>4. lapsed' \in BOOLEAN /\ (lapsed' <=> lapsed /\ online'.state = "Unknown")
    BY <2>1 DEF Settle, IInv
  <2>5. TrackerFits(stream', online', lapsed')
    BY <2>2, <2>3, <2>4 DEF TrackerFits, IInv
  <2>6. IInv'
    BY <1>1, <2>3, <2>4, <2>5 DEF IInv, NeededIsStarted, IdleIsUnneeded, DisabledIsStopped
  <2>7. SlowDown
    <3>1. /\ stream' = Start(s) /\ Start(s).base \in Delay
          /\ Start(s).state = "Backoff" => Start(s).base > s.base \/ Start(s).base = MaxDelay
          /\ Start(s).state = IF s.state = "Error" THEN "Backoff" ELSE "Starting"
      BY <2>1, StartInOrder DEF StartWatchStream, InOrder, Streams
    <3> QED
      BY <1>2, <3>1, DelayAssumption DEF SlowDown, Delay
  <2> QED
    BY <2>6, <2>7
<1>4. CASE targets = {}
  <2>1. /\ stream' = s /\ aggregator' = FALSE
        /\ online' = UpdateState("Unknown") /\ lapsed' = FALSE
    BY <1>4 DEF OnWatchStreamClose, ShouldStartWatchStream
  <2>2. Sound(online') /\ ~online'.timer /\ online'.failures = 0 /\ online'.state = "Unknown"
    BY <2>1, UpdateStateSound DEF OnlineState
  <2>3. IInv'
    BY <1>1, <1>4, <2>1, <2>2 DEF IInv, NeededIsStarted, IdleIsUnneeded, TrackerFits,
       DisabledIsStopped
  <2>4. SlowDown
    BY <1>2, <2>1, DelayAssumption DEF SlowDown, Delay
  <2> QED
    BY <2>3, <2>4
<1> QED
  BY <1>3, <1>4

\* The client starts with nothing to listen to and the network on.
LEMMA InitIInv == Init => IInv
<1> SUFFICES ASSUME Init PROVE IInv
  OBVIOUS
<1>1. InOrder(stream)
  BY FailuresAssumption, DelayAssumption DEF Init, InOrder, Streams, StreamState, Delay
<1>2. Sound(online) /\ online.state = "Unknown" /\ online.failures = 0 /\ ~online.timer
  BY UpdateStateSound DEF Init, OnlineState
<1>3. ~IsStarted(stream)
  BY DEF Init, IsStarted
<1> QED
  BY <1>1, <1>2, <1>3 DEF Init, IInv, NeededIsStarted, IdleIsUnneeded, TrackerFits,
     DisabledIsStopped

\* The first target starts the stream, with the timer of the tracker.
LEMMA ListenStep ==
  ASSUME IInv, NEW t \in Target, Listen(t)
  PROVE  IInv' /\ SlowDown
<1>1. targets' = targets \union {t} /\ enabled' = enabled /\ targets' # {} /\ targets' \subseteq Target
  BY DEF Listen, IInv
<1>2. CASE ShouldStartWatchStream(stream, targets', enabled)
  <2>1. StartWatchStream(stream, online) /\ lapsed' = FALSE
    BY <1>2 DEF Listen
  <2>2. enabled /\ ~IsStarted(stream) /\ InOrder(stream) /\ Sound(online)
        /\ online.failures = 0 /\ online.state # "Online"
    BY <1>2 DEF ShouldStartWatchStream, IInv, TrackerFits
  <2>3. /\ InOrder(stream') /\ IsStarted(stream') /\ ~stream'.idle
        /\ Sound(online') /\ aggregator' = TRUE /\ online'.state # "Online"
        /\ online'.timer
    BY <2>1, <2>2, StartWatchStreamInOrder
  <2>4. IInv'
    BY <1>1, <2>1, <2>2, <2>3 DEF IInv, NeededIsStarted, IdleIsUnneeded, TrackerFits,
       DisabledIsStopped
  <2>5. SlowDown
    <3>1. /\ stream' = Start(stream) /\ Start(stream).base \in Delay /\ stream.base \in Delay
          /\ Start(stream).state = "Backoff" =>
               Start(stream).base > stream.base \/ Start(stream).base = MaxDelay
          /\ Start(stream).state \in {"Backoff", "Starting"}
      BY <2>1, <2>2, StartInOrder DEF StartWatchStream, InOrder, Streams
    <3> QED
      BY <3>1, DelayAssumption DEF SlowDown, Delay
  <2> QED
    BY <2>4, <2>5
<1>3. CASE ~ShouldStartWatchStream(stream, targets', enabled)
  <2>1. /\ stream' = IF IsOpen(stream) THEN Written(stream) ELSE stream
        /\ UNCHANGED <<aggregator, online, lapsed>>
    BY <1>3 DEF Listen
  <2>2. InOrder(stream') /\ stream'.state = stream.state /\ stream'.base = stream.base
        /\ ~stream'.idle
    BY <2>1 DEF IInv, InOrder, Streams, Written, IsOpen
  <2>3. IsStarted(stream') <=> IsStarted(stream)
    BY <2>2 DEF IsStarted
  <2>4. IInv'
    BY <1>1, <1>3, <2>1, <2>2, <2>3 DEF IInv, NeededIsStarted, IdleIsUnneeded,
       TrackerFits, DisabledIsStopped, ShouldStartWatchStream
  <2>5. SlowDown
    BY <2>2, DelayAssumption DEF SlowDown, IInv, InOrder, Streams, Delay
  <2> QED
    BY <2>4, <2>5
<1> QED
  BY <1>2, <1>3

\* The last target leaves an open stream idle, and sets the tracker back.
LEMMA StopListeningStep ==
  ASSUME IInv, NEW t \in Target, StopListening(t)
  PROVE  IInv' /\ SlowDown
<1>1. /\ targets' = targets \ {t} /\ enabled' = enabled /\ aggregator' = aggregator
      /\ targets # {} /\ targets' \subseteq Target
      /\ stream' = IF IsOpen(stream) THEN [stream EXCEPT !.idle = (targets' = {})] ELSE stream
  BY DEF StopListening, IInv
<1>2. /\ InOrder(stream') /\ stream'.state = stream.state /\ stream'.base = stream.base
      /\ stream'.idle => targets' = {} /\ stream.state = "Open"
  BY <1>1 DEF IInv, InOrder, Streams, IsOpen
<1>3. (IsStarted(stream') <=> IsStarted(stream)) /\ (IsStarted(stream) <=> enabled)
      /\ (stream.state = "Open" => IsStarted(stream))
  BY <1>1, <1>2 DEF IsStarted, IInv, NeededIsStarted
<1>4. /\ Sound(online') /\ lapsed' \in BOOLEAN
      /\ TrackerFits(stream', online', lapsed')
      /\ ~enabled => online' = online
  <2>1. CASE targets' = {} /\ ~IsOpen(stream) /\ enabled
    BY <1>3, <2>1, UpdateStateSound DEF StopListening, Lapse, TrackerFits, IInv, OnlineState
  <2>2. CASE ~(targets' = {} /\ ~IsOpen(stream) /\ enabled)
    BY <1>3, <2>2 DEF StopListening, TrackerFits, IInv
  <2> QED
    BY <2>1, <2>2
<1>5. IInv'
  BY <1>1, <1>2, <1>3, <1>4 DEF IInv, NeededIsStarted, IdleIsUnneeded, DisabledIsStopped
<1>6. SlowDown
  BY <1>2, DelayAssumption DEF SlowDown, IInv, InOrder, Streams, Delay
<1> QED
  BY <1>5, <1>6

\* DisableNetwork stops the stream, whatever state it is in.
LEMMA DisableNetworkStep ==
  ASSUME IInv, DisableNetwork
  PROVE  IInv' /\ SlowDown
<1>1. InOrder(stream') /\ ~IsStarted(stream') /\ ~stream'.idle
      /\ (stream'.base < stream.base => stream'.state = "Initial")
  BY StoppedInOrder DEF IInv, DisableNetwork
<1>2. Sound(online') /\ ~online'.timer /\ online'.failures = 0 /\ online'.state = "Offline"
  BY UpdateStateSound DEF DisableNetwork, OnlineState
<1>3. IInv'
  BY <1>1, <1>2 DEF IInv, DisableNetwork, NeededIsStarted, IdleIsUnneeded, TrackerFits,
     DisabledIsStopped
<1>4. SlowDown
  BY <1>1 DEF SlowDown, IsStarted
<1> QED
  BY <1>3, <1>4

\* EnableNetwork of a disabled network finds no stream and no failures counted.
LEMMA EnableNetworkAfterDisable ==
  ASSUME IInv, EnableNetwork, ~enabled
  PROVE  IInv' /\ SlowDown
<1>1. /\ ~enabled /\ enabled' = TRUE /\ lapsed' = FALSE /\ targets' = targets
      /\ ~IsStarted(stream) /\ online.state = "Offline" /\ online.failures = 0
      /\ InOrder(stream) /\ Sound(online) /\ ~stream.idle /\ aggregator = FALSE
  <2>1. /\ ~IsStarted(stream) /\ online.state = "Offline" /\ online.failures = 0
        /\ InOrder(stream) /\ Sound(online) /\ ~stream.idle /\ aggregator = FALSE
    BY DEF IInv, DisabledIsStopped, TrackerFits, IdleIsUnneeded
  <2>2. enabled' = TRUE /\ targets' = targets
    BY DEF EnableNetwork
  <2>3. lapsed' = FALSE \/ lapsed' = IsStarted(stream)
    BY DEF EnableNetwork, Lapse
  <2>4. IsStarted(stream) = FALSE
    BY <2>1 DEF IsStarted
  <2>5. lapsed' = FALSE
    BY <2>3, <2>4, Zenon
  <2> QED
    BY <2>1, <2>2, <2>5
<1>2. CASE targets # {}
  <2>1. StartWatchStream(stream, online)
    BY <1>1, <1>2 DEF EnableNetwork, ShouldStartWatchStream
  <2>2. /\ InOrder(stream') /\ IsStarted(stream') /\ ~stream'.idle
        /\ Sound(online') /\ aggregator' = TRUE /\ online'.state # "Online"
        /\ online'.timer
    BY <1>1, <2>1, StartWatchStreamInOrder
  <2>3. IInv'
    BY <1>1, <2>2 DEF IInv, NeededIsStarted, IdleIsUnneeded, TrackerFits, DisabledIsStopped
  <2>4. SlowDown
    <3>1. /\ stream' = Start(stream) /\ Start(stream).base \in Delay /\ stream.base \in Delay
          /\ Start(stream).state = "Backoff" =>
               Start(stream).base > stream.base \/ Start(stream).base = MaxDelay
          /\ Start(stream).state \in {"Backoff", "Starting"}
      BY <1>1, <2>1, StartInOrder DEF StartWatchStream, InOrder, Streams
    <3> QED
      BY <3>1, DelayAssumption DEF SlowDown, Delay
  <2> QED
    BY <2>3, <2>4
<1>3. CASE targets = {}
  <2>1. online' = UpdateState("Unknown") /\ UNCHANGED <<stream, aggregator>>
    BY <1>3 DEF EnableNetwork, ShouldStartWatchStream
  <2>2. Sound(online') /\ ~online'.timer /\ online'.failures = 0 /\ online'.state = "Unknown"
    BY <2>1, UpdateStateSound DEF OnlineState
  <2>3. IInv'
    BY <1>1, <1>3, <2>1, <2>2 DEF IInv, NeededIsStarted, IdleIsUnneeded, TrackerFits,
       DisabledIsStopped
  <2>4. SlowDown
    BY <2>1, DelayAssumption DEF SlowDown, IInv, InOrder, Streams, Delay
  <2> QED
    BY <2>3, <2>4
<1> QED
  BY <1>2, <1>3

\* Of an enabled one it sets the tracker back, and leaves the stream as it is.
LEMMA EnableNetworkStep ==
  ASSUME IInv, EnableNetwork
  PROVE  IInv' /\ SlowDown
<1>1. CASE ~enabled
  BY <1>1, EnableNetworkAfterDisable
<1>2. CASE enabled
  <2>1. ~ShouldStartWatchStream(stream, targets, TRUE)
    BY <1>2 DEF IInv, NeededIsStarted, ShouldStartWatchStream
  <2>2. /\ enabled' = TRUE /\ UNCHANGED <<stream, targets, aggregator>>
        /\ online' = UpdateState("Unknown") /\ lapsed' = IsStarted(stream)
    BY <2>1 DEF EnableNetwork, Lapse
  <2>3. /\ Sound(online') /\ ~online'.timer /\ online'.failures = 0
        /\ online'.state = "Unknown" /\ lapsed' \in BOOLEAN
    BY <2>2, UpdateStateSound DEF OnlineState, IsStarted
  <2>4. IInv'
    BY <1>2, <2>2, <2>3 DEF IInv, NeededIsStarted, IdleIsUnneeded, TrackerFits,
       DisabledIsStopped, IsStarted
  <2>5. SlowDown
    BY <2>2, DelayAssumption DEF SlowDown, IInv, InOrder, Streams, Delay
  <2> QED
    BY <2>4, <2>5
<1> QED
  BY <1>1, <1>2

\* A new user stops the stream and starts another with a token of its own.
LEMMA HandleCredentialChangeStep ==
  ASSUME IInv, HandleCredentialChange
  PROVE  IInv' /\ SlowDown
<1> DEFINE s == Stopped(stream)
           o == UpdateState("Unknown")
<1>1. enabled /\ enabled' /\ lapsed' = FALSE /\ targets' = targets /\ InOrder(stream)
      /\ stream.base \in Delay
  BY DEF IInv, HandleCredentialChange, InOrder, Streams
<1>2. /\ InOrder(s) /\ ~IsStarted(s) /\ ~s.idle /\ s.base \in Delay
      /\ s.base < stream.base => s.state = "Initial"
      /\ s.state \in {"Initial", "Error"}
  BY StoppedInOrder DEF IInv, HandleCredentialChange, InOrder, Streams, IsStarted, StreamState
<1>3. Sound(o) /\ ~o.timer /\ o.failures = 0 /\ o.state = "Unknown"
  BY UpdateStateSound DEF OnlineState
<1>4. CASE targets # {}
  <2>1. StartWatchStream(s, o)
    BY <1>4 DEF HandleCredentialChange
  <2> HIDE DEF s, o
  <2>2. /\ InOrder(stream') /\ IsStarted(stream') /\ ~stream'.idle
        /\ Sound(online') /\ aggregator' = TRUE /\ online'.state # "Online"
        /\ online'.timer
    BY <1>2, <1>3, <2>1, StartWatchStreamInOrder
  <2>3. IInv'
    BY <1>1, <2>2 DEF IInv, NeededIsStarted, IdleIsUnneeded, TrackerFits, DisabledIsStopped
  <2>4. SlowDown
    <3>1. /\ stream' = Start(s) /\ Start(s).base \in Delay
          /\ Start(s).state = "Backoff" => Start(s).base > s.base \/ Start(s).base = MaxDelay
          /\ Start(s).state = IF s.state = "Error" THEN "Backoff" ELSE "Starting"
      BY <1>2, <2>1, StartInOrder DEF StartWatchStream, InOrder, Streams
    <3> QED
      BY <1>1, <1>2, <3>1, DelayAssumption DEF SlowDown, Delay
  <2> QED
    BY <2>3, <2>4
<1>5. CASE targets = {}
  <2>1. stream' = s /\ aggregator' = FALSE /\ online' = o
    BY <1>5 DEF HandleCredentialChange
  <2> HIDE DEF s, o
  <2>2. IInv'
    BY <1>1, <1>2, <1>3, <1>5, <2>1 DEF IInv, NeededIsStarted, IdleIsUnneeded, TrackerFits,
       DisabledIsStopped
  <2>3. SlowDown
    BY <1>2, <2>1 DEF SlowDown
  <2> QED
    BY <2>2, <2>3
<1> QED
  BY <1>4, <1>5

\* The token for this start opens the stream, any other only goes.
LEMMA TokenArrivesStep ==
  ASSUME IInv, NEW c \in stream.tokens, TokenArrives(c)
  PROVE  IInv' /\ SlowDown
<1> DEFINE rest == [stream EXCEPT !.tokens = @ \ {c}]
           open == [rest EXCEPT !.state = "Open", !.grpc = TRUE]
<1>1. UNCHANGED <<targets, enabled, aggregator, online, lapsed>>
      /\ InOrder(stream) /\ stream \in Streams
  BY DEF TokenArrives, IInv, InOrder
<1>2. rest = [state |-> stream.state, closes |-> stream.closes, tokens |-> stream.tokens \ {c},
              grpc |-> stream.grpc, idle |-> stream.idle, retry |-> stream.retry,
              base |-> stream.base]
  BY <1>1 DEF Streams
<1>3. CASE c # stream.closes
  <2>1. stream' = rest
    BY <1>3 DEF TokenArrives
  <2>2. rest \in Streams
    BY <1>1, <1>2 DEF Streams
  <2> HIDE DEF rest
  <2>3. InOrder(stream') /\ stream'.state = stream.state /\ stream'.idle = stream.idle
        /\ stream'.base = stream.base
    BY <1>1, <1>2, <1>3, <2>1, <2>2 DEF InOrder
  <2>4. IInv'
    BY <1>1, <2>3 DEF IInv, NeededIsStarted, IdleIsUnneeded, TrackerFits, DisabledIsStopped,
       IsStarted
  <2>5. SlowDown
    BY <1>1, <2>3, DelayAssumption DEF SlowDown, Streams, Delay
  <2> QED
    BY <2>4, <2>5
<1>4. CASE c = stream.closes
  <2>1. stream.state = "Starting" /\ ~stream.retry /\ ~stream.idle
    BY <1>1, <1>4 DEF InOrder, Streams
  <2>2. stream' = open \/ stream' = Written(open)
    BY <1>4 DEF TokenArrives
  <2> DEFINE t == [state |-> "Open", closes |-> stream.closes, tokens |-> stream.tokens \ {c},
                   grpc |-> TRUE, idle |-> FALSE, retry |-> FALSE, base |-> stream.base]
  <2>3. t \in Streams
    BY <1>1 DEF Streams, StreamState
  <2>4. open = t
    <3>1. rest \in Streams /\ rest.idle = FALSE /\ rest.retry = FALSE /\ rest.base = stream.base
          /\ rest.closes = stream.closes /\ rest.tokens = stream.tokens \ {c}
      BY <1>1, <1>2, <2>1 DEF Streams
    <3> HIDE DEF rest
    <3>2. /\ open \in Streams /\ open.state = "Open" /\ open.grpc = TRUE
          /\ open.closes = rest.closes /\ open.tokens = rest.tokens /\ open.idle = rest.idle
          /\ open.retry = rest.retry /\ open.base = rest.base
      BY <3>1 DEF Streams, StreamState
    <3> HIDE DEF open
    <3> QED
      BY <3>1, <3>2 DEF Streams
  <2>5. stream' = t
    <3>1. Written(t) \in Streams /\ Written(t).idle = FALSE /\ Written(t).state = t.state
          /\ Written(t).closes = t.closes /\ Written(t).tokens = t.tokens
          /\ Written(t).grpc = t.grpc /\ Written(t).retry = t.retry /\ Written(t).base = t.base
      BY <2>3 DEF Written, Streams
    <3>2. Written(t) = t
      BY <3>1 DEF Streams
    <3> QED
      BY <2>2, <2>4, <3>2
  <2>6. InOrder(t)
    BY <1>1, <1>4, <2>3 DEF InOrder
  <2> HIDE DEF open, rest
  <2>7. IInv'
    BY <1>1, <2>1, <2>5, <2>6 DEF IInv, NeededIsStarted, IdleIsUnneeded, TrackerFits,
       DisabledIsStopped, IsStarted
  <2>8. SlowDown
    BY <1>1, <2>5, DelayAssumption DEF SlowDown, Streams, Delay
  <2> QED
    BY <2>7, <2>8
<1> QED
  BY <1>3, <1>4

\* TokenFails, OnStreamFinish and IdleElapsed close a started stream.
LEMMA ClosedStep ==
  ASSUME IInv, IsStarted(stream), UNCHANGED <<targets, enabled>>, stream.closes < MaxCloses,
         NEW s \in Streams, s.closes = stream.closes, s.tokens \subseteq stream.tokens,
         s.base = stream.base,
         NEW status \in Status, OnWatchStreamClose(Close(s, status))
  PROVE  IInv' /\ SlowDown
<1>1. InOrder(stream) /\ \A c \in s.tokens : c <= s.closes
  BY DEF IInv, InOrder
<1>2. /\ InOrder(Close(s, status)) /\ ~IsStarted(Close(s, status))
      /\ ~Close(s, status).idle
      /\ status # "ok" => Close(s, status).base >= s.base
      /\ Close(s, status).state = IF status = "ok" THEN "Initial" ELSE "Error"
  BY <1>1, CloseInOrder
<1> QED
  BY <1>2, WatchStreamCloseKeepsIInv

\* A token that could not be had closes the stream that waits for it.
LEMMA TokenFailsStep ==
  ASSUME IInv, NEW c \in stream.tokens, TokenFails(c)
  PROVE  IInv' /\ SlowDown
<1> DEFINE s == [stream EXCEPT !.tokens = @ \ {c}]
<1>1. stream \in Streams /\ IsStarted(stream) /\ stream.closes < MaxCloses
  BY DEF IInv, InOrder, TokenFails, IsStarted
<1>2. s \in Streams /\ s.closes = stream.closes /\ s.tokens \subseteq stream.tokens
      /\ s.base = stream.base
  BY <1>1 DEF Streams
<1>3. OnWatchStreamClose(Close(s, "error")) /\ UNCHANGED <<targets, enabled>> /\ "error" \in Status
  BY DEF TokenFails, Status
<1> HIDE DEF s
<1> QED
  BY <1>1, <1>2, <1>3, ClosedStep

\* A call that fails closes the open stream.
LEMMA OnStreamFinishStep ==
  ASSUME IInv, NEW status \in {"error", "resourceExhausted"}, OnStreamFinish(status)
  PROVE  IInv' /\ SlowDown
<1>1. stream \in Streams /\ IsStarted(stream) /\ stream.closes < MaxCloses /\ status \in Status
  BY DEF IInv, InOrder, OnStreamFinish, IsStarted, IsOpen, Status
<1>2. OnWatchStreamClose(Close(stream, status)) /\ UNCHANGED <<targets, enabled>>
  BY DEF OnStreamFinish
<1> QED
  BY <1>1, <1>2, ClosedStep

\* The idle timer stops an open stream that nothing listens on.
LEMMA IdleElapsedStep ==
  ASSUME IInv, IdleElapsed
  PROVE  IInv' /\ SlowDown
<1> DEFINE s == [stream EXCEPT !.idle = FALSE]
<1>1. stream \in Streams /\ IsStarted(stream) /\ stream.closes < MaxCloses
  BY DEF IInv, InOrder, IdleElapsed, IsStarted
<1>2. s \in Streams /\ s.closes = stream.closes /\ s.tokens \subseteq stream.tokens
      /\ s.base = stream.base
  BY <1>1 DEF Streams
<1>3. OnWatchStreamClose(Close(s, "ok")) /\ UNCHANGED <<targets, enabled>> /\ "ok" \in Status
  BY DEF IdleElapsed, Status
<1> HIDE DEF s
<1> QED
  BY <1>1, <1>2, <1>3, ClosedStep

\* A response brings the client online, and the next delay back to nothing.
LEMMA OnStreamReadStep ==
  ASSUME IInv, NEW rejected \in SUBSET targets, OnStreamRead(rejected)
  PROVE  IInv' /\ SlowDown
<1>1. stream \in Streams /\ stream.state = "Open" /\ IsStarted(stream) /\ enabled
      /\ stream' = [stream EXCEPT !.base = 0]
      /\ targets' \subseteq targets /\ lapsed' = FALSE /\ UNCHANGED <<enabled, aggregator>>
  BY DEF IInv, InOrder, OnStreamRead, IsOpen, IsStarted, DisabledIsStopped
<1>2. InOrder(stream') /\ stream'.state = stream.state /\ stream'.idle = stream.idle
  BY <1>1, DelayAssumption DEF IInv, InOrder, Streams, Delay
<1>3. Sound(online') /\ ~online'.timer /\ online'.state = "Online"
  BY UpdateStateSound DEF OnStreamRead, OnlineState
<1>4. IInv'
  BY <1>1, <1>2, <1>3 DEF IInv, NeededIsStarted, IdleIsUnneeded, TrackerFits,
     DisabledIsStopped, IsStarted
<1>5. SlowDown
  BY <1>1, <1>2, <1>3 DEF SlowDown
<1> QED
  BY <1>4, <1>5

\* The retry starts the stream that has waited for it.
LEMMA BackoffElapsedStep ==
  ASSUME IInv, BackoffElapsed
  PROVE  IInv' /\ SlowDown
<1> DEFINE s == [state |-> "Initial", closes |-> stream.closes, tokens |-> stream.tokens,
                 grpc |-> stream.grpc, idle |-> stream.idle, retry |-> FALSE,
                 base |-> stream.base]
<1>1. /\ stream \in Streams /\ InOrder(stream) /\ stream.state = "Backoff" /\ IsStarted(stream)
      /\ UNCHANGED <<targets, enabled, aggregator, online, lapsed>>
  BY DEF IInv, InOrder, BackoffElapsed, IsStarted
<1>2. stream' = Start(s)
  <2> DEFINE r == [stream EXCEPT !.retry = FALSE, !.state = "Initial"]
  <2>1. r \in Streams /\ r.state = "Initial" /\ ~r.retry
        /\ r.closes = stream.closes /\ r.tokens = stream.tokens /\ r.grpc = stream.grpc
        /\ r.idle = stream.idle /\ r.base = stream.base
    BY <1>1 DEF Streams, StreamState
  <2> HIDE DEF r
  <2>2. r = s
    BY <2>1 DEF Streams
  <2> QED
    BY <2>2 DEF BackoffElapsed, r
<1>3. s \in Streams
  BY <1>1 DEF Streams, StreamState
<1>4. InOrder(s) /\ ~IsStarted(s)
  BY <1>1, <1>3 DEF InOrder, IsStarted
<1>5. s.base = stream.base /\ s.state = "Initial"
  OBVIOUS
<1> HIDE DEF s
<1>6. InOrder(stream') /\ IsStarted(stream') /\ ~stream'.idle /\ stream'.state = "Starting"
  BY <1>2, <1>4, <1>5, StartInOrder
<1>7. IInv'
  BY <1>1, <1>6 DEF IInv, NeededIsStarted, IdleIsUnneeded, TrackerFits, DisabledIsStopped
<1>8. SlowDown
  BY <1>6 DEF SlowDown
<1> QED
  BY <1>7, <1>8

\* The timer of the tracker takes the client offline, not the stream.
LEMMA OnlineTimerElapsedStep ==
  ASSUME IInv, OnlineTimerElapsed
  PROVE  IInv' /\ SlowDown
<1>1. online \in Trackers /\ online.timer /\ online.state = "Unknown" /\ IsStarted(stream)
      /\ lapsed' = FALSE /\ UNCHANGED <<stream, targets, enabled, aggregator>>
  BY DEF IInv, Sound, TrackerFits, OnlineTimerElapsed
<1>2. online' \in Trackers /\ ~online'.timer /\ online'.state = "Offline"
      /\ online'.failures = online.failures
  BY <1>1 DEF OnlineTimerElapsed, Trackers, OnlineState
<1>3. Sound(online')
  BY <1>2 DEF Sound
<1>4. IInv'
  BY <1>1, <1>2, <1>3 DEF IInv, NeededIsStarted, IdleIsUnneeded, TrackerFits, DisabledIsStopped
<1>5. SlowDown
  BY <1>1, DelayAssumption DEF SlowDown, IInv, InOrder, Streams, Delay
<1> QED
  BY <1>4, <1>5
-----------------------------------------------------------------------------
(***************************************************************************)
(* The theorems                                                            *)
(***************************************************************************)

\* Every operation of the worker queue keeps the invariant, and none makes a
\* retry come sooner.
LEMMA StepIInv == IInv /\ Next => IInv' /\ SlowDown
<1> SUFFICES ASSUME IInv, Next PROVE IInv' /\ SlowDown
  OBVIOUS
<1>1. CASE \E t \in Target : Listen(t) \/ StopListening(t)
  BY <1>1, ListenStep, StopListeningStep
<1>2. CASE DisableNetwork \/ EnableNetwork \/ HandleCredentialChange
  BY <1>2, DisableNetworkStep, EnableNetworkStep, HandleCredentialChangeStep
<1>3. CASE TokenAnswered
  BY <1>3, TokenArrivesStep, TokenFailsStep DEF TokenAnswered
<1>4. CASE \E rejected \in SUBSET targets : OnStreamRead(rejected)
  BY <1>4, OnStreamReadStep
<1>5. CASE \E status \in {"error", "resourceExhausted"} : OnStreamFinish(status)
  BY <1>5, OnStreamFinishStep
<1>6. CASE BackoffElapsed \/ IdleElapsed \/ OnlineTimerElapsed
  BY <1>6, BackoffElapsedStep, IdleElapsedStep, OnlineTimerElapsedStep
<1> QED
  BY <1>1, <1>2, <1>3, <1>4, <1>5, <1>6 DEF Next

\* The inductive invariant holds of the stream and its tracker at every moment.
THEOREM Inductive == Spec => []IInv
<1>1. IInv /\ UNCHANGED vars => IInv'
  BY DEF vars, IInv, NeededIsStarted, IdleIsUnneeded, DisabledIsStopped
<1> QED
  BY <1>1, InitIInv, StepIInv, PTL DEF Spec

\* The invariant says what ListenSafety says, and more of the tracker.
LEMMA IInvIsSafe == IInv => ListenSafety
<1> SUFFICES ASSUME IInv PROVE ListenSafety
  OBVIOUS
<1>1. ListenTypeOK
  BY DEF ListenTypeOK, IInv, InOrder, Sound, Streams, Trackers
<1>2. TokenForThisStart /\ CallbacksFitState
  BY DEF TokenForThisStart, CallbacksFitState, IInv, InOrder
<1>3. NeededIsStarted
  BY DEF IInv
<1>4. IdleIsUnneeded
  BY DEF IInv
<1>5. TimerFitsState /\ UnknownIsTimed
  BY DEF TimerFitsState, UnknownIsTimed, IInv, Sound, TrackerFits
<1> QED
  BY <1>1, <1>2, <1>3, <1>4, <1>5 DEF ListenSafety

\* ListenSafety holds for every number of targets, closes and failures: stream
\* (Stream), timers and online state (OnlineStateTracker) agree with what is
\* listened to (RemoteStore), whatever comes late.
THEOREM Safety == Spec => []ListenSafety
BY Inductive, IInvIsSafe, PTL

\* The base delay grows from retry to retry (ExponentialBackoff), for every
\* initial and longest delay.
THEOREM Backoff == Spec => RetriesSlowDown
<1>1. IInv /\ [Next]_vars => [SlowDown]_vars
  BY StepIInv
<1> QED
  BY <1>1, Inductive, PTL DEF Spec, RetriesSlowDown, SlowDown
-----------------------------------------------------------------------------
=============================================================================
