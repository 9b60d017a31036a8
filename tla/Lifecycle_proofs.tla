--------------------------- MODULE Lifecycle_proofs ---------------------------
(***************************************************************************)
(* The safety properties of Lifecycle, for any number of watchers and      *)
(* requests.  All three follow from one inductive invariant, which says    *)
(* who closed which channel, how far the shutdown has come, and how many   *)
(* pings are under way.                                                    *)
(***************************************************************************)
EXTENDS Lifecycle, TLAPS

StateType ==
    /\ calling \in Nat /\ sending \in Nat /\ errCh \in Nat
    /\ request \in [Requests -> {"none", "working", "answered", "failed"}]

\* Each channel is closed at one point of one goroutine, which passes it once.
Closers ==
    /\ "quitCh" \in closed => finalizer \notin {"waiting", "finalize", "stop"}
    /\ "doneCh" \in closed => beater = "ended"
    /\ "done" \in closed => finalizer = "ended"
    /\ process # "panicked"

\* The heartbeat is started once; Beat starts a ping and takes one answer, in
\* turn.
OnePing ==
    /\ main = "watch" => beater = "off"
    /\ calling + sending + errCh =
        IF beater \in {"selecting", "ended"} THEN 1 ELSE 0

\* The last requests are answered before done is closed, and none comes after.
Draining ==
    /\ finalizer \in {"draining", "ended"} => server = "closed"
    /\ "done" \in closed => \A r \in Requests : request[r] # "working"
    /\ process = "done" => "done" \in closed

LifecycleInv == StateType /\ Closers /\ OnePing /\ Draining

-----------------------------------------------------------------------------
LEMMA InitEstablishes == LifecycleInit => LifecycleInv
BY SMT DEF LifecycleInit, LifecycleInv, StateType, Closers, OnePing, Draining

\* The steps of the main goroutine touch neither the pings nor the requests.
LEMMA MainStepPreserves ==
    ASSUME LifecycleInv, process = "running", MainStep
    PROVE  LifecycleInv'
<1> USE DEF LifecycleInv, startVars, beatVars, stopVars
<1>1. StateType'
  BY DEF MainStep, Watch, WatchFails, StartHeartbeat, Serve, ServeReturns, Return, StateType
<1>2. CASE \E w \in Watchers : Watch(w)
  BY <1>1, <1>2 DEF Watch, Closers, OnePing, Draining
<1>3. CASE WatchFails
  BY <1>1, <1>3 DEF WatchFails, Closers, OnePing, Draining
<1>4. CASE StartHeartbeat
  BY <1>1, <1>4 DEF StartHeartbeat, Closers, OnePing, Draining
<1>5. CASE Serve
  BY <1>1, <1>5 DEF Serve, Closers, OnePing, Draining
<1>6. CASE ServeReturns
  BY <1>1, <1>6 DEF ServeReturns, Closers, OnePing, Draining
<1>7. CASE Return
  BY <1>1, <1>7 DEF Return, MayReturn, Closers, OnePing, Draining
<1> QED BY <1>2, <1>3, <1>4, <1>5, <1>6, <1>7 DEF MainStep
LEMMA FinalizerStepPreserves ==
    ASSUME LifecycleInv, process = "running",
           Sigterm \/ FinalizerStep
    PROVE  LifecycleInv'
<1> USE DEF LifecycleInv, startVars, beatVars, stopVars
<1>1. StateType'
  BY DEF FinalizerStep, Sigterm, CloseStore, Stop, Stopped, Shutdown, Drained,
         ShutdownFails, StateType
<1>2. OnePing'
  BY DEF FinalizerStep, Sigterm, CloseStore, Stop, Stopped, Shutdown, Drained,
         ShutdownFails, OnePing
<1>3. CASE Sigterm
  BY <1>1, <1>2, <1>3 DEF Sigterm, Closers, Draining
<1>4. CASE CloseStore
  BY <1>1, <1>2, <1>4 DEF CloseStore, Closers, Draining
<1>5. CASE Stop
  BY <1>1, <1>2, <1>5 DEF Stop, Close, Closers, Draining
<1>6. CASE Stopped
  BY <1>1, <1>2, <1>6 DEF Stopped, Closers, Draining
<1>7. CASE Shutdown
  BY <1>1, <1>2, <1>7 DEF Shutdown, Closers, Draining
<1>8. CASE Drained
  BY <1>1, <1>2, <1>8 DEF Drained, Close, Closers, Draining
<1>9. CASE ShutdownFails
  BY <1>1, <1>2, <1>9 DEF ShutdownFails, Closers, Draining
<1> QED BY <1>3, <1>4, <1>5, <1>6, <1>7, <1>8, <1>9 DEF FinalizerStep

\* A ping moves from calling to sending to errCh to the heartbeat, and is one
\* all the way.
LEMMA PingStepPreserves ==
    ASSUME LifecycleInv, process = "running",
           BeaterStep \/ PingReturns \/ SendPing
    PROVE  LifecycleInv'
<1> USE DEF LifecycleInv, startVars, beatVars, stopVars
<1>1. Draining'
  BY DEF BeaterStep, Beat, BeatReceives, BeatQuits, Wake, PingReturns, SendPing,
         Close, Closers, Draining
<1>2. CASE Beat
  BY <1>1, <1>2 DEF Beat, StateType, Closers, OnePing
<1>3. CASE BeatReceives
  BY <1>1, <1>3 DEF BeatReceives, StateType, Closers, OnePing
<1>4. CASE BeatQuits
  <2>1. "doneCh" \notin closed /\ AfterQuit = "ended"
    BY <1>4 DEF BeatQuits, Closers, AfterQuit
  <2> QED BY <1>1, <1>4, <2>1 DEF BeatQuits, Close, StateType, Closers, OnePing
<1>5. CASE Wake
  BY <1>1, <1>5 DEF Wake, StateType, Closers, OnePing
<1>6. CASE PingReturns
  BY <1>1, <1>6 DEF PingReturns, StateType, Closers, OnePing
<1>7. CASE SendPing
  BY <1>1, <1>7 DEF SendPing, StateType, Closers, OnePing
<1> QED BY <1>2, <1>3, <1>4, <1>5, <1>6, <1>7 DEF BeaterStep

\* A request is taken by a server that serves, which is one nobody drains.
LEMMA UserStepPreserves ==
    ASSUME LifecycleInv, process = "running",
           \/ \E r \in Requests : RequestStep(r)
           \/ \E w \in Watchers : WatcherStep(w)
    PROVE  LifecycleInv'
<1> USE DEF LifecycleInv, startVars, beatVars, stopVars
<1>1. ASSUME NEW r \in Requests, Accept(r) PROVE LifecycleInv'
  BY <1>1 DEF Accept, StateType, Closers, OnePing, Draining
<1>2. ASSUME NEW r \in Requests, Answer(r) PROVE LifecycleInv'
  BY <1>2 DEF Answer, StateType, Closers, OnePing, Draining
<1>3. ASSUME NEW w \in Watchers, WatcherStep(w) PROVE LifecycleInv'
  BY <1>3 DEF WatcherStep, TakeEvent, HandleEvent, WatcherPanics, StateType,
              Closers, OnePing, Draining
<1> QED BY <1>1, <1>2, <1>3 DEF RequestStep

LEMMA StepPreserves ==
    ASSUME LifecycleInv, [LifecycleNext]_lifecycleVars
    PROVE  LifecycleInv'
<1>1. CASE LifecycleNext
  BY <1>1, MainStepPreserves, FinalizerStepPreserves, PingStepPreserves,
     UserStepPreserves DEF LifecycleNext, Step
<1>2. CASE UNCHANGED lifecycleVars
  BY <1>2 DEF lifecycleVars, startVars, beatVars, stopVars, LifecycleInv,
              StateType, Closers, OnePing, Draining
<1> QED BY <1>1, <1>2

LEMMA InvHolds == LifecycleSpec => []LifecycleInv
BY InitEstablishes, StepPreserves, PTL DEF LifecycleSpec

-----------------------------------------------------------------------------
(* The theorems.                                                           *)

\* The last request is answered before Drained closes done, none is taken
\* after Shutdown, and main waits for done.
THEOREM ExitAnswersAll == LifecycleSpec => []AnsweredBeforeExit
<1>1. LifecycleInv => AnsweredBeforeExit
  BY DEF LifecycleInv, Draining, AnsweredBeforeExit
<1> QED BY <1>1, InvHolds, PTL

\* At most one ping is under way, and one fits in errCh: no goroutine is left
\* behind that can never send what it got.
THEOREM NoPingBlocks == LifecycleSpec => []PingsDeliver
<1>1. LifecycleInv => PingsDeliver
  BY DEF LifecycleInv, StateType, OnePing, PingsDeliver, ErrChCapacity
<1> QED BY <1>1, InvHolds, PTL

\* Stop, Beat and the end of the shutdown close a channel each, once.
THEOREM NoChannelClosedTwice == LifecycleSpec => []ChannelsClosedOnce
<1>1. LifecycleInv => ChannelsClosedOnce
  BY DEF LifecycleInv, Closers, ChannelsClosedOnce
<1> QED BY <1>1, InvHolds, PTL
=============================================================================
