------------------------------ MODULE Lifecycle ------------------------------
(***************************************************************************)
(* main.go, app/heartbeater.go and Start, Finalize and Shutdown of         *)
(* app/plasma.go: the goroutines of the operator's process from its start  *)
(* to its end.  The main goroutine starts the others and serves; another   *)
(* waits for SIGTERM and takes everything down; the heartbeat pings the    *)
(* root chain; the watchers and the requests use the store.                *)
(*                                                                         *)
(* What requests and watchers do in the store is the matter of Node: here  *)
(* they only use it, while it is open or after it was closed.              *)
(***************************************************************************)
EXTENDS Naturals

CONSTANTS
    Watchers,   \* the goroutines behind the two subscriptions
    Requests    \* the HTTP requests served at once

VARIABLES
    enabled,    \* config.Heartbeat.IsEnabled
    main,       \* where the main goroutine is
    finalizer,  \* where the goroutine that waits for SIGTERM is
    beater,     \* where the heartbeat goroutine is
    calling,    \* the pings that wait for the root chain's answer
    sending,    \* the pings that have it and send it to errCh
    errCh,      \* the answers in errCh
    closed,     \* the channels closed so far
    store,      \* is the store open?
    server,     \* the HTTP server
    watcher,    \* what each watcher does
    request,    \* what became of each request
    process     \* how the process ended, if it did

startVars == <<main, watcher>>
beatVars == <<beater, calling, sending, errCh>>
stopVars == <<finalizer, store, enabled>>
lifecycleVars ==
    <<startVars, beatVars, stopVars, closed, server, request, process>>

LifecycleInit ==
    /\ enabled \in BOOLEAN
    /\ main = "watch"
    /\ finalizer = "waiting"
    /\ beater = "off"
    /\ calling = 0 /\ sending = 0 /\ errCh = 0
    /\ closed = {}
    /\ store = "open"
    /\ server = "new"
    /\ watcher = [w \in Watchers |-> "off"]
    /\ request = [r \in Requests |-> "none"]
    /\ process = "running"

\* Closing a channel a second time panics.
Close(channel) ==
    IF channel \in closed
    THEN process' = "panicked" /\ UNCHANGED closed
    ELSE closed' = closed \cup {channel} /\ UNCHANGED process

-----------------------------------------------------------------------------
(* The main goroutine: Start, then wait for done.                          *)

\* The watchers are started one after the other, in whatever order.
Watch(w) ==
    /\ main = "watch"
    /\ watcher[w] = "off"
    /\ watcher' = [watcher EXCEPT ![w] = "idle"]
    /\ UNCHANGED <<main, beatVars, stopVars, closed, server, request, process>>

\* A subscription that cannot be made ends Start with an error.
WatchFails ==
    /\ main = "watch"
    /\ \E w \in Watchers : watcher[w] = "off"
    /\ main' = "waiting"
    /\ UNCHANGED <<watcher, beatVars, stopVars, closed, server, request, process>>

StartHeartbeat ==
    /\ main = "watch"
    /\ \A w \in Watchers : watcher[w] # "off"
    /\ main' = "serve"
    /\ beater' = IF enabled THEN "ready" ELSE "off"
    /\ UNCHANGED <<watcher, calling, sending, errCh, stopVars, closed, server,
                   request, process>>

\* The server starts, or does not: the port is taken, or it was shut down
\* already.
Serve ==
    /\ main = "serve"
    /\ \/ server = "new" /\ server' = "serving" /\ main' = "serving"
       \/ main' = "waiting" /\ UNCHANGED server
    /\ UNCHANGED <<watcher, beatVars, stopVars, closed, request, process>>

ServeReturns ==
    /\ main = "serving"
    /\ server = "closed"
    /\ main' = "waiting"
    /\ UNCHANGED <<watcher, beatVars, stopVars, closed, server, request, process>>

\* Mutant: main returns as soon as Start does.
MayReturnMutant == main = "waiting"

MayReturn == main = "waiting" /\ "done" \in closed

Return ==
    /\ MayReturn
    /\ process' = "done"
    /\ UNCHANGED <<startVars, beatVars, stopVars, closed, server, request>>

-----------------------------------------------------------------------------
(* The goroutine that waits for SIGTERM: Finalize, Shutdown.               *)

Sigterm ==
    /\ finalizer = "waiting"
    /\ finalizer' = "finalize"
    /\ UNCHANGED <<startVars, beatVars, store, enabled, closed, server, request,
                   process>>

CloseStore ==
    /\ finalizer = "finalize"
    /\ store' = "closed"
    /\ finalizer' = IF enabled THEN "stop" ELSE "shutdown"
    /\ UNCHANGED <<startVars, beatVars, enabled, closed, server, request, process>>

\* Heartbeater.Stop closes quitCh ...
Stop ==
    /\ finalizer = "stop"
    /\ Close("quitCh")
    /\ finalizer' = "awaitBeater"
    /\ UNCHANGED <<startVars, beatVars, store, enabled, server, request>>

\* ... and waits for doneCh.
Stopped ==
    /\ finalizer = "awaitBeater"
    /\ "doneCh" \in closed
    /\ finalizer' = "shutdown"
    /\ UNCHANGED <<startVars, beatVars, store, enabled, closed, server, request,
                   process>>

\* The server takes no more requests ...
Shutdown ==
    /\ finalizer = "shutdown"
    /\ server' = "closed"
    /\ finalizer' = "draining"
    /\ UNCHANGED <<startVars, beatVars, store, enabled, closed, request, process>>

\* ... and waits for those it has.
Drained ==
    /\ finalizer = "draining"
    /\ \A r \in Requests : request[r] # "working"
    /\ Close("done")
    /\ finalizer' = "ended"
    /\ UNCHANGED <<startVars, beatVars, store, enabled, server, request>>

\* An error of Shutdown is fatal.
ShutdownFails ==
    /\ finalizer = "draining"
    /\ process' = "fatal"
    /\ UNCHANGED <<startVars, beatVars, stopVars, closed, server, request>>

-----------------------------------------------------------------------------
(* The heartbeat: Beat, and the goroutine it starts for each ping.         *)

Beat ==
    /\ beater = "ready"
    /\ beater' = "selecting"
    /\ calling' = calling + 1
    /\ UNCHANGED <<startVars, sending, errCh, stopVars, closed, server, request,
                   process>>

\* The root chain answers, or the call fails.  It may also never return.
PingReturns ==
    /\ calling > 0
    /\ calling' = calling - 1
    /\ sending' = sending + 1
    /\ UNCHANGED <<startVars, beater, errCh, stopVars, closed, server, request,
                   process>>

\* Mutant: errCh has no buffer.
ErrChCapacityMutant == 0

ErrChCapacity == 1

SendPing ==
    /\ sending > 0
    /\ errCh < ErrChCapacity
    /\ sending' = sending - 1
    /\ errCh' = errCh + 1
    /\ UNCHANGED <<startVars, beater, calling, stopVars, closed, server, request,
                   process>>

\* What select takes from errCh is in its buffer or comes from a sender that
\* waits.
BeatReceives ==
    /\ beater = "selecting"
    /\ \/ errCh > 0 /\ errCh' = errCh - 1 /\ UNCHANGED sending
       \/ errCh = 0 /\ sending > 0 /\ sending' = sending - 1 /\ UNCHANGED errCh
    /\ beater' = "sleeping"
    /\ UNCHANGED <<startVars, calling, stopVars, closed, server, request, process>>

\* Mutant: Beat looks for quitCh only when its ping has returned.
SeesQuitMutant == "quitCh" \in closed /\ calling = 0

SeesQuit == "quitCh" \in closed

\* Mutant: the loop ignores that Beat says to stop.
AfterQuitMutant == "sleeping"

AfterQuit == "ended"

BeatQuits ==
    /\ beater = "selecting"
    /\ SeesQuit
    /\ Close("doneCh")
    /\ beater' = AfterQuit
    /\ UNCHANGED <<startVars, calling, sending, errCh, stopVars, server, request>>

Wake ==
    /\ beater = "sleeping"
    /\ beater' = "ready"
    /\ UNCHANGED <<startVars, calling, sending, errCh, stopVars, closed, server,
                   request, process>>

-----------------------------------------------------------------------------
(* Requests and watchers.                                                  *)

Accept(r) ==
    /\ server = "serving"
    /\ request[r] # "working"
    /\ request' = [request EXCEPT ![r] = "working"]
    /\ UNCHANGED <<startVars, beatVars, stopVars, closed, server, process>>

\* A request that finds the store closed fails; if the store panics, the
\* server recovers.
Answer(r) ==
    /\ request[r] = "working"
    /\ request' = [request EXCEPT ![r] =
                    IF store = "open" THEN "answered" ELSE "failed"]
    /\ UNCHANGED <<startVars, beatVars, stopVars, closed, server, process>>

TakeEvent(w) ==
    /\ watcher[w] = "idle"
    /\ watcher' = [watcher EXCEPT ![w] = "handling"]
    /\ UNCHANGED <<main, beatVars, stopVars, closed, server, request, process>>

HandleEvent(w) ==
    /\ watcher[w] = "handling"
    /\ watcher' = [watcher EXCEPT ![w] = "idle"]
    /\ UNCHANGED <<main, beatVars, stopVars, closed, server, request, process>>

\* The closed store may also panic, and nothing recovers a watcher.
WatcherPanics(w) ==
    /\ watcher[w] = "handling"
    /\ store = "closed"
    /\ process' = "crashed"
    /\ UNCHANGED <<startVars, beatVars, stopVars, closed, server, request>>

-----------------------------------------------------------------------------
MainStep ==
    \/ \E w \in Watchers : Watch(w)
    \/ WatchFails
    \/ StartHeartbeat
    \/ Serve
    \/ ServeReturns
    \/ Return

FinalizerStep ==
    CloseStore \/ Stop \/ Stopped \/ Shutdown \/ Drained \/ ShutdownFails

BeaterStep == Beat \/ BeatReceives \/ BeatQuits \/ Wake

RequestStep(r) == Accept(r) \/ Answer(r)
WatcherStep(w) == TakeEvent(w) \/ HandleEvent(w) \/ WatcherPanics(w)

Step ==
    \/ MainStep
    \/ Sigterm
    \/ FinalizerStep
    \/ BeaterStep
    \/ PingReturns
    \/ SendPing
    \/ \E r \in Requests : RequestStep(r)
    \/ \E w \in Watchers : WatcherStep(w)

LifecycleNext == process = "running" /\ Step

(***************************************************************************)
(* Goroutines that can run do run, and requests are answered.  Select picks*)
(* at random among the channels that are ready, so one that is ready again *)
(* and again is picked some day.  Nothing is assumed of SIGTERM, of the    *)
(* root chain's answers to pings, or of the events and requests that come. *)
(***************************************************************************)
Running(A) == process = "running" /\ A

LifecycleFairness ==
    /\ WF_lifecycleVars(Running(MainStep))
    /\ WF_lifecycleVars(Running(FinalizerStep))
    /\ WF_lifecycleVars(Running(BeaterStep))
    /\ SF_lifecycleVars(Running(BeatQuits))
    /\ WF_lifecycleVars(Running(SendPing))
    /\ \A r \in Requests : WF_lifecycleVars(Running(Answer(r)))
    /\ \A w \in Watchers : WF_lifecycleVars(Running(HandleEvent(w)))

LifecycleSpec ==
    LifecycleInit /\ [][LifecycleNext]_lifecycleVars /\ LifecycleFairness
-----------------------------------------------------------------------------
(* Properties.                                                             *)

\* Once told to stop the process ends, even if the root chain never answers a
\* ping.  Only a heartbeat that is enabled and never started, because Start
\* failed before it, makes Stop wait for good.
ShutdownEnds ==
    finalizer # "waiting" /\ (enabled => beater # "off")
        ~> process # "running"

\* A process that ends in order has answered every request it took, although
\* the store was closed before the server.
AnsweredBeforeExit ==
    process = "done" => \A r \in Requests : request[r] # "working"

\* The goroutine of a ping can always deliver its answer: the buffer has room
\* for it, or the heartbeat waits for it, also after the heartbeat has stopped.
PingsDeliver ==
    sending > 0 => errCh + sending <= ErrChCapacity \/ beater = "selecting"

\* No channel is closed twice.
ChannelsClosedOnce == process # "panicked"
=============================================================================
