----------------------------- MODULE MCLifecycle -----------------------------
(***************************************************************************)
(* A small instance of Lifecycle: both watchers and two requests.          *)
(***************************************************************************)
EXTENDS Lifecycle, TLC

CONSTANTS r1, r2, depositWatcher, exitWatcher

MCRequests == {r1, r2}
MCWatchers == {depositWatcher, exitWatcher}
=============================================================================
