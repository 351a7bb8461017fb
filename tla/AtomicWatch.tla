---------------------------- MODULE AtomicWatch ----------------------------
(***************************************************************************)
(* What orion-lib/src/clusters/cached_watch.rs promises, without its lock  *)
(* and its relaxed counter: a sequence of published values, and watchers   *)
(* that each look at one of them and only ever move on to the newest one.  *)
(***************************************************************************)
EXTENDS Naturals

CONSTANTS Watchers,  \* threads that keep a CachedWatcher
          Values,    \* values the watched map can have
          Unborn     \* view of a thread that has not built its watcher yet

VARIABLES published, \* function from 0..latest to Values
          latest,    \* number of the newest value
          view       \* version and value each watcher looks at, or Unborn

watchVars == <<published, latest, view>>

WatchInit ==
    /\ published \in [{0} -> Values]
    /\ latest = 0
    /\ view = [w \in Watchers |-> Unborn]

Publish(v) ==
    /\ latest' = latest + 1
    /\ published' = [i \in 0..(latest + 1) |-> IF i <= latest THEN published[i] ELSE v]
    /\ UNCHANGED view

Refresh(w) ==
    /\ view' = [view EXCEPT ![w] = <<latest, published[latest]>>]
    /\ UNCHANGED <<published, latest>>

WatchNext ==
    \/ \E v \in Values : Publish(v)
    \/ \E w \in Watchers : Refresh(w)

WatchSpec == WatchInit /\ [][WatchNext]_watchVars
=============================================================================
