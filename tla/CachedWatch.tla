---------------------------- MODULE CachedWatch ----------------------------
(***************************************************************************)
(* orion-lib/src/clusters/cached_watch.rs: a value behind a parking_lot    *)
(* RwLock with an AtomicUsize version beside it.  Every data-plane thread  *)
(* keeps a CachedWatcher (CLUSTERS_MAP_CACHE in clusters_manager.rs): a    *)
(* private copy of the value and the version it believes it copied.        *)
(*                                                                         *)
(* The version is read with Ordering::Relaxed outside the lock, so such a  *)
(* read may return any version not older than the last one that thread     *)
(* has seen (per-location coherence).  Inside the lock it is exact.        *)
(***************************************************************************)
EXTENDS Naturals

CONSTANTS Watchers,    \* threads that keep a CachedWatcher
          Updaters,    \* threads that call CachedWatch::update
          Values,      \* contents of the clusters map, as far as told apart
          InitValue,   \* CachedWatch::new(value)
          NoThread,    \* nobody holds the write lock
          Unborn,      \* view of a thread whose watcher does not exist yet
          MaxUpdates   \* bound on the number of updates

ASSUME WatchAssumption ==
    /\ InitValue \in Values
    /\ MaxUpdates \in Nat
    /\ NoThread \notin Updaters
    /\ Unborn \notin Nat \X Values

VARIABLES
    value,     \* CachedWatch.value
    version,   \* CachedWatch.version
    writer,    \* the RwLock: thread that owns the writer bit, or NoThread
    readers,   \* the RwLock: threads that hold it shared
    upc,       \* where each updater is in update()
    wpc,       \* where each watcher is in watcher() / cached_or_latest()
    local,     \* CachedWatcher.local
    wversion,  \* CachedWatcher.version
    seen,      \* newest version the thread has loaded (coherence floor)
    hist       \* history: the value published with each version

vars == <<value, version, writer, readers, upc, wpc, local, wversion, seen, hist>>
lockVars == <<writer, readers>>
watchVars == <<wpc, local, wversion, seen>>

Built(w) == wpc[w] \notin {"unborn", "cloning"}

Init ==
    /\ value = InitValue
    /\ version = 0
    /\ writer = NoThread
    /\ readers = {}
    /\ upc = [u \in Updaters |-> "idle"]
    /\ wpc = [w \in Watchers |-> "unborn"]
    /\ local = [w \in Watchers |-> InitValue]
    /\ wversion = [w \in Watchers |-> 0]
    /\ seen = [w \in Watchers |-> 0]
    /\ hist = [i \in {0} |-> InitValue]

----------------------------------------------------------------------------
(* The RwLock.  A writer first owns the writer bit, which already makes    *)
(* readers fail or wait, and gets in once the readers inside have left.    *)

ReadLockFree == writer = NoThread

ReadLock(w) ==
    /\ readers' = readers \cup {w}
    /\ UNCHANGED writer

ReadUnlock(w) ==
    /\ readers' = readers \ {w}
    /\ UNCHANGED writer

----------------------------------------------------------------------------
(* update(): lock, run the closure on the value, bump the version, unlock. *)

UpdateLock(u) ==
    /\ upc[u] = "idle"
    /\ version < MaxUpdates
    /\ writer = NoThread
    /\ writer' = u
    /\ upc' = [upc EXCEPT ![u] = "waiting"]
    /\ UNCHANGED <<value, version, readers, watchVars, hist>>

UpdateApply(u) ==
    /\ upc[u] = "waiting"
    /\ readers = {}
    /\ \E v \in Values : value' = v
    /\ upc' = [upc EXCEPT ![u] = "applied"]
    /\ UNCHANGED <<version, lockVars, watchVars, hist>>

UpdateBumpBackwards(u) ==
    /\ upc[u] = "applied"
    /\ version' = version - 1
    /\ upc' = [upc EXCEPT ![u] = "bumped"]
    /\ UNCHANGED <<value, lockVars, watchVars, hist>>

UpdateBump(u) ==
    /\ upc[u] = "applied"
    /\ version' = version + 1
    /\ hist' = [i \in 0..(version + 1) |-> IF i <= version THEN hist[i] ELSE value]
    /\ upc' = [upc EXCEPT ![u] = "bumped"]
    /\ UNCHANGED <<value, lockVars, watchVars>>

UpdateUnlock(u) ==
    /\ upc[u] = "bumped"
    /\ writer' = NoThread
    /\ upc' = [upc EXCEPT ![u] = "idle"]
    /\ UNCHANGED <<value, version, readers, watchVars, hist>>

----------------------------------------------------------------------------
(* watcher(): get_clone() blocks for the read lock and copies both fields. *)

CopyUnderLockLabelledEarly(w) ==
    /\ local' = [local EXCEPT ![w] = value]
    /\ wversion' = [wversion EXCEPT ![w] = seen[w]]
    /\ UNCHANGED seen

CopyUnderLock(w) ==
    /\ local' = [local EXCEPT ![w] = value]
    /\ wversion' = [wversion EXCEPT ![w] = version]
    /\ seen' = [seen EXCEPT ![w] = version]

WatcherLock(w) ==
    /\ wpc[w] = "unborn"
    /\ ReadLockFree
    /\ ReadLock(w)
    /\ wpc' = [wpc EXCEPT ![w] = "cloning"]
    /\ UNCHANGED <<value, version, upc, local, wversion, seen, hist>>

WatcherClone(w) ==
    /\ wpc[w] = "cloning"
    /\ CopyUnderLock(w)
    /\ ReadUnlock(w)
    /\ wpc' = [wpc EXCEPT ![w] = "ready"]
    /\ UNCHANGED <<value, version, upc, hist>>

(* cached_or_latest(): relaxed load, try_read, copy.                       *)

LoadVersion(w, v) ==
    /\ wpc[w] = "ready"
    /\ v \in seen[w]..version
    /\ seen' = [seen EXCEPT ![w] = v]
    /\ wpc' = [wpc EXCEPT ![w] = IF v # wversion[w] THEN "stale" ELSE "ready"]
    /\ UNCHANGED <<value, version, lockVars, upc, local, wversion, hist>>

TryReadGivingUp(w) ==
    /\ wpc[w] = "stale"
    /\ wpc' = [wpc EXCEPT ![w] = "ready"]
    /\ UNCHANGED <<value, version, lockVars, upc, local, wversion, seen, hist>>

TryReadForgettingVersion(w) ==
    /\ wpc[w] = "stale"
    /\ IF ReadLockFree
       THEN /\ ReadLock(w)
            /\ wpc' = [wpc EXCEPT ![w] = "copying"]
            /\ UNCHANGED wversion
       ELSE /\ wpc' = [wpc EXCEPT ![w] = "ready"]
            /\ wversion' = [wversion EXCEPT ![w] = 0]
            /\ UNCHANGED lockVars
    /\ UNCHANGED <<value, version, upc, local, seen, hist>>

TryRead(w) ==
    /\ wpc[w] = "stale"
    /\ IF ReadLockFree
       THEN /\ ReadLock(w)
            /\ wpc' = [wpc EXCEPT ![w] = "copying"]
       ELSE /\ wpc' = [wpc EXCEPT ![w] = "ready"]
            /\ UNCHANGED lockVars
    /\ UNCHANGED <<value, version, upc, local, wversion, seen, hist>>

CopyLatest(w) ==
    /\ wpc[w] = "copying"
    /\ CopyUnderLock(w)
    /\ ReadUnlock(w)
    /\ wpc' = [wpc EXCEPT ![w] = "ready"]
    /\ UNCHANGED <<value, version, upc, hist>>

----------------------------------------------------------------------------
Update(u) == UpdateLock(u) \/ UpdateApply(u) \/ UpdateBump(u) \/ UpdateUnlock(u)

Watch(w) ==
    \/ WatcherLock(w) \/ WatcherClone(w) \/ TryRead(w) \/ CopyLatest(w)
    \/ \E v \in 0..MaxUpdates : LoadVersion(w, v)

Next ==
    \/ \E u \in Updaters : Update(u)
    \/ \E w \in Watchers : Watch(w)

Spec == Init /\ [][Next]_vars

(* A thread inside update() or holding the lock is running code and goes   *)
(* on; nobody is obliged to start an update.  A worker thread keeps        *)
(* serving requests, so it keeps calling cached_or_latest(), and a store   *)
(* becomes visible to its relaxed loads at some point.                     *)
Fairness ==
    /\ \A u \in Updaters : WF_vars(UpdateApply(u) \/ UpdateBump(u) \/ UpdateUnlock(u))
    /\ \A w \in Watchers :
        /\ WF_vars(WatcherLock(w))
        /\ WF_vars(WatcherClone(w) \/ TryRead(w) \/ CopyLatest(w))
        /\ WF_vars(LoadVersion(w, version))

FairSpec == Spec /\ Fairness

----------------------------------------------------------------------------
(* The lock's holders, the counter, the copies and the history of          *)
(* published values have their types.                                      *)
TypeOK ==
    /\ value \in Values
    /\ version \in Nat
    /\ writer \in Updaters \cup {NoThread}
    /\ readers \in SUBSET Watchers
    /\ upc \in [Updaters -> {"idle", "waiting", "applied", "bumped"}]
    /\ wpc \in [Watchers -> {"unborn", "cloning", "ready", "stale", "copying"}]
    /\ local \in [Watchers -> Values]
    /\ wversion \in [Watchers -> Nat]
    /\ seen \in [Watchers -> Nat]
    /\ hist \in [0..version -> Values]

(* The copy a watcher serves requests from is the value that update()      *)
(* published together with the version number the watcher recorded: it is  *)
(* neither torn by a running update nor labelled with another version,     *)
(* although the first version read takes no lock.                          *)
LocalMatchesVersion ==
    \A w \in Watchers : Built(w) =>
        /\ wversion[w] \in 0..version
        /\ local[w] = hist[wversion[w]]

(* A thread never goes back to an older map than the one it has served     *)
(* requests from.                                                          *)
NoRollback ==
    [][\A w \in Watchers : Built(w) => wversion'[w] >= wversion[w]]_vars

(* The relaxed counter and try_read lose nothing for good: once updates    *)
(* stop, every thread ends up with the last published value.               *)
EventuallyLatest ==
    \A w \in Watchers : <>[](local[w] = value /\ wversion[w] = version)

Abstract == INSTANCE AtomicWatch WITH
    published <- hist,
    latest <- version,
    view <- [w \in Watchers |-> IF Built(w) THEN <<wversion[w], local[w]>> ELSE Unborn]

(* cached_watch.rs implements the atomic watch: publishing takes effect at *)
(* the version bump, refreshing at the copy under the read lock.           *)
ImplementsAtomicWatch == Abstract!WatchSpec
=============================================================================
