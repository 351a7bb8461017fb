------------------------- MODULE CachedWatchProofs -------------------------
(***************************************************************************)
(* Proofs about CachedWatch for every number of threads, values and        *)
(* updates.  LocalMatchesVersion is not inductive: that a copy made under  *)
(* the read lock is the value published with the current version depends   *)
(* on the lock (LockInv) and on the value and the version being in step    *)
(* whenever no closure has run without its bump yet (ValueInv).            *)
(***************************************************************************)
EXTENDS CachedWatch, TLAPS

(* The write lock is held by exactly the updater that is inside update(),  *)
(* and the read lock by exactly the watchers that are about to copy.       *)
LockInv ==
    /\ \A u \in Updaters : upc[u] # "idle" <=> writer = u
    /\ \A w \in Watchers : w \in readers <=> wpc[w] \in {"cloning", "copying"}
    /\ \A u \in Updaters : upc[u] \in {"applied", "bumped"} => readers = {}

(* Outside the window between running the closure and bumping the version, *)
(* the value is the one published with the current version.                *)
ValueInv ==
    \/ \E u \in Updaters : upc[u] = "applied"
    \/ value = hist[version]

(* Labels and relaxed loads never run ahead of the counter.                *)
SeenInv ==
    \A w \in Watchers : wversion[w] <= seen[w] /\ seen[w] <= version

IInv == TypeOK /\ LockInv /\ ValueInv /\ SeenInv /\ LocalMatchesVersion

----------------------------------------------------------------------------
LEMMA InitIInv == Init => IInv
BY WatchAssumption
   DEF Init, IInv, TypeOK, LockInv, ValueInv, SeenInv, LocalMatchesVersion, Built

(* Each step of update() preserves the invariant.                          *)
LEMMA UpdateStep ==
    ASSUME IInv, NEW u \in Updaters, Update(u)
    PROVE  IInv'
<1> USE WatchAssumption DEF IInv, lockVars, watchVars
<1>1. CASE UpdateLock(u)
    BY <1>1 DEF UpdateLock, TypeOK, LockInv, ValueInv, SeenInv, LocalMatchesVersion, Built
<1>2. CASE UpdateApply(u)
  <2>1. TypeOK'
    BY <1>2 DEF UpdateApply, TypeOK
  <2>2. LockInv' /\ ValueInv'
    BY <1>2 DEF UpdateApply, TypeOK, LockInv, ValueInv
  <2>3. SeenInv' /\ LocalMatchesVersion'
    BY <1>2 DEF UpdateApply, TypeOK, SeenInv, LocalMatchesVersion, Built
  <2>4. QED BY <2>1, <2>2, <2>3
<1>3. CASE UpdateBump(u)
  <2>1. TypeOK'
    BY <1>3 DEF UpdateBump, TypeOK
  <2>2. LockInv'
    BY <1>3 DEF UpdateBump, TypeOK, LockInv
  <2>3. ValueInv'
    BY <1>3 DEF UpdateBump, TypeOK, ValueInv
  <2>4. SeenInv' /\ LocalMatchesVersion'
    BY <1>3 DEF UpdateBump, TypeOK, SeenInv, LocalMatchesVersion, Built
  <2>5. QED BY <2>1, <2>2, <2>3, <2>4
<1>4. CASE UpdateUnlock(u)
    BY <1>4 DEF UpdateUnlock, TypeOK, LockInv, ValueInv, SeenInv, LocalMatchesVersion, Built
<1>5. QED BY <1>1, <1>2, <1>3, <1>4 DEF Update

(* The copy made under the read lock, by watcher() and by                  *)
(* cached_or_latest() alike, preserves the invariant.                      *)
LEMMA CopyStep ==
    ASSUME IInv, NEW w \in Watchers,
           wpc[w] \in {"cloning", "copying"},
           CopyUnderLock(w), ReadUnlock(w),
           wpc' = [wpc EXCEPT ![w] = "ready"],
           UNCHANGED <<value, version, upc, hist>>
    PROVE  IInv'
<1> USE DEF IInv, CopyUnderLock, ReadUnlock
<1>1. TypeOK'
    BY DEF TypeOK
<1>2. LockInv'
    BY DEF TypeOK, LockInv
<1>3. value = hist[version]
    BY DEF TypeOK, LockInv, ValueInv
<1>4. ValueInv'
    BY <1>3 DEF ValueInv
<1>5. SeenInv'
    BY DEF TypeOK, SeenInv
<1>6. LocalMatchesVersion'
    BY <1>3 DEF TypeOK, LocalMatchesVersion, Built
<1>7. QED BY <1>1, <1>2, <1>4, <1>5, <1>6

(* Each step of a watcher preserves the invariant.                         *)
LEMMA WatchStep ==
    ASSUME IInv, NEW w \in Watchers, Watch(w)
    PROVE  IInv'
<1> USE DEF IInv, lockVars
<1>0. writer = NoThread => \A u \in Updaters : upc[u] = "idle"
    BY WatchAssumption DEF LockInv
<1>1. CASE WatcherLock(w)
  <2> USE <1>1 DEF WatcherLock, ReadLock, ReadLockFree
  <2>1. TypeOK'
    BY DEF TypeOK
  <2>2. LockInv'
    BY <1>0 DEF TypeOK, LockInv
  <2>3. ValueInv' /\ SeenInv' /\ LocalMatchesVersion'
    BY DEF TypeOK, ValueInv, SeenInv, LocalMatchesVersion, Built
  <2>4. QED BY <2>1, <2>2, <2>3
<1>2. CASE WatcherClone(w) \/ CopyLatest(w)
    BY <1>2, CopyStep DEF WatcherClone, CopyLatest
<1>3. ASSUME NEW v \in 0..MaxUpdates, LoadVersion(w, v)
      PROVE  IInv'
  <2> USE <1>3 DEF LoadVersion
  <2>1. v \in Nat /\ seen[w] <= v /\ v <= version
    BY DEF TypeOK
  <2>2. TypeOK'
    BY <2>1 DEF TypeOK
  <2>3. LockInv'
    BY DEF TypeOK, LockInv
  <2>4. ValueInv'
    BY DEF ValueInv
  <2>5. SeenInv'
    BY <2>1 DEF TypeOK, SeenInv
  <2>6. LocalMatchesVersion'
    BY DEF TypeOK, LocalMatchesVersion, Built
  <2>7. QED BY <2>2, <2>3, <2>4, <2>5, <2>6
<1>4. CASE TryRead(w)
  <2> USE <1>4 DEF TryRead, ReadLock, ReadLockFree
  <2>1. TypeOK'
    BY DEF TypeOK
  <2>2. LockInv'
    <3>1. CASE ReadLockFree
      <4>1. readers' = readers \cup {w} /\ wpc' = [wpc EXCEPT ![w] = "copying"]
        BY <3>1
      <4>2. \A u \in Updaters : upc'[u] = "idle" /\ writer' # u
        BY <1>0, <3>1, WatchAssumption
      <4>3. QED BY <4>1, <4>2 DEF TypeOK, LockInv
    <3>2. CASE ~ReadLockFree
      <4>1. readers' = readers /\ wpc' = [wpc EXCEPT ![w] = "ready"]
        BY <3>2
      <4>2. QED BY <3>2, <4>1 DEF TypeOK, LockInv
    <3>3. QED BY <3>1, <3>2
  <2>3. ValueInv' /\ SeenInv' /\ LocalMatchesVersion'
    BY DEF TypeOK, ValueInv, SeenInv, LocalMatchesVersion, Built
  <2>4. QED BY <2>1, <2>2, <2>3
<1>5. QED BY <1>1, <1>2, <1>3, <1>4 DEF Watch

LEMMA NextIInv == IInv /\ [Next]_vars => IInv'
<1>1. ASSUME IInv, UNCHANGED vars PROVE IInv'
    BY <1>1 DEF vars, IInv, TypeOK, LockInv, ValueInv, SeenInv, LocalMatchesVersion, Built
<1>2. QED BY <1>1, UpdateStep, WatchStep DEF Next

LEMMA Invariance == Spec => []IInv
BY InitIInv, NextIInv, PTL DEF Spec

----------------------------------------------------------------------------
(* The types of the lock, the counter and the watchers' copies hold in     *)
(* every reachable state of cached_watch.rs.                               *)
THEOREM TypeCorrect == Spec => []TypeOK
BY Invariance, PTL DEF IInv

(* Whatever the interleaving of updates and reads, the copy a thread uses  *)
(* is the value published with the version it recorded.                    *)
THEOREM LocalCopyIsPublished == Spec => []LocalMatchesVersion
BY Invariance, PTL DEF IInv

(* No step of any thread makes a watcher serve an older map.               *)
THEOREM NeverRollsBack == Spec => NoRollback
<1> DEFINE A == \A w \in Watchers : Built(w) => wversion'[w] >= wversion[w]
<1>1. ASSUME IInv, Next PROVE A
  <2>1. ASSUME NEW u \in Updaters, Update(u) PROVE A
    BY <1>1, <2>1 DEF IInv, TypeOK, Update, UpdateLock, UpdateApply, UpdateBump,
                      UpdateUnlock, watchVars
  <2>2. ASSUME NEW w \in Watchers, Watch(w) PROVE A
    BY <1>1, <2>2 DEF IInv, TypeOK, SeenInv, Watch, WatcherLock, WatcherClone, TryRead,
                      CopyLatest, LoadVersion, CopyUnderLock, Built
  <2>3. QED BY <1>1, <2>1, <2>2 DEF Next
<1>2. IInv /\ [Next]_vars => [A]_vars
    BY <1>1
<1>3. QED BY <1>2, Invariance, PTL DEF Spec, NoRollback

----------------------------------------------------------------------------
(* The refinement mapping: a thread's view is its copy and its version.    *)
View == [w \in Watchers |-> IF Built(w) THEN <<wversion[w], local[w]>> ELSE Unborn]

(* Every step of the lock-based watch is a step of the atomic one, or      *)
(* invisible to it.                                                        *)
LEMMA StepRefinement ==
    IInv /\ IInv' /\ [Next]_vars => [Abstract!WatchNext]_<<hist, version, View>>
<1> SUFFICES ASSUME IInv, IInv', [Next]_vars
             PROVE  [Abstract!WatchNext]_<<hist, version, View>>
    OBVIOUS
<1> USE DEF IInv
<1>1. CASE UNCHANGED vars
    BY <1>1 DEF vars, View, Built
<1>2. ASSUME NEW u \in Updaters, Update(u)
      PROVE  [Abstract!WatchNext]_<<hist, version, View>>
  <2>1. View' = View
    BY <1>2 DEF Update, UpdateLock, UpdateApply, UpdateBump, UpdateUnlock, watchVars, View, Built
  <2>2. CASE UpdateBump(u)
    <3>1. value \in Values
      BY DEF TypeOK
    <3>2. Abstract!Publish(value)
      BY <2>1, <2>2 DEF Abstract!Publish, UpdateBump, View
    <3>3. QED BY <3>1, <3>2 DEF Abstract!WatchNext
  <2>3. CASE ~UpdateBump(u)
    BY <1>2, <2>1, <2>3 DEF Update, UpdateLock, UpdateApply, UpdateUnlock
  <2>4. QED BY <2>2, <2>3
<1>3. ASSUME NEW w \in Watchers, Watch(w)
      PROVE  [Abstract!WatchNext]_<<hist, version, View>>
  <2>1. CASE WatcherClone(w) \/ CopyLatest(w)
    <3>0. value = hist[version]
      BY <2>1 DEF LockInv, ValueInv, TypeOK, WatcherClone, CopyLatest
    <3>1. View' = [View EXCEPT ![w] = <<version, hist[version]>>]
      BY <2>1, <3>0 DEF View, Built, TypeOK, WatcherClone, CopyLatest, CopyUnderLock
    <3>2. Abstract!Refresh(w)
      BY <2>1, <3>1 DEF Abstract!Refresh, View, WatcherClone, CopyLatest
    <3>3. QED BY <3>2 DEF Abstract!WatchNext
  <2>2. CASE ~(WatcherClone(w) \/ CopyLatest(w))
    <3>1. View' = View
      BY <1>3, <2>2 DEF View, Built, TypeOK, Watch, WatcherLock, LoadVersion, TryRead
    <3>2. QED BY <1>3, <2>2, <3>1 DEF Watch, WatcherLock, LoadVersion, TryRead
  <2>3. QED BY <2>1, <2>2
<1>4. QED BY <1>1, <1>2, <1>3 DEF Next

(* cached_watch.rs implements the atomic watch of AtomicWatch: a reader    *)
(* sees each published map whole, and never an older one afterwards.       *)
THEOREM Refinement == Spec => ImplementsAtomicWatch
<1>1. Init => Abstract!WatchInit
    BY WatchAssumption DEF Init, Abstract!WatchInit, Built
<1>2. IInv /\ IInv' /\ [Next]_vars => [Abstract!WatchNext]_(Abstract!watchVars)
    BY StepRefinement DEF View, Abstract!watchVars
<1>3. QED BY <1>1, <1>2, Invariance, PTL DEF Spec, ImplementsAtomicWatch, Abstract!WatchSpec
=============================================================================
