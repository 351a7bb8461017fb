----------------------- MODULE DefaultBalancerProofs -----------------------
(***************************************************************************)
(* The count of healthy endpoints that DefaultBalancer keeps by adding and *)
(* subtracting one is exact for any number of priorities and endpoints.    *)
(***************************************************************************)
EXTENDS DefaultBalancer, FiniteSetTheorems, TLAPS

(* The part of the type that the count depends on.                         *)
CountType ==
    /\ weight \in Seq(Seq(Nat \ {0}))
    /\ DOMAIN health = Priorities
    /\ \A p \in Priorities : health[p] \in [EndpointsAt(p) -> BOOLEAN]
    /\ DOMAIN item = Priorities
    /\ DOMAIN healthy = Priorities

IInv == CountType /\ CountsExact

(* A priority has finitely many healthy endpoints.                         *)
LEMMA HealthyAtFinite ==
    ASSUME CountType, NEW p \in Priorities
    PROVE  IsFiniteSet(HealthyAt(p)) /\ Cardinality(HealthyAt(p)) \in Nat
<1>1. weight[p] \in Seq(Nat \ {0})
    BY DEF CountType, Priorities
<1>2. EndpointsAt(p) = 1 .. Len(weight[p]) /\ Len(weight[p]) \in Nat
    BY <1>1 DEF EndpointsAt
<1>3. IsFiniteSet(EndpointsAt(p))
    BY <1>2, FS_Interval
<1>4. HealthyAt(p) \in SUBSET EndpointsAt(p)
    BY DEF HealthyAt
<1> QED
    BY <1>3, <1>4, FS_Subset, FS_CardinalityType

(* A reloaded balancer holds healthy endpoints only.                       *)
LEMMA ReloadedHealthy ==
    ASSUME NEW ws, NEW hs
    PROVE  DOMAIN Reloaded(ws, hs) \subseteq {k \in DOMAIN ws : hs[k]}
BY DEF Reloaded, CollectChecked, Restrict

(* The initial counts are taken from the endpoints themselves.             *)
LEMMA InitCounts == Init => IInv
<1> SUFFICES ASSUME Init PROVE IInv
    OBVIOUS
<1> PICK c \in Configurations : weight = c.weight /\ health = c.health
    BY DEF Init
<1>1. weight \in Seq(Seq(Nat \ {0}))
    BY ConfigurationsAssumption
<1>2. /\ DOMAIN health = Priorities
      /\ DOMAIN item = Priorities
      /\ DOMAIN healthy = Priorities
    BY ConfigurationsAssumption DEF Init, Priorities
<1>3. ASSUME NEW p \in Priorities PROVE health[p] \in [EndpointsAt(p) -> BOOLEAN]
    BY ConfigurationsAssumption DEF Priorities, EndpointsAt
<1>4. ASSUME NEW p \in Priorities
      PROVE healthy[p] = Cardinality(HealthyAt(p)) /\ DOMAIN item[p] \subseteq HealthyAt(p)
  <2>1. item[p] = Reloaded(weight[p], health[p])
      BY DEF Init
  <2>2. DOMAIN item[p] \subseteq HealthyAt(p)
      BY <2>1, ReloadedHealthy DEF HealthyAt, EndpointsAt
  <2> QED
      BY <2>2 DEF Init
<1> QED
    BY <1>1, <1>2, <1>3, <1>4 DEF IInv, CountType, CountsExact

(* Every step keeps the counts exact: update_health because it returns     *)
(* early when the health does not change.                                  *)
LEMMA NextCounts == IInv /\ [Next]_vars => IInv'
<1> SUFFICES ASSUME IInv, [Next]_vars PROVE IInv'
    OBVIOUS
<1> USE DEF IInv
<1>1. ASSUME NEW p \in Priorities, NEW k \in EndpointsAt(p), NEW h \in BOOLEAN, UpdateHealth(p, k, h)
      PROVE  IInv'
  <2>1. /\ weight' = weight
        /\ health[p][k] # h
        /\ health' = [health EXCEPT ![p][k] = h]
        /\ item' = [item EXCEPT ![p] = Reloaded(weight[p], health'[p])]
        /\ healthy' = [healthy EXCEPT ![p] = IF h THEN @ + 1 ELSE @ - 1]
      BY <1>1 DEF UpdateHealth
  <2>2. Priorities' = Priorities /\ \A q : EndpointsAt(q)' = EndpointsAt(q)
      BY <2>1 DEF Priorities, EndpointsAt
  <2>3. health'[p] = [health[p] EXCEPT ![k] = h]
      BY <2>1 DEF CountType
  <2>4. \A q \in Priorities : q # p => health'[q] = health[q]
      BY <2>1 DEF CountType
  <2>5. health[p] \in [EndpointsAt(p) -> BOOLEAN]
      BY DEF CountType
  <2>6. health'[p] \in [EndpointsAt(p) -> BOOLEAN]
      BY <2>3, <2>5
  <2>7. CountType'
    <3>1. DOMAIN health' = Priorities /\ DOMAIN item' = Priorities /\ DOMAIN healthy' = Priorities
        BY <2>1 DEF CountType
    <3>2. \A q \in Priorities : health'[q] \in [EndpointsAt(q) -> BOOLEAN]
        BY <2>4, <2>6 DEF CountType
    <3> QED
        BY <2>1, <2>2, <3>1, <3>2 DEF CountType
  <2>8. ASSUME NEW q \in Priorities
        PROVE healthy'[q] = Cardinality(HealthyAt(q)') /\ DOMAIN item'[q] \subseteq HealthyAt(q)'
    <3>1. IsFiniteSet(HealthyAt(q)) /\ Cardinality(HealthyAt(q)) \in Nat
        BY HealthyAtFinite
    <3>2. healthy[q] = Cardinality(HealthyAt(q)) /\ DOMAIN item[q] \subseteq HealthyAt(q)
        BY DEF CountsExact
    <3>3. HealthyAt(q)' = {j \in EndpointsAt(q) : health'[q][j]}
        BY <2>2 DEF HealthyAt
    <3>4. CASE q # p
      <4>1. HealthyAt(q)' = HealthyAt(q)
          BY <2>4, <3>3, <3>4 DEF HealthyAt
      <4>2. healthy'[q] = healthy[q] /\ item'[q] = item[q]
          BY <2>1, <3>4 DEF CountType
      <4> QED
          BY <3>2, <4>1, <4>2
    <3>5. CASE q = p
      <4>1. item'[q] = Reloaded(weight[q], health'[q])
          BY <2>1, <3>5 DEF CountType
      <4>2. DOMAIN item'[q] \subseteq HealthyAt(q)'
          BY <3>3, <4>1, ReloadedHealthy DEF EndpointsAt
      <4>3. healthy'[q] = IF h THEN healthy[q] + 1 ELSE healthy[q] - 1
          BY <2>1, <3>5 DEF CountType
      <4>4. CASE h
        <5>1. ~health[p][k]
            BY <2>1, <2>5, <4>4
        <5>2. k \notin HealthyAt(q)
            BY <3>5, <5>1 DEF HealthyAt
        <5>3. HealthyAt(q)' = HealthyAt(q) \cup {k}
            BY <1>1, <2>3, <2>5, <3>3, <3>5, <4>4 DEF HealthyAt
        <5>4. Cardinality(HealthyAt(q) \cup {k}) = Cardinality(HealthyAt(q)) + 1
            BY <3>1, <5>2, FS_AddElement
        <5> QED
            BY <3>2, <4>2, <4>3, <4>4, <5>3, <5>4
      <4>5. CASE ~h
        <5>1. health[p][k]
            BY <2>1, <2>5, <4>5
        <5>2. k \in HealthyAt(q)
            BY <1>1, <3>5, <5>1 DEF HealthyAt
        <5>3. HealthyAt(q)' = HealthyAt(q) \ {k}
            BY <1>1, <2>3, <2>5, <3>3, <3>5, <4>5 DEF HealthyAt
        <5>4. Cardinality(HealthyAt(q) \ {k}) = Cardinality(HealthyAt(q)) - 1
            BY <3>1, <5>2, FS_RemoveElement
        <5> QED
            BY <3>2, <4>2, <4>3, <4>5, <5>3, <5>4
      <4> QED
          BY <4>4, <4>5
    <3> QED
        BY <3>4, <3>5
  <2>9. CountsExact'
      BY <2>2, <2>8 DEF CountsExact
  <2> QED
      BY <2>7, <2>9
<1>2. ASSUME UNCHANGED <<weight, health, healthy, item>> PROVE IInv'
  <2>1. Priorities' = Priorities /\ \A p : EndpointsAt(p)' = EndpointsAt(p)
      BY <1>2 DEF Priorities, EndpointsAt
  <2>2. \A p : HealthyAt(p)' = HealthyAt(p)
      BY <1>2 DEF HealthyAt, EndpointsAt
  <2>3. CountType'
      BY <1>2, <2>1 DEF CountType
  <2>4. CountsExact'
      BY <1>2, <2>1, <2>2 DEF CountsExact
  <2> QED
      BY <2>3, <2>4
<1>3. CASE PickEndpoint
    BY <1>2, <1>3 DEF PickEndpoint
<1>4. CASE PickNone
    BY <1>2, <1>4 DEF PickNone
<1>5. CASE UNCHANGED vars
    BY <1>2, <1>5 DEF vars, balancers
<1> QED
    BY <1>1, <1>3, <1>4, <1>5 DEF Next

(* However reports repeat and interleave with picks, the count of a        *)
(* priority's healthy endpoints is that of the healths reported last, and  *)
(* its balancer offers no unhealthy endpoint.                              *)
THEOREM CountsAreExact == Spec => []CountsExact
<1>1. IInv => CountsExact
    BY DEF IInv
<1> QED
    BY InitCounts, NextCounts, <1>1, PTL DEF Spec
=============================================================================
