-------------------------- MODULE DefaultBalancer --------------------------
(***************************************************************************)
(* The two-level balancer of a load assignment with the round robin policy *)
(* (orion-lib/src/clusters/balancers/{default_balancer,priority,healthy}): *)
(* a weighted round robin chooses a priority by the loads computed from    *)
(* its health, then the weighted round robin of that priority, which knows *)
(* its healthy endpoints only, chooses one of them.                        *)
(*                                                                         *)
(* An endpoint is a pair of its priority, best first, and its place there. *)
(* Percentages are in tenths, so that 1.4 * x is an integer.               *)
(***************************************************************************)
EXTENDS SmoothWrr

CONSTANTS
    Configurations,  \* load assignments: weight and health of each endpoint
    Reported,        \* bound: places in a priority that health reports are about
    MaxPicks         \* bound: picks of a balancer between two rebuilds

ASSUME ConfigurationsAssumption ==
    \A c \in Configurations :
        /\ c.weight \in Seq(Seq(Nat \ {0}) \ {<<>>})
        /\ DOMAIN c.health = DOMAIN c.weight
        /\ \A p \in DOMAIN c.weight : c.health[p] \in [DOMAIN c.weight[p] -> BOOLEAN]

VARIABLES
    weight,      \* the load assignment: weight[p][k]
    health,      \* HealthyBalancer.items of each priority: the healths
    healthy,     \* PriorityInfo.healthy of each priority
    load,        \* priority_level_lb: the weights of the priorities
    loadCur,     \* ... and their current weights
    item,        \* HealthyBalancer.balancer of each priority: the weights
    itemCur,     \* ... and their current weights
    loadTaken,   \* picks of each priority since priority_level_lb was built
    itemTaken    \* picks of each endpoint since its balancer was built

balancers == <<load, loadCur, item, itemCur>>
taken == <<loadTaken, itemTaken>>
vars == <<weight, health, healthy, balancers, taken>>

Priorities == DOMAIN weight

EndpointsAt(p) == DOMAIN weight[p]

HealthyAt(p) == {k \in EndpointsAt(p) : health[p][k]}

(* The load assignment, the healths, the counts and the two levels of      *)
(* weights have matching shapes.                                           *)
TypeOK ==
    /\ weight \in {c.weight : c \in Configurations}
    /\ \A p \in Priorities :
         /\ health[p] \in [EndpointsAt(p) -> BOOLEAN]
         /\ healthy[p] \in 0 .. Len(weight[p])
         /\ DOMAIN item[p] \subseteq EndpointsAt(p)
         /\ itemCur[p] \in [DOMAIN item[p] -> -IMax - 1 .. IMax]
         /\ itemTaken[p] \in [DOMAIN item[p] -> 0 .. MaxPicks]
    /\ load \in [Priorities -> 0 .. 100]
    /\ loadCur \in [Priorities -> -IMax - 1 .. IMax]
    /\ loadTaken \in [Priorities -> 0 .. MaxPicks]

-----------------------------------------------------------------------------
\* Mutation: an overprovisioning factor of 1.3.
PriorityHealthTight(h, t) == Min({1000, 13 * ((100 * h) \div t)})

(* calculate_priority_health: the division truncates, as in u32.           *)
PriorityHealth(h, t) == Min({1000, 14 * ((100 * h) \div t)})

Round(a, b) == (2 * a + b) \div (2 * b)

\* Mutation: the best priority keeps its load when none of it is healthy.
PriorityLoadsFirst(h) == [p \in Priorities |-> IF p = 1 THEN 100 ELSE 0]

(* calculate_priority_loads.  With no health at all the quotients are NaN, *)
(* which `as u32` turns into 0.                                            *)
PriorityLoads(h) ==
    LET ph   == [p \in Priorities |-> PriorityHealth(h[p], Len(weight[p]))]
        norm == Min({1000, FoldFunction(+, 0, ph)})
        \* priority_load(P_0) + ... + priority_load(P_p), times norm
        sum[p \in 0 .. Len(weight)] ==
            IF p = 0 THEN 0 ELSE sum[p - 1] + Min({100 * norm - sum[p - 1], 100 * ph[p]})
    IN [p \in Priorities |-> IF norm = 0 THEN 0 ELSE Round(sum[p] - sum[p - 1], norm)]

(* HealthyBalancer.reload: the items of the balancer it builds.            *)
Reloaded(ws, hs) == CollectChecked(Restrict(ws, {k \in DOMAIN ws : hs[k]}))

Zero(f) == [i \in DOMAIN f |-> 0]

-----------------------------------------------------------------------------
(* from_slice *)
Init ==
    /\ \E c \in Configurations : weight = c.weight /\ health = c.health
    /\ healthy = [p \in Priorities |-> Cardinality(HealthyAt(p))]
    /\ load = CollectChecked(PriorityLoads(healthy))
    /\ loadCur = Zero(load)
    /\ item = [p \in Priorities |-> Reloaded(weight[p], health[p])]
    /\ itemCur = [p \in Priorities |-> Zero(item[p])]
    /\ loadTaken = Zero(load)
    /\ itemTaken = itemCur

\* Mutation: a repeated report is counted again.
UpdateHealthAgain(p, k, h) ==
    /\ health' = [health EXCEPT ![p][k] = h]
    /\ healthy' = [healthy EXCEPT ![p] = IF h THEN @ + 1 ELSE @ - 1]
    /\ UNCHANGED <<weight, balancers, taken>>

(* update_health, through HealthyBalancer.update_health, its reload and    *)
(* recalculate_priority_load_factors: both round robins start afresh.      *)
UpdateHealth(p, k, h) ==
    /\ health[p][k] # h
    /\ health' = [health EXCEPT ![p][k] = h]
    /\ item' = [item EXCEPT ![p] = Reloaded(weight[p], health'[p])]
    /\ itemCur' = [itemCur EXCEPT ![p] = Zero(item'[p])]
    /\ itemTaken' = [itemTaken EXCEPT ![p] = Zero(item'[p])]
    /\ healthy' = [healthy EXCEPT ![p] = IF h THEN @ + 1 ELSE @ - 1]
    /\ load' = CollectChecked(PriorityLoads(healthy'))
    /\ loadCur' = Zero(load')
    /\ loadTaken' = Zero(load')
    /\ UNCHANGED weight

NextPriority == NextItem(load, loadCur)

NextEndpoint(p) == NextItem(item[p], itemCur[p])

Picks(f) == FoldFunction(+, 0, f)

(* next_item, when the chosen priority has an endpoint to offer ...        *)
PickEndpoint ==
    LET p == NextPriority.item
        k == NextEndpoint(p).item
    IN /\ p # 0 /\ k # 0
       /\ Picks(loadTaken) < MaxPicks /\ Picks(itemTaken[p]) < MaxPicks
       /\ loadCur' = NextPriority.current
       /\ itemCur' = [itemCur EXCEPT ![p] = NextEndpoint(p).current]
       /\ loadTaken' = [loadTaken EXCEPT ![p] = @ + 1]
       /\ itemTaken' = [itemTaken EXCEPT ![p][k] = @ + 1]
       /\ UNCHANGED <<weight, health, healthy, load, item>>

(* ... and when it has none.                                               *)
PickNone ==
    LET p == NextPriority.item IN
    /\ p = 0 \/ NextEndpoint(p).item = 0
    /\ Picks(loadTaken) < MaxPicks
    /\ loadCur' = NextPriority.current
    /\ loadTaken' = [q \in DOMAIN load |-> loadTaken[q] + IF q = p THEN 1 ELSE 0]
    /\ UNCHANGED <<weight, health, healthy, load, item, itemCur, itemTaken>>

Next ==
    \/ \E p \in Priorities : \E k \in EndpointsAt(p) \cap Reported, h \in BOOLEAN :
         UpdateHealth(p, k, h)
    \/ PickEndpoint
    \/ PickNone

Spec == Init /\ [][Next]_vars

-----------------------------------------------------------------------------
(* The running count of a priority's healthy endpoints, adjusted by one    *)
(* with every report, is the number of its endpoints that are healthy,     *)
(* however reports repeat, and its balancer holds no other endpoint.       *)
CountsExact ==
    \A p \in Priorities :
        healthy[p] = Cardinality(HealthyAt(p)) /\ DOMAIN item[p] \subseteq HealthyAt(p)

\* The healthy endpoints of a priority in per cent, rounded down.
Percent(p) == (100 * Cardinality(HealthyAt(p))) \div Len(weight[p])

(* While a per cent of some priority is healthy, the priority chosen next  *)
(* has an endpoint to offer: next_item does not answer None.  One healthy  *)
(* endpoint of more than a hundred does not count, since                   *)
(* calculate_priority_health drops what is below a per cent.               *)
ServesWhileHealthy ==
    (\E p \in Priorities : Percent(p) > 0) =>
        NextPriority.item # 0 /\ DOMAIN item[NextPriority.item] # {}

(* A priority has a share of the traffic exactly if a per cent of it is    *)
(* healthy and the better ones have less than 72 % together, from where    *)
(* the overprovisioning factor of 1.4 makes them enough.  Normalisation,   *)
(* the min of the formula and the last rounding neither take away a share  *)
(* that is due nor leave one to a priority that is not needed.             *)
SpillsWhenShort ==
    \A p \in Priorities :
        LET better == FoldFunctionOnSet(+, 0, [q \in Priorities |-> Percent(q)], 1 .. p - 1)
        IN load[p] > 0 <=> Percent(p) > 0 /\ better < 72

\* There is a choice, and the weights fit in i32: where their sum saturates
\* the shares are not exact.
Balanced(w) == Cardinality(DOMAIN w) > 1 /\ Picks(w) \in 1 .. IMax

(* Both round robins are smooth: at no time is a priority or an endpoint a *)
(* whole pick or more ahead of, or behind, the share of the picks that its *)
(* weight entitles it to.  So whenever the share is a whole number it is   *)
(* met exactly, and weight 0 gets nothing.                                 *)
NeverAPickOff ==
    LET Off(w, t, i) == t[i] * Picks(w) - Picks(t) * w[i]
        Fair(w, t)   == Balanced(w) =>
            \A i \in DOMAIN w : Off(w, t, i) < Picks(w) /\ -Off(w, t, i) < Picks(w)
    IN Fair(load, loadTaken) /\ \A p \in Priorities : Fair(item[p], itemTaken[p])
=============================================================================
