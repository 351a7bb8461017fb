----------------------------- MODULE SmoothWrr -----------------------------
(***************************************************************************)
(* The smooth weighted round robin of                                      *)
(* orion-lib/src/clusters/balancers/wrr.rs, as operators on the weights    *)
(* and the current weights of the items: functions on the items, which are *)
(* the positive integers that give their order.  i32 and u32 are bounded   *)
(* by IMax and UMax.                                                       *)
(***************************************************************************)
EXTENDS Integers, Sequences, SequencesExt

CONSTANTS IMax, UMax

ASSUME WidthAssumption == IMax \in Nat /\ UMax \in Nat /\ IMax <= UMax

\* i32::saturating_add
SaturatingAdd(a, b) ==
    CASE a + b > IMax      -> IMax
      [] a + b < -IMax - 1 -> -IMax - 1
      [] OTHER             -> a + b

\* i32::try_from(weight).unwrap_or(i32::MAX)
SignedWeight(w) == IF w > IMax THEN IMax ELSE w

\* collect_checked keeps the items before the sum of the weights leaves u32.
CollectChecked(weights) ==
    Restrict(weights, {i \in DOMAIN weights :
        FoldFunctionOnSet(+, 0, weights, {j \in DOMAIN weights : j <= i}) <= UMax})

TotalWeight(weights) ==
    FoldFunction(LAMBDA w, acc : SaturatingAdd(acc, SignedWeight(w)), 0, weights)

Increased(weights, current) ==
    [i \in DOMAIN weights |-> SaturatingAdd(current[i], SignedWeight(weights[i]))]

\* The first item with the highest current weight.
FirstOfHighest(cur) ==
    Min({i \in DOMAIN cur : \A j \in DOMAIN cur : cur[j] <= cur[i]})

\* Mutation: the chosen item pays its own weight instead of the total.
NextItemOwnPrice(weights, current) ==
    LET inc  == Increased(weights, current)
        best == FirstOfHighest(inc)
    IN IF DOMAIN weights = {} THEN [item |-> 0, current |-> current]
       ELSE [item |-> best, current |-> [inc EXCEPT ![best] = SaturatingAdd(@, -weights[best])]]

\* next_item: which item is chosen, 0 for none, and the new current weights.
NextItem(weights, current) ==
    IF Cardinality(DOMAIN weights) <= 1
      THEN [item |-> Max(DOMAIN weights \cup {0}), current |-> current]
      ELSE LET inc  == Increased(weights, current)
               best == FirstOfHighest(inc)
           IN [item |-> best,
               current |-> [inc EXCEPT ![best] = SaturatingAdd(@, -TotalWeight(weights))]]
=============================================================================
