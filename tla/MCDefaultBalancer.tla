------------------------- MODULE MCDefaultBalancer -------------------------
(* An instance of DefaultBalancer for TLC.                                 *)
EXTENDS DefaultBalancer

\* n[p] endpoints of weight 1 in priority p, the first h[p] of them healthy.
Equal(n, h) ==
    [weight |-> [p \in DOMAIN n |-> [k \in 1 .. n[p] |-> 1]],
     health |-> [p \in DOMAIN n |-> [k \in 1 .. n[p] |-> k <= h[p]]]]

\* Two or three priorities, five endpoints in all at most, healthy or not, and
\* three where the best two are short together with a third of each, or not.
MCPriorities ==
    {Equal(n, [p \in DOMAIN n |-> 0]) :
        n \in {m \in [1 .. 2 -> 1 .. 4] \cup [1 .. 3 -> 1 .. 2] : Picks(m) <= 5} \cup {<<3, 3, 1>>}}

\* Priorities of many endpoints, few of which change: 60 to 76 % of the first
\* is healthy, in steps of 4 %, or none to four of 101.
MCLarge ==
    {[weight |-> << [k \in 1 .. 25 |-> 1], <<1>> >>,
      health |-> << [k \in 1 .. 25 |-> k \in 5 .. 19], <<TRUE>> >>],
     Equal(<<101, 1>>, <<0, 1>>)}

\* One priority with up to three endpoints of different weights, and one with
\* weights that do not fit in u32 together, nor, the first three, in i32.
MCWeights ==
    {[weight |-> <<w>>, health |-> <<[k \in DOMAIN w |-> TRUE]>>] :
        w \in UNION {[1 .. n -> 1 .. 3] : n \in 1 .. 3} \cup {<<900, 1, 900, 900>>}}

MCConfigurations == MCPriorities \cup MCLarge \cup MCWeights
=============================================================================
