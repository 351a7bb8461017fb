---------------------------- MODULE MCListeners ----------------------------
(* Instances of Listeners for TLC.                                         *)
EXTENDS Listeners

\* One runtime with a connection, and two that share changes and dumps.
MCBounds ==
  {[runtimes |-> 1, changes |-> 3, dumps |-> 1, conns |-> 1],
   [runtimes |-> 2, changes |-> 2, dumps |-> 2, conns |-> 0]}

\* One runtime, no dump.
MCSecretBounds == {[runtimes |-> 1, changes |-> 3, dumps |-> 0, conns |-> 1]}
=============================================================================
