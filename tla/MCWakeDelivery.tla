---------------------------- MODULE MCWakeDelivery ----------------------------
(***************************************************************************)
(* Small instances of WakeDelivery.  Workers and events are interchangeable *)
(* in the safety runs; the liveness runs use no symmetry.                  *)
(***************************************************************************)
EXTENDS WakeDelivery, TLC

Workers == Permutations(Worker)

Symmetry == Workers \cup Permutations(Event)

\* In the liveness run the idle processes are used in a fixed order: they differ in
\* nothing, and a launch is possible with one of them whenever it is with another.
InTurn ==
    \A w \in Worker : pc[w] = "idle" /\ pc'[w] # "idle" =>
        w = CHOOSE v \in Worker : pc[v] = "idle"
===============================================================================
