---------------------------- MODULE MCHostOwnership ----------------------------
(***************************************************************************)
(* A small instance of HostOwnership: two panes in one workspace and one   *)
(* in another; both repositories at one host, one of them also at another, *)
(* whose registry is still of version 1.                                   *)
(***************************************************************************)
EXTENDS HostOwnership, TLC

CONSTANTS h1, h2, r1, r2, w1, w2, a, b, c

Panes == {[workspace |-> w1, pane |-> a], [workspace |-> w1, pane |-> b],
          [workspace |-> w2, pane |-> c]}

Together == {<<h1, r1>>, <<h1, r2>>, <<h2, r1>>}

Version1 == {<<h2, r1>>}

\* Processes are interchangeable, and the panes of one workspace.
Symmetry == {s @@ t : s \in Permutations(Proc), t \in Permutations({a, b})}
===============================================================================
