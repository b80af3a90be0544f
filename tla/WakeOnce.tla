------------------------------- MODULE WakeOnce -------------------------------
(***************************************************************************)
(* What wake delivery promises about each terminal event: its message is   *)
(* submitted at most once, receipted only after it was submitted, and      *)
(* consumed only after it was receipted (README: "An atomic per-event      *)
(* activation decision is the exactly-once boundary").  WakeDelivery keeps *)
(* this promise for the submissions that left evidence of themselves.      *)
(***************************************************************************)
EXTENDS Naturals

CONSTANT Event

VARIABLES
    messages,   \* messages submitted for each event
    receipted,  \* events with a delivery receipt
    consumed    \* events with a consumption record

vars == <<messages, receipted, consumed>>

Init ==
    /\ messages = [e \in Event |-> 0]
    /\ receipted = {}
    /\ consumed = {}

Submit(e) ==
    /\ messages[e] = 0
    /\ messages' = [messages EXCEPT ![e] = 1]
    /\ UNCHANGED <<receipted, consumed>>

Confirm(e) ==
    /\ messages[e] = 1
    /\ e \notin receipted
    /\ receipted' = receipted \cup {e}
    /\ UNCHANGED <<messages, consumed>>

Consume(e) ==
    /\ e \in receipted
    /\ e \notin consumed
    /\ consumed' = consumed \cup {e}
    /\ UNCHANGED <<messages, receipted>>

Next == \E e \in Event : Submit(e) \/ Confirm(e) \/ Consume(e)

Spec == Init /\ [][Next]_vars
===============================================================================
