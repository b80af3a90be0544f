---------------------------- MODULE ClaimRegister ----------------------------
(***************************************************************************)
(* What the claim index promises its callers, with every call taking       *)
(* effect in one step: a task has at most one live claim, a claim is       *)
(* granted with the next fence generation and ends once.  ClaimIndex shows *)
(* that the compare-and-swap protocol of src/io.js and src/pipeline.js     *)
(* implements this specification.                                          *)
(***************************************************************************)
EXTENDS Naturals

CONSTANTS Task, ClaimId, None

VARIABLES
    nextFence,  \* the fence generation the next claim will carry
    holder      \* holder[t]: the claim last granted for task t, or None

regVars == <<nextFence, holder>>

Init ==
    /\ nextFence = 1
    /\ holder = [t \in Task |-> None]

Live(t) == holder[t] # None /\ holder[t].status = "ACTIVE"

\* A task without a live claim gets one, fenced by the next generation.
Acquire(t, c) ==
    /\ ~Live(t)
    /\ holder' = [holder EXCEPT ![t] = [id |-> c, task |-> t,
                                        fence |-> nextFence,
                                        status |-> "ACTIVE"]]
    /\ nextFence' = nextFence + 1

\* A live claim ends, keeping its identity and its fence.
Release(t, s) ==
    /\ Live(t)
    /\ holder' = [holder EXCEPT ![t].status = s]
    /\ UNCHANGED nextFence

Next ==
    \E t \in Task :
        \/ \E c \in ClaimId : Acquire(t, c)
        \/ \E s \in {"COMPLETED", "FAILED"} : Release(t, s)

Spec == Init /\ [][Next]_regVars
==============================================================================
