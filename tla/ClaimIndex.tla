------------------------------ MODULE ClaimIndex ------------------------------
(***************************************************************************)
(* Task claims: acquireClaim and releaseClaim of src/pipeline.js over the  *)
(* directory-lock compare-and-swap of src/io.js.                           *)
(*                                                                         *)
(* Every process (a CLI invocation or a detached Runner worker) runs one   *)
(* call at a time.  A step is one file-system operation, so calls          *)
(* interleave wherever the operating system may switch, and a process may  *)
(* die between any two steps, leaving index.json.cas-lock and half-done    *)
(* writes behind.  claims/index.json is the authority; the file of each    *)
(* claim is written after it.                                              *)
(*                                                                         *)
(* Left out: timestamps, the owner a claim names (one supervisor writes    *)
(* them all), the CLAIM_ACQUIRED event, and the preflight of acquireClaim, *)
(* which changes no state.  A call that throws before its first step       *)
(* changes nothing and is not a step.                                      *)
(***************************************************************************)
EXTENDS Naturals

CONSTANTS
    Proc,         \* processes that call acquireClaim or releaseClaim
    Task,         \* task identities
    ClaimId,      \* claim identities; every acquire call draws a fresh one
    None,         \* "no record" and "no call"
    CasAttempts,  \* CLAIM_INDEX_CAS_ATTEMPTS
    MaxCrashes    \* bound on the process deaths that are explored

Terminal == {"COMPLETED", "FAILED"}
Claim == [id : ClaimId, task : Task, fence : Nat \ {0},
          status : Terminal \cup {"ACTIVE"}]
ClaimOrNone == Claim \cup {None}
Index == [next : Nat \ {0}, claim : [Task -> ClaimOrNone]]

ASSUME ClaimAssumption ==
    /\ None \notin Claim
    /\ CasAttempts \in Nat \ {0}
    /\ MaxCrashes \in Nat

VARIABLES
    index,      \* claims/index.json: next_fence and the task-<id> entries
    casLock,    \* does the directory index.json.cas-lock exist?
    claimFile,  \* claims/<claim_id>.json, None while it does not exist
    drawn,      \* claim identities already generated
    pc,         \* where each process is in its call
    call,       \* each process's local variables
    granted,    \* history: each claim as the index last recorded it
    crashes     \* process deaths so far

vars == <<index, casLock, claimFile, drawn, pc, call, granted, crashes>>

-------------------------------------------------------------------------------

\* Fault: the first fence generation is 0.
EmptyIndexFromZero == [next |-> 0, claim |-> [t \in Task |-> None]]

\* claimIndexSnapshot when claims/index.json does not exist.
EmptyIndex == [next |-> 1, claim |-> [t \in Task |-> None]]

Init ==
    /\ index = EmptyIndex
    /\ casLock = FALSE
    /\ claimFile = [c \in ClaimId |-> None]
    /\ drawn = {}
    /\ pc = [p \in Proc |-> "idle"]
    /\ call = [p \in Proc |-> None]
    /\ granted = [c \in ClaimId |-> None]
    /\ crashes = 0

Goto(p, label) == pc' = [pc EXCEPT ![p] = label]

\* The call of p returns or throws: its local variables are gone.
Return(p) ==
    /\ Goto(p, "idle")
    /\ call' = [call EXCEPT ![p] = None]

\* Fault: no limit on the attempts.
RetryForever(p) == Goto(p, "snapshot") /\ UNCHANGED call

\* A compare-and-swap that did not swap: try again or give up.
Retry(p) ==
    IF call[p].tries + 1 < CasAttempts
    THEN /\ Goto(p, "snapshot")
         /\ call' = [call EXCEPT ![p].tries = call[p].tries + 1]
    ELSE Return(p)

\* acquireClaim is called for task t.
BeginAcquire(p, t) ==
    /\ pc[p] = "idle"
    /\ \E c \in ClaimId \ drawn :
           /\ drawn' = drawn \cup {c}
           /\ call' = [call EXCEPT ![p] =
                 [op |-> "acquire", tries |-> 0, snap |-> EmptyIndex,
                  claim |-> [id |-> c, task |-> t, fence |-> 1,
                             status |-> "ACTIVE"]]]
    /\ Goto(p, "snapshot")
    /\ UNCHANGED <<index, casLock, claimFile, granted, crashes>>

\* releaseClaim(claim c, status s) finds the claim file ACTIVE.  A terminal
\* file returns or throws at once and changes nothing.
BeginRelease(p, c, s) ==
    /\ pc[p] = "idle"
    /\ claimFile[c] # None
    /\ claimFile[c].status = "ACTIVE"
    /\ call' = [call EXCEPT ![p] =
          [op |-> "release", tries |-> 0, snap |-> EmptyIndex,
           claim |-> [claimFile[c] EXCEPT !.status = s]]]
    /\ Goto(p, "snapshot")
    /\ UNCHANGED <<index, casLock, claimFile, drawn, granted, crashes>>

\* Fault: the entry's status is not compared.
ReleasesEntryById(p) ==
    index.claim[call[p].claim.task].id = call[p].claim.id

\* The index entry a release must find: its own claim, still ACTIVE.
ReleasesEntry(p) ==
    index.claim[call[p].claim.task] = [call[p].claim EXCEPT !.status = "ACTIVE"]

\* Fault: only the caller's own claim counts as a conflict.
ConflictWithItself(p) ==
    /\ index.claim[call[p].claim.task] # None
    /\ index.claim[call[p].claim.task].id = call[p].claim.id

\* "claim conflict": the task has an ACTIVE claim already.
Conflict(p) ==
    /\ index.claim[call[p].claim.task] # None
    /\ index.claim[call[p].claim.task].status = "ACTIVE"

SnapshotForAcquire(p) ==
    /\ pc[p] = "snapshot" /\ call[p].op = "acquire"
    /\ IF Conflict(p)
       THEN Return(p)
       ELSE /\ Goto(p, "lock")
            /\ call' = [call EXCEPT ![p].snap = index,
                                    ![p].claim.fence = index.next]
    /\ UNCHANGED <<index, casLock, claimFile, drawn, granted, crashes>>

SnapshotForRelease(p) ==
    /\ pc[p] = "snapshot" /\ call[p].op = "release"
    /\ ReleasesEntry(p)
    /\ Goto(p, "lock")
    /\ call' = [call EXCEPT ![p].snap = index]
    /\ UNCHANGED <<index, casLock, claimFile, drawn, granted, crashes>>

\* "claim index ownership is ambiguous or stale"
RefuseRelease(p) ==
    /\ pc[p] = "snapshot" /\ call[p].op = "release"
    /\ ~ReleasesEntry(p)
    /\ Return(p)
    /\ UNCHANGED <<index, casLock, claimFile, drawn, granted, crashes>>

\* Fault: a recursive mkdir, which an existing directory satisfies.
CasLockRecursive(p) ==
    /\ pc[p] = "lock"
    /\ Goto(p, "compare")
    /\ casLock' = TRUE
    /\ UNCHANGED <<index, claimFile, drawn, call, granted, crashes>>

\* mkdir index.json.cas-lock; EEXIST is "cas-lock-busy".
CasLock(p) ==
    /\ pc[p] = "lock"
    /\ IF casLock
       THEN Retry(p)
       ELSE Goto(p, "compare") /\ UNCHANGED call
    /\ casLock' = TRUE
    /\ UNCHANGED <<index, claimFile, drawn, granted, crashes>>

\* Fault: the lock alone is trusted and the content is not compared.
CasCompareNothing(p) ==
    /\ pc[p] = "compare"
    /\ Goto(p, "swap")
    /\ UNCHANGED <<index, casLock, claimFile, drawn, call, granted, crashes>>

\* The content hash is compared with the snapshot's.
CasCompare(p) ==
    /\ pc[p] = "compare"
    /\ Goto(p, IF index = call[p].snap THEN "swap" ELSE "unlockChanged")
    /\ UNCHANGED <<index, casLock, claimFile, drawn, call, granted, crashes>>

\* The index the call computed from its snapshot.
NextIndex(p) ==
    LET claim == call[p].claim
        snap  == call[p].snap
    IN [next  |-> IF call[p].op = "acquire" THEN snap.next + 1 ELSE snap.next,
        claim |-> [snap.claim EXCEPT ![claim.task] = claim]]

CasSwap(p) ==
    /\ pc[p] = "swap"
    /\ index' = NextIndex(p)
    /\ granted' = [granted EXCEPT ![call[p].claim.id] = call[p].claim]
    /\ Goto(p, "unlockSwapped")
    /\ UNCHANGED <<casLock, claimFile, drawn, call, crashes>>

\* Fault: the result of the compare-and-swap is not looked at.
CasUnlockUnchecked(p) ==
    /\ pc[p] \in {"unlockSwapped", "unlockChanged"}
    /\ casLock' = FALSE
    /\ Goto(p, "file")
    /\ UNCHANGED <<index, claimFile, drawn, call, granted, crashes>>

\* Fault: rmdir is skipped when the content has changed.
CasUnlockOnSwap(p) ==
    \/ /\ pc[p] = "unlockSwapped"
       /\ casLock' = FALSE
       /\ Goto(p, "file")
       /\ UNCHANGED <<index, claimFile, drawn, call, granted, crashes>>
    \/ /\ pc[p] = "unlockChanged"
       /\ Retry(p)
       /\ UNCHANGED <<index, casLock, claimFile, drawn, granted, crashes>>

\* rmdir, in a finally block, whatever the comparison said.
CasUnlock(p) ==
    /\ casLock' = FALSE
    /\ \/ /\ pc[p] = "unlockSwapped"
          /\ Goto(p, "file") /\ UNCHANGED call
       \/ /\ pc[p] = "unlockChanged"
          /\ Retry(p)
    /\ UNCHANGED <<index, claimFile, drawn, granted, crashes>>

\* The claim's own file follows the index.
WriteClaimFile(p) ==
    /\ pc[p] = "file"
    /\ claimFile' = [claimFile EXCEPT ![call[p].claim.id] = call[p].claim]
    /\ Return(p)
    /\ UNCHANGED <<index, casLock, drawn, granted, crashes>>

\* The process dies; the files it has written stay.
Crash(p) ==
    /\ pc[p] # "idle"
    /\ crashes < MaxCrashes
    /\ crashes' = crashes + 1
    /\ Return(p)
    /\ UNCHANGED <<index, casLock, claimFile, drawn, granted>>

Step(p) ==
    \/ SnapshotForAcquire(p) \/ SnapshotForRelease(p) \/ RefuseRelease(p)
    \/ CasLock(p) \/ CasCompare(p) \/ CasSwap(p) \/ CasUnlock(p)
    \/ WriteClaimFile(p)

Next ==
    \E p \in Proc :
        \/ \E t \in Task : BeginAcquire(p, t)
        \/ \E c \in ClaimId, s \in Terminal : BeginRelease(p, c, s)
        \/ Step(p)
        \/ Crash(p)

Spec == Init /\ [][Next]_vars

\* A process that is running a call keeps being scheduled.
FairSpec == Spec /\ \A p \in Proc : WF_vars(Step(p))

-------------------------------------------------------------------------------

Label == {"idle", "snapshot", "lock", "compare", "swap",
          "unlockSwapped", "unlockChanged", "file"}
Call == [op : {"acquire", "release"}, tries : Nat, snap : Index, claim : Claim]

\* Every variable has its type, and a process has local variables exactly
\* while it runs a call.
TypeOK ==
    /\ index \in Index
    /\ casLock \in BOOLEAN
    /\ claimFile \in [ClaimId -> ClaimOrNone]
    /\ drawn \subseteq ClaimId
    /\ pc \in [Proc -> Label]
    /\ call \in [Proc -> Call \cup {None}]
    /\ \A p \in Proc : pc[p] # "idle" => call[p] \in Call
    /\ granted \in [ClaimId -> ClaimOrNone]
    /\ crashes \in Nat

\* The processes between mkdir and rmdir of index.json.cas-lock.
InCas == {p \in Proc : pc[p] \in {"compare", "swap", "unlockSwapped",
                                  "unlockChanged"}}

\* No update of the index is ever lost: as long as a claim is live the index
\* entry of its task is that claim, so no concurrent acquire or release has
\* overwritten it from an older snapshot (atomicCompareAndSwapJson).
LiveClaimIsIndexed ==
    \A c \in ClaimId :
        granted[c] # None =>
            (granted[c].status = "ACTIVE" =>
                index.claim[granted[c].task] = granted[c])

\* Two claims never carry the same fence generation, whatever their tasks,
\* even when their acquirers read the same next_fence.
FencesAreUnique ==
    \A c, d \in ClaimId :
        /\ granted[c] # None
        /\ granted[d] # None
        /\ granted[c].fence = granted[d].fence
        => c = d

\* A claim file never runs ahead of the index: a terminal file repeats the
\* status the index recorded first, and an ACTIVE file belongs to a claim the
\* index has granted.
FileFollowsIndex ==
    \A c \in ClaimId :
        claimFile[c] # None =>
            /\ granted[c] # None
            /\ \/ claimFile[c] = granted[c]
               \/ claimFile[c] = [granted[c] EXCEPT !.status = "ACTIVE"]

\* What a step may never do to a claim: change its identity or its fence, end
\* it twice, or revive it once it ended.
ClaimEndsOnce ==
    [][\A c \in ClaimId :
          granted[c] # None =>
              /\ granted'[c] # None
              /\ \/ granted'[c] = granted[c]
                 \/ /\ granted[c].status = "ACTIVE"
                    /\ granted'[c] = [granted[c] EXCEPT
                                         !.status = granted'[c].status]
      ]_vars

\* The index implements the one-step register of claims: a call takes effect
\* when its compare-and-swap writes claims/index.json.
Register == INSTANCE ClaimRegister
                WITH nextFence <- index.next, holder <- index.claim
ImplementsRegister == Register!Spec

\* Retries are bounded, so every call returns, however often other processes
\* win the index and even if one died holding the lock.
CallsReturn == \A p \in Proc : (pc[p] # "idle") ~> (pc[p] = "idle")

\* Unless a process dies, the lock directory does not outlive the call that
\* made it.
LockIsFreed == casLock ~> (~casLock \/ crashes > 0)
===============================================================================
