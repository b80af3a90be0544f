--------------------------- MODULE ClaimIndexProofs ---------------------------
(***************************************************************************)
(* Proofs about ClaimIndex for every set of processes, tasks and claim     *)
(* identities, every number of retries and every number of crashes.        *)
(*                                                                         *)
(* The argument.  CasMutex says the lock directory serialises the          *)
(* compare-and-swap, hence (SwapIsCurrent) the index a process is about to *)
(* write was computed from the index it is about to replace.  PlanIsSound  *)
(* says what was true of that snapshot, and Records ties the three places  *)
(* that describe a claim together.  From these the register's atomic       *)
(* Acquire and Release can be read off at CasSwap, and nothing else        *)
(* touches the index.                                                      *)
(***************************************************************************)
EXTENDS ClaimIndex, TLAPS

\* Only one process at a time is between mkdir and rmdir of the lock, and the
\* directory exists while it is.
CasMutex ==
    \A p \in InCas :
        /\ casLock
        /\ \A q \in InCas : p = q

\* The content a process compared is still the content when it writes.
SwapIsCurrent == \A p \in Proc : pc[p] = "swap" => call[p].snap = index

Acquiring(p) ==
    /\ pc[p] \in {"snapshot", "lock", "compare", "swap", "unlockChanged"}
    /\ call[p].op = "acquire"

SameButStatus(c, d) == c.id = d.id /\ c.task = d.task /\ c.fence = d.fence

\* A claim identity an acquire call has drawn is not used by anyone else until
\* the call publishes it.
DrawnIsFresh ==
    /\ \A p \in Proc :
          Acquiring(p) =>
             /\ call[p].claim.id \in drawn
             /\ granted[call[p].claim.id] = None
             /\ call[p].claim.status = "ACTIVE"
             /\ \A q \in Proc : 
                   Acquiring(q) /\ call[q].claim.id = call[p].claim.id => p = q
    /\ \A c \in ClaimId : granted[c] # None => c \in drawn

\* What a call established about its snapshot before it tries the lock.
SoundPlan(c) ==
    LET prior == c.snap.claim[c.claim.task]
    IN IF c.op = "acquire"
       THEN /\ c.claim.fence = c.snap.next
            /\ prior # None => prior.status # "ACTIVE"
       ELSE /\ prior # None
            /\ prior.status = "ACTIVE"
            /\ SameButStatus(prior, c.claim)

PlanIsSound ==
    \A p \in Proc : pc[p] \in {"lock", "compare", "swap"} => SoundPlan(call[p])

\* A releasing call holds a claim that was granted, and once it has swapped,
\* the history records the status it wrote; an acquiring call that has swapped
\* holds the claim it was granted.
ReleaseKnowsClaim ==
    \A p \in Proc :
        /\ pc[p] # "idle" /\ call[p].op = "release" =>
              /\ call[p].claim.status \in Terminal
              /\ granted[call[p].claim.id] # None
              /\ SameButStatus(granted[call[p].claim.id], call[p].claim)
              /\ pc[p] \in {"unlockSwapped", "file"} =>
                    granted[call[p].claim.id] = call[p].claim
        /\ pc[p] \in {"unlockSwapped", "file"} /\ call[p].op = "acquire" =>
              /\ call[p].claim.status = "ACTIVE"
              /\ granted[call[p].claim.id] # None
              /\ SameButStatus(granted[call[p].claim.id], call[p].claim)

\* The history, the index and the claim files describe the same claims.
Records ==
    /\ \A c \in ClaimId :
          granted[c] # None => granted[c].id = c /\ granted[c].fence < index.next
    /\ \A t \in Task :
          index.claim[t] # None =>
             /\ index.claim[t].task = t
             /\ granted[index.claim[t].id] = index.claim[t]

IInv ==
    /\ TypeOK
    /\ CasMutex
    /\ SwapIsCurrent
    /\ DrawnIsFresh
    /\ PlanIsSound
    /\ ReleaseKnowsClaim
    /\ Records
    /\ LiveClaimIsIndexed
    /\ FencesAreUnique
    /\ FileFollowsIndex

-------------------------------------------------------------------------------

\* Initially no process runs a call and there is no record.
LEMMA InitInv == Init => IInv
<1> SUFFICES ASSUME Init PROVE IInv
  OBVIOUS
<1> USE DEF Init, EmptyIndex
<1>1. TypeOK
  <2>1. /\ index \in Index
        /\ casLock \in BOOLEAN
        /\ crashes \in Nat
    <3>1. index.claim \in [Task -> ClaimOrNone]
      BY DEF ClaimOrNone
    <3>2. index \in Index
      BY <3>1 DEF Index
    <3>3. QED
      BY <3>2
  <2>2. /\ claimFile \in [ClaimId -> ClaimOrNone]
        /\ granted \in [ClaimId -> ClaimOrNone]
    BY DEF ClaimOrNone
  <2>3. /\ pc \in [Proc -> Label]
        /\ call \in [Proc -> Call \cup {None}]
        /\ \A p \in Proc : pc[p] = "idle"
    BY DEF Label
  <2>4. QED
    BY <2>1, <2>2, <2>3 DEF TypeOK
<1>2. CasMutex /\ SwapIsCurrent /\ PlanIsSound /\ ReleaseKnowsClaim
  BY DEF CasMutex, InCas, SwapIsCurrent, PlanIsSound, ReleaseKnowsClaim
<1>3. DrawnIsFresh /\ Records
  BY DEF DrawnIsFresh, Acquiring, Records
<1>4. LiveClaimIsIndexed /\ FencesAreUnique /\ FileFollowsIndex
  BY DEF LiveClaimIsIndexed, FencesAreUnique, FileFollowsIndex
<1>5. QED
  BY <1>1, <1>2, <1>3, <1>4 DEF IInv

\* A retry leaves the claim and the snapshot of the call alone.
LEMMA RetryEffect ==
  ASSUME TypeOK, NEW p \in Proc, pc[p] # "idle", Retry(p)
  PROVE  /\ pc' \in [Proc -> Label]
         /\ call' \in [Proc -> Call \cup {None}]
         /\ \A q \in Proc : q # p => call'[q] = call[q] /\ pc'[q] = pc[q]
         /\ \/ pc'[p] = "idle"
            \/ /\ pc'[p] = "snapshot"
               /\ call'[p] \in Call
               /\ call'[p].op = call[p].op
               /\ call'[p].claim = call[p].claim
<1>1. CASE call[p].tries + 1 < CasAttempts
  <2>1. call[p] \in Call
    BY DEF TypeOK
  <2>2. DEFINE new == [call[p] EXCEPT !.tries = call[p].tries + 1]
  <2>3. new \in Call /\ new.op = call[p].op /\ new.claim = call[p].claim
    BY <2>1 DEF Call
  <2>4. call' = [call EXCEPT ![p] = new] /\ pc' = [pc EXCEPT ![p] = "snapshot"]
    BY <1>1 DEF Retry, Goto
  <2> HIDE DEF new
  <2>5. QED
    BY <2>3, <2>4 DEF TypeOK, Label
<1>2. CASE ~(call[p].tries + 1 < CasAttempts)
  BY <1>2 DEF Retry, Return, Goto, TypeOK, Label
<1>3. QED
  BY <1>1, <1>2

\* Every step keeps the types; see TypeOK in ClaimIndex.
LEMMA TypeStep == TypeOK /\ [Next]_vars => TypeOK'
<1> SUFFICES ASSUME TypeOK, [Next]_vars PROVE TypeOK'
  OBVIOUS
<1> USE ClaimAssumption
    DEF TypeOK, Index, ClaimOrNone, Claim, Call, Label, Terminal, Goto, Return
<1>1. ASSUME NEW p \in Proc, NEW t \in Task, BeginAcquire(p, t)
      PROVE  TypeOK'
  BY <1>1 DEF BeginAcquire, EmptyIndex
<1>2. ASSUME NEW p \in Proc, NEW c \in ClaimId, NEW s \in Terminal,
             BeginRelease(p, c, s)
      PROVE  TypeOK'
  BY <1>2 DEF BeginRelease, EmptyIndex
<1>3. ASSUME NEW p \in Proc, SnapshotForAcquire(p)
      PROVE  TypeOK'
  BY <1>3 DEF SnapshotForAcquire
<1>4. ASSUME NEW p \in Proc, SnapshotForRelease(p)
      PROVE  TypeOK'
  BY <1>4 DEF SnapshotForRelease
<1>5. ASSUME NEW p \in Proc, RefuseRelease(p)
      PROVE  TypeOK'
  BY <1>5 DEF RefuseRelease
<1>6. ASSUME NEW p \in Proc, CasLock(p)
      PROVE  TypeOK'
  <2>1. CASE casLock
    <3>1. pc' \in [Proc -> Label] /\ call' \in [Proc -> Call \cup {None}]
          /\ (\A q \in Proc : pc'[q] # "idle" => call'[q] \in Call)
      BY <1>6, <2>1, RetryEffect DEF CasLock
    <3>2. QED
      BY <1>6, <3>1 DEF CasLock
  <2>2. CASE ~casLock
    BY <1>6, <2>2 DEF CasLock
  <2>3. QED
    BY <2>1, <2>2
<1>7. ASSUME NEW p \in Proc, CasCompare(p)
      PROVE  TypeOK'
  BY <1>7 DEF CasCompare
<1>8. ASSUME NEW p \in Proc, CasSwap(p)
      PROVE  TypeOK'
  BY <1>8 DEF CasSwap, NextIndex
<1>9. ASSUME NEW p \in Proc, CasUnlock(p)
      PROVE  TypeOK'
  <2>1. CASE pc[p] = "unlockSwapped"
    BY <1>9, <2>1 DEF CasUnlock
  <2>2. CASE pc[p] = "unlockChanged"
    <3>1. pc' \in [Proc -> Label] /\ call' \in [Proc -> Call \cup {None}]
          /\ (\A q \in Proc : pc'[q] # "idle" => call'[q] \in Call)
      BY <1>9, <2>2, RetryEffect DEF CasUnlock
    <3>2. QED
      BY <1>9, <3>1 DEF CasUnlock
  <2>3. QED
    BY <1>9, <2>1, <2>2 DEF CasUnlock
<1>10. ASSUME NEW p \in Proc, WriteClaimFile(p)
       PROVE  TypeOK'
  BY <1>10 DEF WriteClaimFile
<1>11. ASSUME NEW p \in Proc, Crash(p)
       PROVE  TypeOK'
  BY <1>11 DEF Crash
<1>12. CASE UNCHANGED vars
  BY <1>12 DEF vars
<1> HIDE DEF TypeOK
<1>13. QED
  BY <1>1, <1>2, <1>3, <1>4, <1>5, <1>6, <1>7, <1>8, <1>9, <1>10, <1>11,
     <1>12 DEF Next, Step

-------------------------------------------------------------------------------
(***************************************************************************)
(* Preservation of the inductive invariant.                                *)
(***************************************************************************)

\* Steps that write neither the index nor a claim file keep what IInv says of
\* the records.
LEMMA RecordsFrame ==
  ASSUME IInv, UNCHANGED <<index, granted, claimFile>>
  PROVE  Records' /\ LiveClaimIsIndexed' /\ FencesAreUnique' /\ FileFollowsIndex'
  BY DEF IInv, Records, LiveClaimIsIndexed, FencesAreUnique, FileFollowsIndex

\* A step of p that leaves the compare-and-swap alone: p is outside the lock
\* before and after, keeps its claim or has none, and the records stay.
LEMMA OutsideStep ==
  ASSUME IInv, TypeOK', NEW p \in Proc,
         UNCHANGED <<index, casLock, granted, claimFile, drawn>>,
         \A q \in Proc : q # p => call'[q] = call[q] /\ pc'[q] = pc[q],
         pc[p] # "idle",
         pc'[p] \in {"idle", "snapshot"},
         pc'[p] = "snapshot" =>
            /\ pc[p] \in {"snapshot", "lock", "compare", "swap", "unlockChanged"}
            /\ call'[p].op = call[p].op
            /\ call'[p].claim = call[p].claim
  PROVE  IInv'
<1>1. CasMutex' /\ SwapIsCurrent' /\ PlanIsSound'
  <2>1. CasMutex'
    BY DEF IInv, CasMutex, InCas
  <2>2. SwapIsCurrent'
    BY DEF IInv, SwapIsCurrent
  <2>3. PlanIsSound'
    BY DEF IInv, PlanIsSound
  <2>4. QED
    BY <2>1, <2>2, <2>3
<1>2. DrawnIsFresh'
  BY DEF IInv, DrawnIsFresh, Acquiring
<1>3. ReleaseKnowsClaim'
  BY DEF IInv, ReleaseKnowsClaim, SameButStatus
<1>4. QED
  BY <1>1, <1>2, <1>3, RecordsFrame DEF IInv

\* acquireClaim draws a fresh identity.
LEMMA BeginAcquireInv ==
  ASSUME IInv, TypeOK', NEW p \in Proc, NEW t \in Task, BeginAcquire(p, t)
  PROVE  IInv'
<1> USE DEF IInv, BeginAcquire, Goto, TypeOK
<1>1. CasMutex' /\ SwapIsCurrent'
  BY DEF CasMutex, InCas, SwapIsCurrent
<1>2. PlanIsSound'
  BY DEF PlanIsSound
<1>3. ReleaseKnowsClaim'
  BY DEF ReleaseKnowsClaim, SameButStatus
<1>4. DrawnIsFresh'
  <2>1. PICK c \in ClaimId \ drawn :
          /\ drawn' = drawn \cup {c}
          /\ call'[p].claim.id = c
          /\ call'[p].claim.status = "ACTIVE"
          /\ \A q \in Proc : q # p => call'[q] = call[q] /\ pc'[q] = pc[q]
    OBVIOUS
  <2>2. granted[c] = None
    BY <2>1 DEF DrawnIsFresh
  <2>3. \A q \in Proc : q # p /\ Acquiring(q) => call[q].claim.id # c
    BY <2>1 DEF DrawnIsFresh
  <2>4. QED
    BY <2>1, <2>2, <2>3 DEF DrawnIsFresh, Acquiring
<1>5. QED
  BY <1>1, <1>2, <1>3, <1>4, RecordsFrame

\* releaseClaim starts from a claim file, and a file's claim was granted.
LEMMA BeginReleaseInv ==
  ASSUME IInv, TypeOK', NEW p \in Proc, NEW c \in ClaimId, NEW s \in Terminal,
         BeginRelease(p, c, s)
  PROVE  IInv'
<1> USE DEF IInv, BeginRelease, Goto, TypeOK
<1>1. CasMutex' /\ SwapIsCurrent'
  BY DEF CasMutex, InCas, SwapIsCurrent
<1>2. PlanIsSound'
  BY DEF PlanIsSound
<1>3. DrawnIsFresh'
  BY DEF DrawnIsFresh, Acquiring
<1>4. ReleaseKnowsClaim'
  <2>1. /\ granted[c] # None
        /\ SameButStatus(granted[c], claimFile[c])
        /\ claimFile[c].id = c
    BY DEF FileFollowsIndex, Records, SameButStatus, ClaimOrNone, Claim
  <2>2. /\ call'[p].claim = [claimFile[c] EXCEPT !.status = s]
        /\ \A q \in Proc : q # p => call'[q] = call[q] /\ pc'[q] = pc[q]
    OBVIOUS
  <2>3. /\ call'[p].claim.id = c
        /\ call'[p].claim.status = s
        /\ SameButStatus(granted[c], call'[p].claim)
    BY <2>1, <2>2 DEF SameButStatus, ClaimOrNone, Claim
  <2>4. QED
    BY <2>1, <2>2, <2>3 DEF ReleaseKnowsClaim, SameButStatus
<1>5. QED
  BY <1>1, <1>2, <1>3, <1>4, RecordsFrame

\* The snapshot of an acquire fixes its fence and sees no ACTIVE entry.
LEMMA SnapshotForAcquireInv ==
  ASSUME IInv, TypeOK', NEW p \in Proc, SnapshotForAcquire(p)
  PROVE  IInv'
<1>1. CASE Conflict(p)
  BY <1>1, OutsideStep DEF SnapshotForAcquire, Return, Goto, IInv, TypeOK, Label
<1>2. CASE ~Conflict(p)
  <2> USE DEF IInv, TypeOK
  <2>1. /\ pc[p] = "snapshot" /\ call[p].op = "acquire" /\ call[p] \in Call
        /\ UNCHANGED <<index, casLock, claimFile, drawn, granted, crashes>>
        /\ pc' = [pc EXCEPT ![p] = "lock"]
        /\ call'[p].snap = index
        /\ call'[p].op = "acquire"
        /\ call'[p].claim = [call[p].claim EXCEPT !.fence = index.next]
        /\ \A q \in Proc : q # p => call'[q] = call[q] /\ pc'[q] = pc[q]
    BY <1>2 DEF SnapshotForAcquire, Goto, Call
  <2>2. /\ call'[p].claim.id = call[p].claim.id
        /\ call'[p].claim.task = call[p].claim.task
        /\ call'[p].claim.status = call[p].claim.status
        /\ call'[p].claim.fence = index.next
    BY <2>1 DEF Call, Claim
  <2>3. CasMutex' /\ SwapIsCurrent'
    BY <2>1 DEF CasMutex, InCas, SwapIsCurrent
  <2>4. PlanIsSound'
    <3>1. SoundPlan(call'[p])
      BY <2>1, <2>2, <1>2 DEF SoundPlan, Conflict
    <3>2. QED
      BY <2>1, <3>1 DEF PlanIsSound
  <2>5. DrawnIsFresh'
    <3>1. Acquiring(p) /\ Acquiring(p)'
      BY <2>1 DEF Acquiring
    <3>2. \A q \in Proc : /\ Acquiring(q)' <=> Acquiring(q)
                          /\ call'[q].claim.id = call[q].claim.id
                          /\ call'[q].claim.status = call[q].claim.status
      BY <2>1, <2>2, <3>1 DEF Acquiring
    <3>3. QED
      BY <2>1, <3>2 DEF DrawnIsFresh
  <2>6. ReleaseKnowsClaim'
    BY <2>1, <2>2 DEF ReleaseKnowsClaim, SameButStatus
  <2>7. QED
    BY <2>1, <2>3, <2>4, <2>5, <2>6, RecordsFrame
<1>3. QED
  BY <1>1, <1>2

\* The snapshot of a release sees its own claim, ACTIVE.
LEMMA SnapshotForReleaseInv ==
  ASSUME IInv, TypeOK', NEW p \in Proc, SnapshotForRelease(p)
  PROVE  IInv'
<1> USE DEF IInv, TypeOK
<1>1. /\ pc[p] = "snapshot" /\ call[p].op = "release" /\ call[p] \in Call
      /\ UNCHANGED <<index, casLock, claimFile, drawn, granted, crashes>>
      /\ pc' = [pc EXCEPT ![p] = "lock"]
      /\ call'[p].snap = index
      /\ call'[p].op = "release"
      /\ call'[p].claim = call[p].claim
      /\ \A q \in Proc : q # p => call'[q] = call[q] /\ pc'[q] = pc[q]
  BY DEF SnapshotForRelease, Goto, Call
<1>2. CasMutex' /\ SwapIsCurrent'
  BY <1>1 DEF CasMutex, InCas, SwapIsCurrent
<1>3. PlanIsSound'
  <2> DEFINE prior == index.claim[call[p].claim.task]
  <2>1. prior = [call[p].claim EXCEPT !.status = "ACTIVE"]
    BY DEF SnapshotForRelease, ReleasesEntry
  <2>2. prior \in Claim /\ prior.status = "ACTIVE"
        /\ SameButStatus(prior, call[p].claim)
    BY <1>1, <2>1 DEF SameButStatus, Call, Claim, Terminal
  <2>3. SoundPlan(call'[p])
    BY <1>1, <2>2, ClaimAssumption DEF SoundPlan
  <2>4. QED
    BY <1>1, <2>3 DEF PlanIsSound
<1>4. DrawnIsFresh'
  BY <1>1 DEF DrawnIsFresh, Acquiring
<1>5. ReleaseKnowsClaim'
  BY <1>1 DEF ReleaseKnowsClaim, SameButStatus
<1>6. QED
  BY <1>1, <1>2, <1>3, <1>4, <1>5, RecordsFrame

\* mkdir admits a process only while nobody is inside.
LEMMA CasLockInv ==
  ASSUME IInv, TypeOK', NEW p \in Proc, CasLock(p)
  PROVE  IInv'
<1> USE DEF IInv, TypeOK
<1>1. CASE casLock
  <2>1. Retry(p) /\ pc[p] = "lock"
        /\ UNCHANGED <<index, casLock, claimFile, drawn, granted>>
    BY <1>1 DEF CasLock
  <2>2. QED
    BY <2>1, RetryEffect, OutsideStep
<1>2. CASE ~casLock
  <2>1. /\ pc[p] = "lock"
        /\ pc' = [pc EXCEPT ![p] = "compare"]
        /\ casLock' = TRUE
        /\ UNCHANGED <<index, claimFile, drawn, granted, call>>
    BY <1>2 DEF CasLock, Goto
  <2>2. CasMutex' /\ SwapIsCurrent'
    BY <1>2, <2>1 DEF CasMutex, InCas, SwapIsCurrent
  <2>3. PlanIsSound'
    BY <2>1 DEF PlanIsSound
  <2>4. DrawnIsFresh'
    BY <2>1 DEF DrawnIsFresh, Acquiring
  <2>5. ReleaseKnowsClaim'
    BY <2>1 DEF ReleaseKnowsClaim, SameButStatus
  <2>6. QED
    BY <2>1, <2>2, <2>3, <2>4, <2>5, RecordsFrame
<1>3. QED
  BY <1>1, <1>2

\* The comparison lets a process swap only with a current snapshot.
LEMMA CasCompareInv ==
  ASSUME IInv, TypeOK', NEW p \in Proc, CasCompare(p)
  PROVE  IInv'
<1> USE DEF IInv, TypeOK
<1>1. /\ pc[p] = "compare"
      /\ pc' = [pc EXCEPT ![p] = IF index = call[p].snap
                                 THEN "swap" ELSE "unlockChanged"]
      /\ UNCHANGED <<index, casLock, claimFile, drawn, granted, call>>
  BY DEF CasCompare, Goto
<1>2. CasMutex' /\ SwapIsCurrent'
  BY <1>1 DEF CasMutex, InCas, SwapIsCurrent
<1>3. PlanIsSound'
  BY <1>1 DEF PlanIsSound
<1>4. DrawnIsFresh'
  BY <1>1 DEF DrawnIsFresh, Acquiring
<1>5. ReleaseKnowsClaim'
  BY <1>1 DEF ReleaseKnowsClaim, SameButStatus
<1>6. QED
  BY <1>1, <1>2, <1>3, <1>4, <1>5, RecordsFrame

\* rmdir lets the next process in.
LEMMA CasUnlockInv ==
  ASSUME IInv, TypeOK', NEW p \in Proc, CasUnlock(p)
  PROVE  IInv'
<1> USE DEF IInv, TypeOK
<1>1. /\ casLock' = FALSE
      /\ UNCHANGED <<index, claimFile, drawn, granted>>
      /\ p \in InCas
      /\ pc[p] # "idle"
  BY DEF CasUnlock, InCas
<1>2. /\ \A q \in Proc : q # p => call'[q] = call[q] /\ pc'[q] = pc[q]
      /\ \/ pc[p] = "unlockSwapped" /\ pc'[p] = "file" /\ call' = call
         \/ pc[p] = "unlockChanged" /\ pc'[p] = "idle"
         \/ /\ pc[p] = "unlockChanged" /\ pc'[p] = "snapshot"
            /\ call'[p].op = call[p].op /\ call'[p].claim = call[p].claim
  <2>1. CASE pc[p] = "unlockSwapped"
    BY <2>1 DEF CasUnlock, Goto
  <2>2. CASE pc[p] = "unlockChanged"
    <3>1. Retry(p)
      BY <2>2 DEF CasUnlock
    <3>2. QED
      BY <2>2, <3>1, RetryEffect
  <2>3. QED
    BY <2>1, <2>2 DEF CasUnlock
<1>3. CasMutex' /\ SwapIsCurrent'
  BY <1>1, <1>2 DEF CasMutex, InCas, SwapIsCurrent
<1>4. PlanIsSound'
  BY <1>1, <1>2 DEF PlanIsSound
<1>5. DrawnIsFresh'
  BY <1>1, <1>2 DEF DrawnIsFresh, Acquiring
<1>6. ReleaseKnowsClaim'
  BY <1>1, <1>2 DEF ReleaseKnowsClaim, SameButStatus
<1>7. QED
  BY <1>1, <1>3, <1>4, <1>5, <1>6, RecordsFrame

\* The claim file of a granted claim.
LEMMA WriteClaimFileInv ==
  ASSUME IInv, TypeOK', NEW p \in Proc, WriteClaimFile(p)
  PROVE  IInv'
<1> USE DEF IInv, TypeOK
<1>1. /\ pc[p] = "file" /\ call[p] \in Call
      /\ claimFile' = [claimFile EXCEPT ![call[p].claim.id] = call[p].claim]
      /\ pc' = [pc EXCEPT ![p] = "idle"]
      /\ \A q \in Proc : q # p => call'[q] = call[q]
      /\ UNCHANGED <<index, casLock, drawn, granted>>
  BY DEF WriteClaimFile, Return, Goto
<1>2. CasMutex' /\ SwapIsCurrent'
  BY <1>1 DEF CasMutex, InCas, SwapIsCurrent
<1>3. PlanIsSound'
  BY <1>1 DEF PlanIsSound
<1>4. DrawnIsFresh'
  BY <1>1 DEF DrawnIsFresh, Acquiring
<1>5. ReleaseKnowsClaim'
  BY <1>1 DEF ReleaseKnowsClaim, SameButStatus
<1>6. Records' /\ LiveClaimIsIndexed' /\ FencesAreUnique'
  BY <1>1 DEF Records, LiveClaimIsIndexed, FencesAreUnique
<1>7. FileFollowsIndex'
  <2>1. DEFINE c == call[p].claim
  <2>2. /\ c \in Claim
        /\ granted[c.id] \in Claim
        /\ SameButStatus(granted[c.id], c)
        /\ c = granted[c.id] \/ c.status = "ACTIVE"
    BY <1>1 DEF ReleaseKnowsClaim, Call, Claim, ClaimOrNone
  <2>3. c = granted[c.id] \/ c = [granted[c.id] EXCEPT !.status = "ACTIVE"]
    BY <2>2 DEF SameButStatus, Claim
  <2>4. QED
    BY <1>1, <2>2, <2>3, ClaimAssumption DEF FileFollowsIndex, Claim
<1>8. QED
  BY <1>2, <1>3, <1>4, <1>5, <1>6, <1>7

\* A process dies wherever it is; if it was inside, the lock stays behind.
LEMMA CrashInv ==
  ASSUME IInv, TypeOK', NEW p \in Proc, Crash(p)
  PROVE  IInv'
  BY OutsideStep DEF Crash, Return, Goto, IInv, TypeOK, Label

\* What CasSwap writes: the index its snapshot describes, with the entry of
\* one task replaced by the claim the call holds.
LEMMA SwapEffect ==
  ASSUME IInv, NEW p \in Proc, CasSwap(p)
  PROVE  LET c == call[p].claim IN
         /\ c \in Claim
         /\ index'.claim = [index.claim EXCEPT ![c.task] = c]
         /\ \/ /\ call[p].op = "acquire"
               /\ c.status = "ACTIVE"
               /\ granted[c.id] = None
               /\ c.fence = index.next
               /\ index'.next = index.next + 1
               /\ index.claim[c.task] # None =>
                     index.claim[c.task].status # "ACTIVE"
            \/ /\ call[p].op = "release"
               /\ c.status \in Terminal
               /\ index'.next = index.next
               /\ index.claim[c.task] \in Claim
               /\ index.claim[c.task].status = "ACTIVE"
               /\ SameButStatus(index.claim[c.task], c)
               /\ granted[c.id] = index.claim[c.task]
<1> DEFINE c == call[p].claim
<1> USE DEF IInv, TypeOK
<1>1. /\ pc[p] = "swap" /\ call[p] \in Call /\ c \in Claim
      /\ call[p].snap = index
      /\ SoundPlan(call[p])
      /\ index' = NextIndex(p)
  BY DEF CasSwap, SwapIsCurrent, PlanIsSound, Call
<1>2. CASE call[p].op = "acquire"
  <2>1. granted[c.id] = None /\ c.status = "ACTIVE"
    BY <1>1, <1>2 DEF DrawnIsFresh, Acquiring
  <2>2. QED
    BY <1>1, <1>2, <2>1 DEF NextIndex, SoundPlan
<1>3. CASE call[p].op = "release"
  <2>1. c.status \in Terminal
    BY <1>1, <1>3 DEF ReleaseKnowsClaim
  <2>2. /\ index.claim[c.task] # None
        /\ index.claim[c.task].status = "ACTIVE"
        /\ SameButStatus(index.claim[c.task], c)
    BY <1>1, <1>3 DEF SoundPlan
  <2>3. index.claim[c.task] \in Claim
    BY <1>1, <2>2 DEF Index, ClaimOrNone, Claim
  <2>4. granted[c.id] = index.claim[c.task]
    BY <1>1, <2>2 DEF Records, SameButStatus, Claim
  <2>5. QED
    BY <1>1, <1>3, <2>1, <2>2, <2>3, <2>4 DEF NextIndex
<1>4. QED
  BY <1>1, <1>2, <1>3 DEF Call

LEMMA CasSwapInv ==
  ASSUME IInv, TypeOK', NEW p \in Proc, CasSwap(p)
  PROVE  IInv'
<1> DEFINE c == call[p].claim
           old == index.claim[c.task]
<1> USE DEF IInv, TypeOK
<1>1. /\ pc[p] = "swap" /\ call[p] \in Call /\ c \in Claim
      /\ pc' = [pc EXCEPT ![p] = "unlockSwapped"]
      /\ granted' = [granted EXCEPT ![c.id] = c]
      /\ UNCHANGED <<casLock, claimFile, drawn, call>>
  BY SwapEffect DEF CasSwap, Goto
<1>2. /\ index'.claim = [index.claim EXCEPT ![c.task] = c]
      /\ index.next \in Nat
      /\ index'.next = IF call[p].op = "acquire" THEN index.next + 1
                                                 ELSE index.next
  BY SwapEffect DEF Index
<1>3. CASE call[p].op = "acquire"
  <2>1. /\ c.status = "ACTIVE" /\ c.fence = index.next /\ granted[c.id] = None
        /\ index'.next = index.next + 1
        /\ old # None => old.status # "ACTIVE"
    BY <1>3, SwapEffect
  <2>2. CasMutex' /\ SwapIsCurrent'
    BY <1>1 DEF CasMutex, InCas, SwapIsCurrent
  <2>3. PlanIsSound'
    BY <1>1 DEF PlanIsSound
  <2>4. DrawnIsFresh'
    BY <1>1, <1>3, ClaimAssumption DEF DrawnIsFresh, Acquiring
  <2>5. ReleaseKnowsClaim'
    BY <1>1, <1>3, <2>1, ClaimAssumption DEF ReleaseKnowsClaim, SameButStatus
  <2>6. Records'
    BY <1>1, <1>2, <2>1 DEF Records, Index, Claim, ClaimOrNone
  <2>7. LiveClaimIsIndexed'
    BY <1>1, <1>2, <2>1 DEF LiveClaimIsIndexed, Records, Index, Claim, ClaimOrNone
  <2>8. FencesAreUnique'
    BY <1>1, <1>2, <2>1 DEF FencesAreUnique, Records, Claim, ClaimOrNone
  <2>9. FileFollowsIndex'
    BY <1>1, <2>1 DEF FileFollowsIndex
  <2>10. QED
    BY <2>2, <2>3, <2>4, <2>5, <2>6, <2>7, <2>8, <2>9
<1>4. CASE call[p].op = "release"
  <2>1. /\ c.status \in Terminal /\ index'.next = index.next
        /\ old \in Claim /\ old.status = "ACTIVE"
        /\ SameButStatus(old, c) /\ granted[c.id] = old
    BY <1>4, SwapEffect DEF Terminal
  <2>2. CasMutex' /\ SwapIsCurrent'
    BY <1>1 DEF CasMutex, InCas, SwapIsCurrent
  <2>3. PlanIsSound'
    BY <1>1 DEF PlanIsSound
  <2>4. DrawnIsFresh'
    BY <1>1, <1>4, <2>1, ClaimAssumption DEF DrawnIsFresh, Acquiring
  <2>5. ReleaseKnowsClaim'
    BY <1>1, <1>4, <2>1, ClaimAssumption
    DEF ReleaseKnowsClaim, SameButStatus, Terminal
  <2>6. Records'
    BY <1>1, <1>2, <2>1, ClaimAssumption
    DEF Records, SameButStatus, Index, Claim, ClaimOrNone
  <2>7. LiveClaimIsIndexed'
    BY <1>1, <1>2, <2>1
    DEF LiveClaimIsIndexed, Records, SameButStatus, Index, Claim, ClaimOrNone,
        Terminal
  <2>8. FencesAreUnique'
    BY <1>1, <2>1, ClaimAssumption
    DEF FencesAreUnique, SameButStatus, Claim, ClaimOrNone
  <2>9. FileFollowsIndex'
    <3>1. claimFile[c.id] # None =>
             claimFile[c.id] = [c EXCEPT !.status = "ACTIVE"]
      BY <1>1, <2>1 DEF FileFollowsIndex, SameButStatus, Claim
    <3>2. QED
      BY <1>1, <3>1, ClaimAssumption DEF FileFollowsIndex
  <2>10. QED
    BY <2>2, <2>3, <2>4, <2>5, <2>6, <2>7, <2>8, <2>9
<1>5. QED
  BY <1>1, <1>3, <1>4 DEF Call

\* IInv is inductive.
LEMMA InvStep == IInv /\ [Next]_vars => IInv'
<1> SUFFICES ASSUME IInv, [Next]_vars PROVE IInv'
  OBVIOUS
<1>1. TypeOK'
  BY TypeStep DEF IInv
<1>2. ASSUME NEW p \in Proc, NEW t \in Task, BeginAcquire(p, t)
      PROVE  IInv'
  BY <1>1, <1>2, BeginAcquireInv
<1>3. ASSUME NEW p \in Proc, NEW c \in ClaimId, NEW s \in Terminal,
             BeginRelease(p, c, s)
      PROVE  IInv'
  BY <1>1, <1>3, BeginReleaseInv
<1>4. ASSUME NEW p \in Proc, Step(p)
      PROVE  IInv'
  <2>1. CASE RefuseRelease(p)
    BY <1>1, <2>1, OutsideStep DEF RefuseRelease, Return, Goto, IInv, TypeOK, Label
  <2>2. QED
    BY <1>1, <1>4, <2>1, SnapshotForAcquireInv, SnapshotForReleaseInv,
       CasLockInv, CasCompareInv, CasSwapInv, CasUnlockInv, WriteClaimFileInv
    DEF Step
<1>5. ASSUME NEW p \in Proc, Crash(p)
      PROVE  IInv'
  BY <1>1, <1>5, CrashInv
<1>6. CASE UNCHANGED vars
  BY <1>1, <1>6
  DEF vars, IInv, CasMutex, InCas, SwapIsCurrent, DrawnIsFresh, Acquiring,
      PlanIsSound, ReleaseKnowsClaim, SameButStatus, Records,
      LiveClaimIsIndexed, FencesAreUnique, FileFollowsIndex
<1>7. QED
  BY <1>2, <1>3, <1>4, <1>5, <1>6 DEF Next

-------------------------------------------------------------------------------
(***************************************************************************)
(* The theorems.                                                           *)
(***************************************************************************)

\* IInv holds in every reachable state: acquireClaim, releaseClaim and crashes
\* between any two of their file operations preserve it.
THEOREM Invariance == Spec => []IInv
  BY InitInv, InvStep, PTL DEF Spec

\* Every file and every local variable keeps its type.
THEOREM TypeCorrect == Spec => []TypeOK
<1>1. IInv => TypeOK
  BY DEF IInv
<1>2. QED
  BY <1>1, Invariance, PTL

\* The directory lock and the content comparison of atomicCompareAndSwapJson
\* lose no update of claims/index.json.
THEOREM LiveClaimsIndexed == Spec => []LiveClaimIsIndexed
<1>1. IInv => LiveClaimIsIndexed
  BY DEF IInv
<1>2. QED
  BY <1>1, Invariance, PTL

\* acquireClaim never grants the same fence generation twice.
THEOREM FencesUnique == Spec => []FencesAreUnique
<1>1. IInv => FencesAreUnique
  BY DEF IInv
<1>2. QED
  BY <1>1, Invariance, PTL

\* A claim file says nothing the index has not recorded before.
THEOREM FilesFollow == Spec => []FileFollowsIndex
<1>1. IInv => FileFollowsIndex
  BY DEF IInv
<1>2. QED
  BY <1>1, Invariance, PTL

\* Only CasSwap changes what the index has recorded of a claim.
LEMMA GrantedFrame ==
  ASSUME IInv, [Next]_vars
  PROVE  granted' = granted \/ \E p \in Proc : CasSwap(p)
  BY DEF Next, Step, BeginAcquire, BeginRelease, SnapshotForAcquire,
         SnapshotForRelease, RefuseRelease, CasLock, CasCompare, CasUnlock,
         WriteClaimFile, Crash, vars

\* No step changes the identity or the fence of a claim, ends it twice or
\* revives it: acquireClaim writes only fresh identities, releaseClaim only
\* over an ACTIVE entry that is its own.
THEOREM ClaimsEndOnce == Spec => ClaimEndsOnce
<1> DEFINE Kept == \A c \in ClaimId :
          granted[c] # None =>
              /\ granted'[c] # None
              /\ \/ granted'[c] = granted[c]
                 \/ /\ granted[c].status = "ACTIVE"
                    /\ granted'[c] = [granted[c] EXCEPT
                                         !.status = granted'[c].status]
<1>1. ASSUME IInv, [Next]_vars PROVE Kept
  <2>1. CASE granted' = granted
    BY <2>1
  <2>2. ASSUME NEW p \in Proc, CasSwap(p) PROVE Kept
    <3> DEFINE d == call[p].claim
    <3>1. granted' = [granted EXCEPT ![d.id] = d] /\ d \in Claim
      BY <1>1, <2>2, SwapEffect DEF CasSwap
    <3>2. \/ granted[d.id] = None
          \/ /\ granted[d.id] \in Claim
             /\ granted[d.id].status = "ACTIVE"
             /\ SameButStatus(granted[d.id], d)
      BY <1>1, <2>2, SwapEffect
    <3>3. granted[d.id] # None =>
             /\ granted[d.id].status = "ACTIVE"
             /\ d = [granted[d.id] EXCEPT !.status = d.status]
      BY <3>1, <3>2 DEF SameButStatus, Claim
    <3>4. QED
      BY <1>1, <3>1, <3>3, ClaimAssumption DEF IInv, TypeOK
  <2>3. QED
    BY <1>1, <2>1, <2>2, GrantedFrame
<1>2. IInv /\ [Next]_vars => [Kept]_vars
  BY <1>1
<1> HIDE DEF Kept
<1>3. Spec => [][Kept]_vars
  BY <1>2, Invariance, PTL DEF Spec
<1>4. QED
  BY <1>3 DEF Kept, ClaimEndsOnce

\* Only CasSwap writes claims/index.json.
LEMMA IndexFrame ==
  ASSUME [Next]_vars
  PROVE  index' = index \/ \E p \in Proc : CasSwap(p)
  BY DEF Next, Step, BeginAcquire, BeginRelease, SnapshotForAcquire,
         SnapshotForRelease, RefuseRelease, CasLock, CasCompare, CasUnlock,
         WriteClaimFile, Crash, vars

\* The compare-and-swap protocol implements the one-step register: each CasSwap
\* is one Acquire or one Release and every other step is a stutter.
THEOREM Refinement == Spec => ImplementsRegister
<1>1. Init => Register!Init
  BY DEF Init, EmptyIndex, Register!Init
<1>2. ASSUME IInv, [Next]_vars PROVE [Register!Next]_(Register!regVars)
  <2>1. CASE index' = index
    BY <2>1 DEF Register!regVars
  <2>2. ASSUME NEW p \in Proc, CasSwap(p) PROVE Register!Next
    <3> DEFINE d == call[p].claim
    <3>1. /\ d \in Claim /\ d.task \in Task /\ d.id \in ClaimId
          /\ index'.claim = [index.claim EXCEPT ![d.task] = d]
      BY <1>2, <2>2, SwapEffect DEF Claim
    <3>2. CASE call[p].op = "acquire"
      <4>1. /\ d.status = "ACTIVE" /\ d.fence = index.next
            /\ index'.next = index.next + 1
            /\ ~Register!Live(d.task)
        BY <1>2, <2>2, <3>2, SwapEffect DEF Register!Live
      <4>2. d = [id |-> d.id, task |-> d.task, fence |-> index.next,
                 status |-> "ACTIVE"]
        BY <3>1, <4>1 DEF Claim
      <4>3. Register!Acquire(d.task, d.id)
        BY <3>1, <4>1, <4>2 DEF Register!Acquire
      <4>4. QED
        BY <3>1, <4>3 DEF Register!Next
    <3>3. CASE call[p].op = "release"
      <4>1. /\ d.status \in Terminal /\ index'.next = index.next
            /\ index.claim[d.task] \in Claim
            /\ index.claim[d.task].status = "ACTIVE"
            /\ SameButStatus(index.claim[d.task], d)
        BY <1>2, <2>2, <3>3, SwapEffect
      <4>2. d = [index.claim[d.task] EXCEPT !.status = d.status]
        BY <3>1, <4>1 DEF SameButStatus, Claim
      <4>3. Register!Release(d.task, d.status)
        BY <3>1, <4>1, <4>2, ClaimAssumption DEF Register!Release, Register!Live
      <4>4. QED
        BY <3>1, <4>1, <4>3 DEF Register!Next, Terminal
    <3>4. QED
      BY <1>2, <2>2, <3>2, <3>3, SwapEffect
  <2>3. QED
    BY <1>2, <2>1, <2>2, IndexFrame
<1>3. QED
  BY <1>1, <1>2, Invariance, PTL DEF Spec, ImplementsRegister, Register!Spec
===============================================================================
