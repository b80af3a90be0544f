---------------------------- MODULE HostLockProofs ----------------------------
(***************************************************************************)
(* Proofs about HostLock for every number of processes and attempts.       *)
(*                                                                         *)
(* A lost lock is reported: a contender pursues only owners that have      *)
(* died, so what it renames away from a process in its critical section is *)
(* not what it observed.  A stale lock goes: whoever withdraws from a      *)
(* takeover leaves behind one that is ahead of it and goes on.             *)
(*                                                                         *)
(* As long as no process dies while it uses the lock (and none had), a     *)
(* dead owner that a slow contender once observed is never again the       *)
(* owner: CheckOwner turns the contender back before it can rename the     *)
(* lock away.  So the lock excludes, however processes exit, stall and     *)
(* retry.  The runs show that the premise cannot be dropped.               *)
(***************************************************************************)
EXTENDS HostLock, WellFoundedInduction, TLAPS

-------------------------------------------------------------------------------
(***************************************************************************)
(* Attempts and directories                                                *)
(***************************************************************************)
\* A failed attempt starts the next one or ends the call.
LEMMA NextAttemptEffect ==
  ASSUME pc \in [Proc -> Label], tries \in [Proc -> 0..Attempts - 1],
         NEW p \in Proc, NextAttempt(p)
  PROVE  /\ pc' \in [Proc -> Label] /\ tries' \in [Proc -> 0..Attempts - 1]
         /\ pc'[p] = "busy" \/ (pc'[p] = "install" /\ tries'[p] > 0)
         /\ \A q \in Proc : q # p => pc'[q] = pc[q] /\ tries'[q] = tries[q]
<1>1. tries[p] \in Nat /\ tries[p] + 1 > 0 /\ Attempts \in Nat
  BY HostLockAssumption
<1>2. CASE tries[p] + 1 < Attempts
  <2>1. tries[p] + 1 \in 0..Attempts - 1
    BY <1>1, <1>2
  <2>2. pc' = [pc EXCEPT ![p] = "install"] /\ tries' = [tries EXCEPT ![p] = tries[p] + 1]
    BY <1>2 DEF NextAttempt, Goto
  <2>3. QED
    BY <1>1, <2>1, <2>2 DEF Label
<1>3. CASE ~(tries[p] + 1 < Attempts)
  <2>1. pc' = [pc EXCEPT ![p] = "busy"] /\ tries' = tries
    BY <1>3 DEF NextAttempt, Goto
  <2>2. QED
    BY <2>1 DEF Label, Over
<1>4. QED
  BY <1>2, <1>3

\* A prepared directory is one, and names its owner.
LEMMA LockOfIsDir ==
  ASSUME NEW o \in Owner
  PROVE  LockOf(o) \in LockDir /\ LockOf(o) # None /\ LockOf(o).owner = o
<1>1. LockOf(o) \in LockDir /\ LockOf(o).owner = o
  BY DEF LockOf, LockDir, Entry
<1>2. QED
  BY <1>1, HostLockAssumption

\* Registering and withdrawing leave the owner record alone.
LEMMA DirEdits ==
  ASSUME lock \in LockDir, NEW f \in [Proc -> Entry], NEW t \in BOOLEAN,
         NEW d, d = [owner |-> lock.owner, takeovers |-> t, entry |-> f]
  PROVE  d \in LockDir /\ d # None /\ d.owner = lock.owner
<1>1. d \in LockDir /\ d.owner = lock.owner
  BY DEF LockDir
<1>2. QED
  BY <1>1, HostLockAssumption

\* The fields of a directory after its .takeovers has been set.
LEMMA DirShape ==
  ASSUME NEW l \in LockDir, NEW t \in BOOLEAN
  PROVE  [l EXCEPT !.takeovers = t]
            = [owner |-> l.owner, takeovers |-> t, entry |-> l.entry]
  BY DEF LockDir

\* The steps of a takeover before checkOwner, and its withdrawal, leave the owner
\* record alone; MkParents may make a directory without one.
LEMMA RegisterEffect ==
  ASSUME lock \in LockDir \cup {None}, NEW p \in Proc,
         MkTakeovers(p) \/ MkEntry(p) \/ MkParents(p) \/ WriteEntry(p) \/ Withdraw(p)
  PROVE  LockOwner' = LockOwner /\ lock' \in LockDir \cup {None}
<1> DEFINE edit(f, t) == [owner |-> lock.owner, takeovers |-> t, entry |-> f]
           bare == [owner |-> None, takeovers |-> TRUE,
                    entry |-> [LockOf(p).entry EXCEPT ![p] = "made"]]
<1>1. CASE lock' = lock
  BY <1>1 DEF LockOwner
<1>2. CASE lock = None /\ lock' = bare
  <2>1. bare \in LockDir /\ bare.owner = None
    BY DEF LockOf, LockDir, Entry
  <2>2. QED
    BY <1>2, <2>1 DEF LockOwner
<1>3. ASSUME lock # None, NEW f \in [Proc -> Entry], NEW t \in BOOLEAN,
             lock' = edit(f, t)
      PROVE  LockOwner' = LockOwner /\ lock' \in LockDir \cup {None}
  BY <1>3, DirEdits DEF LockOwner
<1>4. lock # None => /\ lock \in LockDir /\ lock.entry \in [Proc -> Entry]
                     /\ lock.takeovers \in BOOLEAN
  BY DEF LockDir
<1>5. ASSUME lock # None, NEW e \in Entry
      PROVE  /\ [lock EXCEPT !.entry[p] = e]
                  = edit([lock.entry EXCEPT ![p] = e], lock.takeovers)
             /\ [lock.entry EXCEPT ![p] = e] \in [Proc -> Entry]
  BY <1>4, <1>5 DEF LockDir
<1>6. ASSUME lock # None
      PROVE  [lock EXCEPT !.takeovers = TRUE] = edit(lock.entry, TRUE)
  BY <1>4, <1>6, DirShape
<1>7. ASSUME lock # None
      PROVE  \E f \in [Proc -> Entry] : WithEntry(p) = edit(f, TRUE)
  <2> DEFINE e == IF lock.entry[p] = "none" THEN "made" ELSE lock.entry[p]
             f == [lock.entry EXCEPT ![p] = e]
  <2>2. e \in Entry /\ f \in [Proc -> Entry]
    BY <1>4, <1>7 DEF Entry
  <2>1. WithEntry(p) = edit(f, TRUE)
    BY DEF WithEntry
  <2>3. QED
    BY <2>1, <2>2
<1> HIDE DEF edit, bare
<1>8. CASE MkTakeovers(p)
  BY <1>1, <1>3, <1>4, <1>6, <1>8 DEF MkTakeovers
<1>9. CASE MkEntry(p)
  BY <1>1, <1>3, <1>7, <1>9 DEF MkEntry, HasTakeovers
<1>10. CASE MkParents(p)
  BY <1>2, <1>3, <1>7, <1>10 DEF MkParents, bare
<1>11. CASE WriteEntry(p)
  <2>1. "recorded" \in Entry
    BY DEF Entry
  <2>2. QED
    BY <1>1, <1>3, <1>4, <1>5, <1>11, <2>1 DEF WriteEntry, HasEntry
<1>12. CASE Withdraw(p)
  <2>1. "none" \in Entry
    BY DEF Entry
  <2>2. QED
    BY <1>1, <1>3, <1>4, <1>5, <1>12, <2>1 DEF Withdraw, HasEntry
<1>13. QED
  BY <1>8, <1>9, <1>10, <1>11, <1>12

\* The labels, tries and observations of the other processes are theirs, and a
\* process goes only where its step says.
LEMMA Labels ==
  ASSUME TypeOK, NEW p \in Proc, Step(p) \/ Exit(p) \/ Crash(p)
  PROVE  /\ pc' \in [Proc -> Label] /\ tries' \in [Proc -> 0..Attempts - 1]
         /\ \A q \in Proc : q # p => pc'[q] = pc[q] /\ tries'[q] = tries[q]
<1>1. CASE NextAttempt(p)
  BY <1>1, NextAttemptEffect DEF TypeOK
<1>2. ASSUME NEW l \in Label, Goto(p, l), UNCHANGED tries
      PROVE  /\ pc' \in [Proc -> Label] /\ tries' \in [Proc -> 0..Attempts - 1]
             /\ \A q \in Proc : q # p => pc'[q] = pc[q] /\ tries'[q] = tries[q]
  BY <1>2 DEF TypeOK, Goto
<1>3. CASE UNCHANGED <<pc, tries>>
  BY <1>3 DEF TypeOK
<1>4. NextAttempt(p) \/ UNCHANGED <<pc, tries>> \/
      (UNCHANGED tries /\ \E l \in Label : Goto(p, l))
  <2> USE DEF Label, Over
  <2>1. CASE Install(p) \/ Observe(p) \/ Judge(p)
    BY <2>1 DEF Install, Observe, Judge
  <2>2. CASE MkTakeovers(p) \/ MkEntry(p)
    BY <2>2 DEF MkTakeovers, MkEntry
  <2>3. CASE MkParents(p) \/ WriteEntry(p) \/ Withdraw(p)
    BY <2>3 DEF MkParents, WriteEntry, Withdraw
  <2>4. CASE CheckOwner(p) \/ List(p) \/ ScanName(p) \/ RemoveName(p)
    BY <2>4 DEF CheckOwner, List, ScanName, RemoveName
  <2>5. CASE ScanEnd(p) \/ Confirm(p)
    BY <2>5 DEF ScanEnd, Confirm
  <2>6. CASE Take(p) \/ Inspect(p)
    BY <2>6 DEF Take, Inspect
  <2>7. CASE ReleaseRead(p) \/ GiveUp(p) \/ ReleaseInspect(p)
    BY <2>7 DEF ReleaseRead, GiveUp, ReleaseInspect
  <2>8. CASE Exit(p) \/ Crash(p)
    BY <2>8 DEF Exit, Crash
  <2>9. QED
    BY <2>1, <2>2, <2>3, <2>4, <2>5, <2>6, <2>7, <2>8 DEF Step
<1>5. QED
  BY <1>1, <1>2, <1>3, <1>4

\* Removing or recording the entry of a contender.
LEMMA EntrySet ==
  ASSUME lock \in LockDir, NEW q, NEW e \in Entry
  PROVE  LET d == [lock EXCEPT !.entry[q] = e]
         IN  /\ d \in LockDir /\ d # None
             /\ d.owner = lock.owner /\ d.takeovers = lock.takeovers
             /\ d.entry = [lock.entry EXCEPT ![q] = e]
<1>1. lock.entry \in [Proc -> Entry] /\ lock.takeovers \in BOOLEAN
      /\ lock.owner \in Owner \cup {None}
  BY DEF LockDir
<1>2. [lock.entry EXCEPT ![q] = e] \in [Proc -> Entry]
  BY <1>1
<1>3. [lock EXCEPT !.entry[q] = e]
        = [owner |-> lock.owner, takeovers |-> lock.takeovers,
           entry |-> [lock.entry EXCEPT ![q] = e]]
  BY DEF LockDir
<1>4. QED
  BY <1>1, <1>2, <1>3, DirEdits

\* RemoveName at most removes an entry.
LEMMA RemoveLock ==
  ASSUME lock \in LockDir \cup {None}, NEW p \in Proc, RemoveName(p)
  PROVE  LockOwner' = LockOwner /\ lock' \in LockDir \cup {None}
<1> DEFINE q == Min(scan[p].todo)
<1>1. CASE lock' = lock
  BY <1>1 DEF LockOwner
<1>2. CASE HasEntry(q) /\ lock' = [lock EXCEPT !.entry[q] = "none"]
  <2>1. lock # None /\ lock \in LockDir /\ "none" \in Entry
    BY <1>2 DEF HasEntry, Entry
  <2>2. QED
    BY <1>2, <2>1, EntrySet DEF LockOwner
<1>3. QED
  BY <1>1, <1>2 DEF RemoveName

\* Only Install, Take and GiveUp change the owner of what is at lockPath.
LEMMA Owners ==
  ASSUME TypeOK, NEW p \in Proc, Step(p) \/ Exit(p) \/ Crash(p)
  PROVE  /\ lock' \in LockDir \cup {None}
         /\ \/ LockOwner' = LockOwner
            \/ Install(p) /\ lock = None /\ lock' = LockOf(p)
            \/ (Take(p) \/ GiveUp(p)) /\ lock' = None
<1>1. CASE Install(p)
  BY <1>1, LockOfIsDir DEF Install, LockOwner, Owner, TypeOK
<1>2. CASE MkTakeovers(p) \/ MkEntry(p) \/ MkParents(p) \/ WriteEntry(p) \/ Withdraw(p)
  BY <1>2, RegisterEffect DEF TypeOK
<1>3. CASE RemoveName(p)
  BY <1>3, RemoveLock DEF TypeOK
<1>4. CASE Take(p) \/ GiveUp(p)
  BY <1>4 DEF Take, GiveUp
<1>5. CASE Observe(p) \/ Judge(p) \/ CheckOwner(p) \/ List(p)
  BY <1>5 DEF Observe, Judge, CheckOwner, List, LockOwner, TypeOK
<1>6. CASE Inspect(p) \/ ReleaseRead(p) \/ ReleaseInspect(p) \/ Exit(p) \/ Crash(p)
  BY <1>6 DEF Inspect, ReleaseRead, ReleaseInspect, Exit, Crash, LockOwner, TypeOK
<1>7. CASE ScanName(p) \/ ScanEnd(p) \/ Confirm(p)
  BY <1>7 DEF ScanName, ScanEnd, Confirm, LockOwner, TypeOK
<1>8. QED
  BY <1>1, <1>2, <1>3, <1>4, <1>5, <1>6, <1>7 DEF Step

\* A process observes, scans, renames away and ends only in these steps.
LEMMA Own ==
  ASSUME NEW p \in Proc, Step(p) \/ Exit(p) \/ Crash(p)
  PROVE  /\ obs' = obs \/ Observe(p)
         /\ scan' = scan \/ List(p) \/ ScanName(p) \/ RemoveName(p)
         /\ moved' = moved \/ Take(p) \/ GiveUp(p) \/ Inspect(p)
         /\ alive' = alive \/ Exit(p) \/ Crash(p)
         /\ crashes' = crashes \/ Crash(p)
         /\ robbed' = robbed \/ RemoveName(p)
<1>1. CASE Install(p) \/ Judge(p) \/ MkTakeovers(p) \/ MkEntry(p) \/ MkParents(p)
  BY <1>1 DEF Install, Judge, MkTakeovers, MkEntry, MkParents
<1>2. CASE WriteEntry(p) \/ CheckOwner(p) \/ Withdraw(p) \/ ScanEnd(p) \/ Confirm(p)
  BY <1>2 DEF WriteEntry, CheckOwner, Withdraw, ScanEnd, Confirm
<1>3. CASE Observe(p) \/ List(p) \/ ScanName(p) \/ RemoveName(p)
  BY <1>3 DEF Observe, List, ScanName, RemoveName
<1>4. CASE Take(p) \/ Inspect(p) \/ GiveUp(p)
  BY <1>4 DEF Take, Inspect, GiveUp
<1>5. CASE ReleaseRead(p) \/ ReleaseInspect(p) \/ Exit(p) \/ Crash(p)
  BY <1>5 DEF ReleaseRead, ReleaseInspect, Exit, Crash
<1>6. QED
  BY <1>1, <1>2, <1>3, <1>4, <1>5 DEF Step

\* What a process observed, scanned and renamed away.
LEMMA Notes ==
  ASSUME TypeOK, NEW p \in Proc, Step(p) \/ Exit(p) \/ Crash(p)
  PROVE  /\ obs' \in [Proc -> Owner \cup {None}]
         /\ scan' \in [Proc -> [todo : SUBSET Proc, first : Proc \cup {None}]]
         /\ moved' \in [Proc -> LockDir \cup {None}]
         /\ \A q \in Proc : q # p => /\ obs'[q] = obs[q] /\ scan'[q] = scan[q]
                                     /\ moved'[q] = moved[q]
<1>1. obs' \in [Proc -> Owner \cup {None}] /\ \A q \in Proc : q # p => obs'[q] = obs[q]
  <2>1. LockOwner \in Owner \cup {None}
    BY DEF LockOwner, TypeOK, LockDir
  <2>2. obs \in [Proc -> Owner \cup {None}]
    BY DEF TypeOK
  <2>3. obs' = obs \/ obs' = [obs EXCEPT ![p] = LockOwner]
    BY Own DEF Observe
  <2>4. QED
    BY <2>1, <2>2, <2>3
<1>2. ASSUME NEW c \in [todo : SUBSET Proc, first : Proc \cup {None}],
             scan' = [scan EXCEPT ![p] = c]
      PROVE  /\ scan' \in [Proc -> [todo : SUBSET Proc, first : Proc \cup {None}]]
             /\ \A q \in Proc : q # p => scan'[q] = scan[q]
  BY <1>2 DEF TypeOK
<1>3. /\ scan' \in [Proc -> [todo : SUBSET Proc, first : Proc \cup {None}]]
      /\ \A q \in Proc : q # p => scan'[q] = scan[q]
  <2>1. CASE scan' = scan
    BY <2>1 DEF TypeOK
  <2>2. CASE List(p)
    <3>1. PICK c : c = [todo |-> {q \in Proc : lock.entry[q] # "none"}, first |-> None]
      OBVIOUS
    <3>2. c \in [todo : SUBSET Proc, first : Proc \cup {None}]
      BY <3>1
    <3>3. scan' = [scan EXCEPT ![p] = c] \/ scan' = scan
      BY <2>2, <3>1 DEF List
    <3>4. QED
      BY <1>2, <2>1, <3>2, <3>3
  <2>3. CASE ScanName(p) \/ RemoveName(p)
    <3>1. PICK q : q = Min(scan[p].todo)
      OBVIOUS
    <3>2. PICK f : f = IF scan[p].first = None /\ ContenderIsLive(q) THEN q
                       ELSE scan[p].first
      OBVIOUS
    <3>3. scan[p] \in [todo : SUBSET Proc, first : Proc \cup {None}]
      BY DEF TypeOK
    <3>4. f \in Proc \cup {None}
      BY <3>2, <3>3 DEF ContenderIsLive, TypeOK
    <3>5. ASSUME NEW g \in Proc \cup {None}
          PROVE  [[scan[p] EXCEPT !.todo = scan[p].todo \ {q}] EXCEPT !.first = g]
                   \in [todo : SUBSET Proc, first : Proc \cup {None}]
      BY <3>3, <3>5
    <3>6. CASE ScanName(p) /\ ContenderIsLive(q)
      <4>1. scan' = [scan EXCEPT ![p] = [[scan[p] EXCEPT !.todo = scan[p].todo \ {q}]
                                            EXCEPT !.first = f]]
        BY <3>1, <3>2, <3>3, <3>6 DEF ScanName, TypeOK
      <4>2. QED
        BY <1>2, <3>4, <3>5, <4>1
    <3>7. CASE RemoveName(p)
      <4>1. scan' = [scan EXCEPT ![p] = [scan[p] EXCEPT !.todo = scan[p].todo \ {q}]]
        BY <3>1, <3>7 DEF RemoveName, TypeOK
      <4>2. [scan[p] EXCEPT !.todo = scan[p].todo \ {q}]
              \in [todo : SUBSET Proc, first : Proc \cup {None}]
        BY <3>3
      <4>3. QED
        BY <1>2, <4>1, <4>2
    <3>8. CASE scan' = scan
      BY <2>1, <3>8
    <3>9. QED
      BY <2>3, <3>1, <3>6, <3>7, <3>8 DEF ScanName
  <2>4. QED
    BY <2>1, <2>2, <2>3, Own
<1>4. /\ moved' \in [Proc -> LockDir \cup {None}]
      /\ \A q \in Proc : q # p => moved'[q] = moved[q]
  <2>1. moved' = moved \/ \E m \in LockDir \cup {None} : moved' = [moved EXCEPT ![p] = m]
    BY Own DEF TypeOK, Take, GiveUp, Inspect
  <2>2. moved \in [Proc -> LockDir \cup {None}]
    BY DEF TypeOK
  <2>3. QED
    BY <2>1, <2>2
<1>5. QED
  BY <1>1, <1>3, <1>4

\* Processes only ever stop running.
LEMMA Ends ==
  ASSUME TypeOK, NEW p \in Proc, Step(p) \/ Exit(p) \/ Crash(p)
  PROVE  /\ alive' = alive \/ (alive' = alive \ {p} /\ (Exit(p) \/ Crash(p)))
         /\ crashes' \in Nat
<1>1. CASE Exit(p) \/ Crash(p)
  BY <1>1 DEF Exit, Crash, TypeOK
<1>2. CASE ~(Exit(p) \/ Crash(p))
  <2>1. alive' = alive /\ crashes' = crashes
    BY <1>2, Own
  <2>2. crashes \in Nat
    BY DEF TypeOK
  <2>3. QED
    BY <2>1, <2>2
<1>3. QED
  BY <1>1, <1>2

\* What has been removed too early is not forgotten.
LEMMA Robs ==
  ASSUME TypeOK, NEW p \in Proc, Step(p) \/ Exit(p) \/ Crash(p)
  PROVE  robbed' \in BOOLEAN /\ (robbed => robbed')
<1>1. CASE RemoveName(p)
  BY <1>1 DEF RemoveName, TypeOK
<1>2. CASE robbed' = robbed
  BY <1>2 DEF TypeOK
<1>3. QED
  BY <1>1, <1>2, Own

LEMMA TypeStep ==
  ASSUME TypeOK, NEW p \in Proc, Step(p) \/ Exit(p) \/ Crash(p)
  PROVE  TypeOK'
<1>1. alive' \subseteq Proc
  BY Ends DEF TypeOK
<1>2. QED
  BY <1>1, Ends, Labels, Owners, Notes, Robs DEF TypeOK

LEMMA TypeInit == Init => TypeOK
<1> SUFFICES ASSUME Init
             PROVE  TypeOK
  OBVIOUS
<1>1. lock \in LockDir \cup {None}
  BY LockOfIsDir DEF Init, Owner
<1>2. 0 \in 0..Attempts - 1 /\ crashes \in Nat
  BY HostLockAssumption DEF Init
<1>3. "install" \in Label
  BY DEF Label
<1>4. QED
  BY <1>1, <1>2, <1>3 DEF Init, TypeOK

\* Every variable has its type, whoever dies and whatever is renamed away.
THEOREM TypeCorrect == Spec => []TypeOK
<1>1. TypeOK /\ [Next]_vars => TypeOK'
  <2>1. TypeOK /\ UNCHANGED vars => TypeOK'
    BY DEF TypeOK, vars
  <2>2. QED
    BY <2>1, TypeStep DEF Next
<1>2. QED
  BY <1>1, TypeInit, PTL DEF Spec

-------------------------------------------------------------------------------
(***************************************************************************)
(* A lost lock is reported                                                 *)
(***************************************************************************)
\* Between its acquisition and its release of the lock.
Holding == {"held", "giveUp"}
\* Between the judgement that an owner is dead and the renaming of its lock.
Pursuing == {"mkTakeovers", "mkEntry", "mkParents", "writeEntry", "checkOwner",
             "list", "scan", "remove", "confirm", "take"}
Lost == \E r \in Proc : TookAnother(r)

\* A contender pursues only the dead, so that what it takes from a process in
\* its critical section is not what it observed.
LInv ==
    /\ TypeOK
    /\ \A p \in Proc : pc[p] \notin Over \cup {"crashed"} => p \in alive
    /\ \A p \in Proc : pc[p] \in Holding => LockOwner = p \/ Lost
    /\ \A p \in Proc : pc[p] \in Pursuing => obs[p] \notin alive

\* Who has taken another's lock does not forget it.
LEMMA TakenStays ==
  ASSUME TypeOK, NEW p \in Proc, Step(p) \/ Exit(p) \/ Crash(p),
         NEW r \in Proc, TookAnother(r)
  PROVE  TookAnother(r)'
<1>1. CASE r # p
  BY <1>1, Labels, Notes DEF TookAnother
<1>2. CASE r = p
  <2>1. CASE Inspect(p)
    <3>1. moved[p].owner # obs[p]
      BY <1>2 DEF TookAnother
    <3>2. Goto(p, "corrupt") /\ UNCHANGED <<obs, moved>>
      BY <2>1, <3>1 DEF Inspect
    <3>3. pc'[p] = "corrupt"
      BY <3>2 DEF Goto, TypeOK
    <3>4. QED
      BY <1>2, <3>2, <3>3 DEF TookAnother
  <2>2. CASE Exit(p)
    BY <1>2, <2>2 DEF Exit, TookAnother
  <2>3. CASE Crash(p)
    <3>1. pc'[p] = "crashed" /\ UNCHANGED <<obs, moved>>
      BY <2>3 DEF Crash, Goto, TypeOK
    <3>2. QED
      BY <1>2, <3>1 DEF TookAnother
  <2>4. ~(Step(p) /\ ~Inspect(p))
    <3>1. pc[p] \in {"inspect", "corrupt", "crashed"}
      BY <1>2 DEF TookAnother
    <3>2. QED
      BY <3>1 DEF Step, Install, Observe, Judge, MkTakeovers, MkEntry, MkParents,
         WriteEntry, CheckOwner, Withdraw, List, ScanName, RemoveName, ScanEnd,
         Confirm, Take,
         ReleaseRead, GiveUp, ReleaseInspect
  <2>5. QED
    BY <2>1, <2>2, <2>3, <2>4
<1>3. QED
  BY <1>1, <1>2

\* A process is in its critical section by Install alone, and pursues an owner
\* that it has judged dead.
LEMMA Enters ==
  ASSUME TypeOK, NEW p \in Proc, Step(p) \/ Exit(p) \/ Crash(p)
  PROVE  /\ pc'[p] \in Holding =>
               \/ Install(p) /\ lock = None
               \/ pc[p] \in Holding /\ LockOwner' = LockOwner
         /\ pc'[p] \in Pursuing =>
               \/ obs[p] \notin alive /\ obs' = obs
               \/ pc[p] \in Pursuing /\ obs' = obs
<1>1. ASSUME NextAttempt(p)
      PROVE  pc'[p] \notin Holding \cup Pursuing
  BY <1>1, NextAttemptEffect DEF TypeOK, Holding, Pursuing
<1>2. ASSUME NEW l, Goto(p, l)
      PROVE  pc'[p] = l
  BY <1>2 DEF TypeOK, Goto
<1>3. CASE Install(p) \/ Observe(p)
  BY <1>1, <1>2, <1>3 DEF Install, Observe, Holding, Pursuing
<1>4. CASE Judge(p)
  BY <1>1, <1>2, <1>4 DEF Judge, Holding, Pursuing
<1>5. CASE MkTakeovers(p) \/ MkEntry(p) \/ MkParents(p)
  BY <1>1, <1>2, <1>5 DEF MkTakeovers, MkEntry, MkParents, Holding, Pursuing
<1>6. CASE WriteEntry(p) \/ CheckOwner(p) \/ Withdraw(p)
  BY <1>1, <1>2, <1>6 DEF WriteEntry, CheckOwner, Withdraw, Holding, Pursuing
<1>7. CASE List(p) \/ ScanName(p) \/ RemoveName(p)
  BY <1>1, <1>2, <1>7 DEF List, ScanName, RemoveName, Holding, Pursuing
<1>8. CASE Take(p) \/ Inspect(p)
  BY <1>1, <1>2, <1>8 DEF Take, Inspect, Holding, Pursuing
<1>9. CASE ReleaseRead(p) \/ GiveUp(p) \/ ReleaseInspect(p)
  BY <1>2, <1>9 DEF ReleaseRead, GiveUp, ReleaseInspect, Holding, Pursuing, LockOwner
<1>10. CASE Exit(p) \/ Crash(p)
  BY <1>2, <1>10 DEF Exit, Crash, Over, Holding, Pursuing
<1>11. CASE ScanEnd(p) \/ Confirm(p)
  BY <1>1, <1>2, <1>11 DEF ScanEnd, Confirm, Holding, Pursuing
<1>12. QED
  BY <1>3, <1>4, <1>5, <1>6, <1>7, <1>8, <1>9, <1>10, <1>11 DEF Step

\* Only a call that has not ended goes on.
LEMMA StepLabel ==
  ASSUME NEW p \in Proc, Step(p)
  PROVE  pc[p] \notin Over \cup {"crashed"}
<1>1. CASE Install(p) \/ Observe(p) \/ Judge(p) \/ MkTakeovers(p) \/ MkEntry(p)
  BY <1>1 DEF Install, Observe, Judge, MkTakeovers, MkEntry, Over
<1>2. CASE MkParents(p) \/ WriteEntry(p) \/ CheckOwner(p) \/ Withdraw(p) \/ List(p)
  BY <1>2 DEF MkParents, WriteEntry, CheckOwner, Withdraw, List, Over
<1>3. CASE ScanName(p) \/ RemoveName(p) \/ ScanEnd(p) \/ Confirm(p) \/ Take(p) \/ Inspect(p)
  BY <1>3 DEF ScanName, RemoveName, ScanEnd, Confirm, Take, Inspect, Over
<1>4. CASE ReleaseRead(p) \/ GiveUp(p) \/ ReleaseInspect(p)
  BY <1>4 DEF ReleaseRead, GiveUp, ReleaseInspect, Over
<1>5. QED
  BY <1>1, <1>2, <1>3, <1>4 DEF Step

\* A call goes on only in a process that runs.
LEMMA Running ==
  ASSUME TypeOK, NEW p \in Proc, Step(p) \/ Exit(p) \/ Crash(p),
         pc[p] \notin Over \cup {"crashed"} => p \in alive,
         pc'[p] \notin Over \cup {"crashed"}
  PROVE  p \in alive'
<1>1. CASE Exit(p)
  BY <1>1 DEF Exit
<1>2. CASE Crash(p)
  BY <1>2 DEF Crash, Goto, TypeOK
<1>3. CASE Step(p) /\ alive' = alive
  <2>1. pc[p] \notin Over \cup {"crashed"}
    BY <1>3, StepLabel
  <2>2. QED
    BY <1>3, <2>1
<1>4. QED
  BY <1>1, <1>2, <1>3, Own

LEMMA LossStep ==
  ASSUME LInv, NEW p \in Proc, Step(p) \/ Exit(p) \/ Crash(p)
  PROVE  LInv'
<1> USE DEF LInv
<1>1. TypeOK' /\ (Lost => Lost')
  BY TypeStep, TakenStays DEF Lost
<1>2. p \in Owner /\ None \notin Proc /\ alive' \subseteq alive
  BY Ends, HostLockAssumption DEF Owner
<1>3. ASSUME NEW q \in Proc, pc'[q] \in Pursuing
      PROVE  obs'[q] \notin alive'
  <2>1. CASE q # p
    <3>1. pc'[q] = pc[q] /\ obs'[q] = obs[q]
      BY <2>1, Labels, Notes
    <3>2. obs[q] \notin alive
      BY <1>3, <3>1
    <3>3. QED
      BY <1>2, <3>1, <3>2
  <2>2. CASE q = p
    <3>1. obs[p] \notin alive /\ obs' = obs
      BY <1>3, <2>2, Enters
    <3>2. QED
      BY <1>2, <2>2, <3>1
  <2>3. QED
    BY <2>1, <2>2
<1>4. ASSUME NEW q \in Proc, pc'[q] \in Holding
      PROVE  LockOwner' = q \/ Lost'
  <2>1. CASE q = p
    <3>1. CASE Install(p) /\ lock = None
      <4>1. lock' = LockOf(p)
        BY <3>1 DEF Install
      <4>2. QED
        BY <1>2, <2>1, <4>1, LockOfIsDir DEF LockOwner
    <3>2. CASE pc[p] \in Holding /\ LockOwner' = LockOwner
      BY <1>1, <2>1, <3>2
    <3>3. QED
      BY <1>4, <2>1, <3>1, <3>2, Enters
  <2>2. CASE q # p
    <3>1. pc[q] \in Holding
      BY <1>4, <2>2, Labels
    <3>2. q \in alive
      BY <3>1 DEF Holding, Over
    <3>3. CASE LockOwner' = LockOwner
      BY <1>1, <3>1, <3>3
    <3>4. CASE Lost
      BY <1>1, <3>4
    <3>5. CASE LockOwner = q /\ LockOwner' # LockOwner
      <4>1. lock # None /\ lock.owner = q
        BY <1>2, <3>5 DEF LockOwner
      <4>2. CASE Take(p)
        <5>1. pc[p] = "take" /\ obs[p] \notin alive
          BY <4>2 DEF Take, Pursuing
        <5>2. pc'[p] = "inspect" /\ moved'[p] = lock /\ obs' = obs
          BY <4>1, <4>2 DEF Take, Goto, TypeOK
        <5>3. TookAnother(p)'
          BY <2>2, <3>2, <4>1, <5>1, <5>2 DEF TookAnother
        <5>4. QED
          BY <5>3 DEF Lost
      <4>3. CASE GiveUp(p)
        <5>1. pc[p] \in Holding
          BY <4>3 DEF GiveUp, Holding
        <5>2. LockOwner # p
          BY <2>2, <3>5
        <5>3. Lost
          BY <5>1, <5>2
        <5>4. QED
          BY <1>1, <5>3
      <4>4. QED
        BY <3>5, <4>1, <4>2, <4>3, Owners
    <3>6. QED
      BY <3>1, <3>3, <3>4, <3>5
  <2>3. QED
    BY <2>1, <2>2
<1>5. ASSUME NEW q \in Proc, pc'[q] \notin Over \cup {"crashed"}
      PROVE  q \in alive'
  <2>1. CASE q # p
    BY <1>5, <2>1, Labels, Ends
  <2>2. CASE q = p
    BY <1>5, <2>2, Running
  <2>3. QED
    BY <2>1, <2>2
<1>6. QED
  BY <1>1, <1>3, <1>4, <1>5

\* Whoever exits, dies or stalls: a process in the critical section that has lost
\* its lock has lost it to a contender that renamed away a lock which it had not
\* observed (retireStaleLock), and that throws CORRUPT unless it dies before.
THEOREM LossReported == Spec => []LossIsReported
<1>1. Init => LInv
  <2> SUFFICES ASSUME Init
               PROVE  LInv
    OBVIOUS
  <2>1. \A p \in Proc : pc[p] = "install"
    BY DEF Init
  <2>2. QED
    BY <2>1, TypeInit DEF LInv, Holding, Pursuing, Init
<1>2. LInv /\ [Next]_vars => LInv'
  <2>1. LInv /\ UNCHANGED vars => LInv'
    BY DEF LInv, TypeOK, Lost, TookAnother, LockOwner, vars
  <2>2. QED
    BY <2>1, LossStep DEF Next
<1>3. LInv => LossIsReported
  BY DEF LInv, LossIsReported, Lost, Held, Holding
<1>4. QED
  BY <1>1, <1>2, <1>3, PTL DEF Spec

-------------------------------------------------------------------------------
(***************************************************************************)
(* A stale lock goes                                                       *)
(***************************************************************************)
Early == {"install", "observe", "judge", "mkTakeovers", "mkEntry", "mkParents",
          "writeEntry"}
\* Its entry is recorded, and it may yet take the lock.
Contending == {"checkOwner", "list", "scan", "remove", "confirm", "take"}
Contended == \E q \in Proc : pc[q] \in Contending
\* A contender whose name sorts before p may yet take the lock.
Ahead(p) == \E q \in Proc : q < p /\ pc[q] \in Contending

\* The owner is dead, nobody has died in this, and nobody's record was removed.
Stale == LockOwner \in Dead /\ ~robbed /\ \A p \in Proc : pc[p] # "crashed"

\* What p knows of the lock, and the lock of p.
Registered(p) ==
    /\ pc[p] \in Early \cup Contending \cup {"withdraw", "busy"}
    /\ pc[p] # "busy" => p \in alive
    /\ pc[p] \in (Early \ {"install", "observe"}) \cup Contending => obs[p] = LockOwner
    /\ pc[p] \in {"mkEntry", "mkParents", "writeEntry"} \cup Contending =>
          lock.takeovers
    /\ lock.entry[p] = "recorded" <=> pc[p] \in Contending \cup {"withdraw"}

\* Nobody gives up but for a contender that goes on, which is ahead of it if it
\* withdrew for it.
Yielding(p) ==
    /\ \/ pc[p] = "busy"
       \/ tries[p] > 0
       \/ pc[p] = "writeEntry" /\ lock.entry[p] = "none"
       => Contended
    /\ pc[p] = "withdraw" => Ahead(p)
    /\ pc[p] \in {"scan", "remove"} =>
          /\ scan[p].first = None => p \in scan[p].todo
          /\ scan[p].first \notin {None, p} => Ahead(p)
    /\ pc[p] = "remove" => scan[p].todo # {} /\ Min(scan[p].todo) # p

SInv == TypeOK /\ (Stale => \A p \in Proc : Registered(p) /\ Yielding(p))

\* A dead owner's lock is not installed again: the steps before one that leaves
\* it there left it there too.
LEMMA StaleBack ==
  ASSUME SInv, NEW p \in Proc, Step(p) \/ Exit(p) \/ Crash(p), Stale'
  PROVE  /\ Stale /\ LockOwner' = LockOwner /\ ~Crash(p) /\ ~Take(p) /\ ~GiveUp(p)
         /\ lock \in LockDir /\ lock # None /\ lock.owner = LockOwner
         /\ lock' \in LockDir /\ lock' # None
<1> USE DEF SInv
<1>1. None \notin Dead /\ Dead \cap Proc = {} /\ p \in Owner
  BY HostLockAssumption DEF Owner
<1>2. ~(Install(p) /\ lock = None /\ lock' = LockOf(p))
  BY <1>1, LockOfIsDir DEF Stale, LockOwner
<1>3. lock' # None
  BY <1>1 DEF Stale, LockOwner
<1>4. LockOwner' = LockOwner /\ lock' \in LockDir \cup {None} /\ ~Take(p) /\ ~GiveUp(p)
  BY <1>2, <1>3, Owners DEF Take, GiveUp
<1>5. ~Crash(p)
  BY DEF Crash, Goto, TypeOK, Stale
<1>6. pc[p] # "crashed"
  BY <1>5, StepLabel DEF Exit, Over
<1>7. Stale
  BY <1>4, <1>6, Labels, Robs DEF Stale
<1>8. lock # None /\ lock \in LockDir /\ lock.owner = LockOwner
  BY <1>1, <1>7 DEF Stale, LockOwner, TypeOK
<1>9. QED
  BY <1>3, <1>4, <1>5, <1>7, <1>8

\* A contender goes on, or gives way to one ahead of it.
LEMMA ContentionKept ==
  ASSUME TypeOK, NEW p \in Proc, \A q \in Proc : q # p => pc'[q] = pc[q],
         pc[p] \in Contending => pc'[p] \in Contending \/ Ahead(p)
  PROVE  /\ Contended => Contended'
         /\ \A q \in Proc : Ahead(q) => Ahead(q)'
<1>1. \A q, r, t \in Proc : q < r /\ r < t => q < t
  BY HostLockAssumption
<1>2. \A q \in Proc : ~(q < q)
  BY HostLockAssumption
<1>3. ASSUME NEW r \in Proc, pc[r] \in Contending
      PROVE  pc'[r] \in Contending \/ \E q \in Proc : q < r /\ pc'[q] \in Contending
  <2>1. CASE r # p
    BY <1>3, <2>1
  <2>2. CASE r = p
    BY <1>2, <1>3, <2>2 DEF Ahead
  <2>3. QED
    BY <2>1, <2>2
<1>4. Contended => Contended'
  BY <1>3 DEF Contended
<1>5. ASSUME NEW q \in Proc, Ahead(q)
      PROVE  Ahead(q)'
  <2>1. PICK r \in Proc : r < q /\ pc[r] \in Contending
    BY <1>5 DEF Ahead
  <2>2. QED
    BY <1>1, <1>3, <2>1 DEF Ahead
<1>6. QED
  BY <1>4, <1>5

\* It is enough to look at the process that takes the step, as long as nobody
\* loses a recorded entry.
LEMMA StaleKeeps ==
  ASSUME SInv, NEW p \in Proc, Step(p) \/ Exit(p) \/ Crash(p), Stale',
         lock.takeovers => lock'.takeovers,
         \A q \in Proc \ {p} :
            \/ lock'.entry[q] = lock.entry[q]
            \/ lock.entry[q] # "recorded" /\ lock'.entry[q] = "none" /\ Contended',
         pc[p] \in Contending => pc'[p] \in Contending \/ Ahead(p),
         Registered(p)', Yielding(p)'
  PROVE  SInv'
<1> USE DEF SInv
<1>1. /\ Stale /\ LockOwner' = LockOwner
      /\ TypeOK'
  BY StaleBack, TypeStep
<1>2. /\ Contended => Contended'
      /\ \A q \in Proc : Ahead(q) => Ahead(q)'
  BY ContentionKept, Labels
<1>3. ASSUME NEW q \in Proc, q # p
      PROVE  Registered(q)' /\ Yielding(q)'
  <2>1. /\ pc'[q] = pc[q] /\ tries'[q] = tries[q] /\ obs'[q] = obs[q]
        /\ scan'[q] = scan[q]
    BY <1>3, Labels, Notes
  <2>2. q \in alive => q \in alive'
    BY <1>3, Ends
  <2>3. Registered(q) /\ Yielding(q)
    BY <1>1
  <2>4. (lock'.entry[q] = "recorded" <=> lock.entry[q] = "recorded")
        /\ (lock'.entry[q] = "none" => lock.entry[q] = "none" \/ Contended')
    BY <1>3
  <2>5. Registered(q)'
    BY <1>1, <2>1, <2>2, <2>3, <2>4 DEF Registered
  <2>6. Yielding(q)'
    BY <1>2, <2>1, <2>3, <2>4 DEF Yielding
  <2>7. QED
    BY <2>5, <2>6
<1>4. QED
  BY <1>1, <1>3

\* lock with the entry of p.
LEMMA WithEntryShape ==
  ASSUME lock \in LockDir, NEW p \in Proc
  PROVE  /\ WithEntry(p).takeovers = TRUE
         /\ WithEntry(p).entry[p] = IF lock.entry[p] = "none" THEN "made"
                                    ELSE lock.entry[p]
         /\ \A q \in Proc \ {p} : WithEntry(p).entry[q] = lock.entry[q]
  BY DEF WithEntry, LockDir

\* The least of the names that are left.
LEMMA LeastName ==
  ASSUME NEW S \in SUBSET Proc, S # {}
  PROVE  Min(S) \in S /\ \A x \in S : Min(S) <= x
<1>1. S \subseteq Nat
  BY HostLockAssumption
<1>2. PICK R : R = OpToRel(<, Nat)
  OBVIOUS
<1>3. \A x, y \in Nat : x < y => <<x, y>> \in R
  BY <1>2 DEF OpToRel
<1>4. PICK m \in S : \A y \in S : <<y, m>> \notin R
  BY <1>1, <1>2, NatLessThanWellFounded, WFMin
<1>5. ASSUME NEW y \in S
      PROVE  m <= y
  <2>1. <<y, m>> \notin R
    BY <1>4
  <2>2. m \in Nat /\ y \in Nat
    BY <1>1
  <2>3. ~(y < m)
    BY <1>3, <2>1, <2>2
  <2>4. QED
    BY <2>2, <2>3
<1>6. QED
  BY <1>5 DEF Min

\* A step that goes on in the same attempt.
LEMMA OnwardStale ==
  ASSUME SInv, NEW p \in Proc, Step(p), Stale',
         NEW l \in (Early \ {"install"}) \cup Contending \cup {"withdraw"},
         Goto(p, l), UNCHANGED tries,
         lock.takeovers => lock'.takeovers,
         \A q \in Proc \ {p} :
            \/ lock'.entry[q] = lock.entry[q]
            \/ lock.entry[q] # "recorded" /\ lock'.entry[q] = "none" /\ Contended',
         pc[p] \in Contending => l \in Contending \/ Ahead(p),
         l \notin {"observe", "withdraw"} => obs'[p] = LockOwner,
         l \in {"mkEntry", "mkParents", "writeEntry"} \cup Contending => lock'.takeovers,
         lock'.entry[p] = "recorded" <=> l \in Contending \cup {"withdraw"},
         l = "writeEntry" => lock'.entry[p] # "none",
         l = "withdraw" => Ahead(p),
         l \in {"scan", "remove"} =>
            /\ scan'[p].first = None => p \in scan'[p].todo
            /\ scan'[p].first \notin {None, p} => Ahead(p),
         l = "remove" => scan'[p].todo # {} /\ Min(scan'[p].todo) # p
  PROVE  SInv'
<1>1. Stale /\ LockOwner' = LockOwner
  BY StaleBack
<1>2. pc'[p] = l
  BY DEF SInv, TypeOK, Goto
<1>3. /\ Contended => Contended'
      /\ Ahead(p) => Ahead(p)'
  BY <1>2, ContentionKept, Labels DEF SInv
<1>4. Registered(p) /\ Yielding(p)
  BY <1>1 DEF SInv
<1>5. p \in alive /\ alive' = alive
  <2>1. pc[p] # "busy" /\ ~Exit(p) /\ ~Crash(p)
    BY StepLabel, StaleBack DEF Exit, Over
  <2>2. QED
    BY <1>4, <2>1, Own DEF Registered
<1>6. /\ l # "busy"
      /\ l \in (Early \ {"install", "observe"}) \cup Contending =>
            l \notin {"observe", "withdraw"}
  BY DEF Early, Contending
<1>7. Registered(p)'
  BY <1>1, <1>2, <1>5, <1>6 DEF Registered
<1>8. Yielding(p)'
  BY <1>2, <1>3, <1>4, <1>6 DEF Yielding
<1>9. QED
  BY <1>2, <1>7, <1>8, StaleKeeps

\* A step that ends an attempt while another contender goes on.
LEMMA RetryStale ==
  ASSUME SInv, NEW p \in Proc, Step(p), Stale', NextAttempt(p),
         lock.takeovers => lock'.takeovers,
         \A q \in Proc \ {p} : lock'.entry[q] = lock.entry[q],
         pc[p] \notin Contending, lock'.entry[p] # "recorded", Contended
  PROVE  SInv'
<1>1. Stale
  BY StaleBack
<1>2. pc'[p] \in {"install", "busy"}
  BY NextAttemptEffect DEF SInv, TypeOK
<1>3. Contended'
  BY ContentionKept, Labels DEF SInv
<1>4. p \in alive /\ alive' = alive
  <2>1. pc[p] # "busy" /\ ~Exit(p) /\ ~Crash(p)
    BY StepLabel, StaleBack DEF Exit, Over
  <2>2. QED
    BY <1>1, <2>1, Own DEF SInv, Registered
<1>5. Registered(p)'
  BY <1>2, <1>4 DEF Registered, Early, Contending
<1>6. Yielding(p)'
  BY <1>2, <1>3 DEF Yielding
<1>7. QED
  BY <1>5, <1>6, StaleKeeps

LEMMA LooksStale ==
  ASSUME SInv, NEW p \in Proc, Stale', Install(p) \/ Observe(p) \/ Judge(p)
  PROVE  SInv'
<1>1. Step(p) /\ UNCHANGED <<tries, scan>>
      /\ \E l \in {"observe", "judge", "mkTakeovers"} :
            Goto(p, l) /\ (l # "observe" => obs'[p] = LockOwner) /\ UNCHANGED lock
  <2>1. lock # None /\ LockOwner \in Dead
    BY StaleBack DEF Step, Stale
  <2>2. CASE Install(p)
    BY <2>1, <2>2 DEF Step, Install
  <2>3. CASE Observe(p)
    <3>1. LockOwner # None
      BY <2>1, HostLockAssumption DEF Owner
    <3>2. obs'[p] = LockOwner
      BY <2>3 DEF Observe, SInv, TypeOK
    <3>3. QED
      BY <2>3, <3>1, <3>2 DEF Step, Observe
  <2>4. CASE Judge(p)
    <3>1. obs[p] = LockOwner
      BY <2>4, StaleBack DEF Step, SInv, Registered, Judge, Early
    <3>2. obs[p] \notin alive
      BY <2>1, <3>1, HostLockAssumption DEF SInv, TypeOK
    <3>3. QED
      BY <2>4, <3>1, <3>2 DEF Step, Judge
  <2>5. QED
    BY <2>2, <2>3, <2>4
<1>2. PICK l \in {"observe", "judge", "mkTakeovers"} :
         Goto(p, l) /\ (l # "observe" => obs'[p] = LockOwner) /\ UNCHANGED lock
  BY <1>1
<1>3. pc[p] \notin Contending \cup {"withdraw"}
  BY DEF Install, Observe, Judge, Contending
<1>4. lock.entry[p] # "recorded"
  BY <1>1, <1>3, StaleBack DEF SInv, Registered
<1>5. l \in Early \ {"install", "writeEntry", "mkEntry", "mkParents"}
      /\ l \notin Contending \cup {"withdraw"}
  BY DEF Early, Contending
<1>6. QED
  BY <1>1, <1>2, <1>3, <1>4, <1>5, OnwardStale DEF Contending

LEMMA RegistersStale ==
  ASSUME SInv, NEW p \in Proc, Stale', MkTakeovers(p) \/ MkEntry(p) \/ MkParents(p)
  PROVE  SInv'
<1>1. /\ Step(p) /\ lock \in LockDir /\ lock # None /\ Registered(p)
      /\ pc[p] \in {"mkTakeovers", "mkEntry", "mkParents"}
  BY StaleBack DEF Step, SInv, MkTakeovers, MkEntry, MkParents
<1>2. /\ obs[p] = LockOwner /\ lock.entry[p] # "recorded"
      /\ pc[p] \in {"mkEntry", "mkParents"} => lock.takeovers
  BY <1>1 DEF Registered, Early, Contending
<1>3. CASE MkTakeovers(p)
  <2>1. /\ Goto(p, "mkEntry") /\ UNCHANGED <<tries, obs>>
        /\ lock' = [lock EXCEPT !.takeovers = TRUE]
    BY <1>1, <1>3 DEF MkTakeovers
  <2>2. lock'.takeovers /\ lock'.entry = lock.entry
    BY <1>1, <2>1 DEF LockDir
  <2>3. QED
    BY <1>1, <1>2, <2>1, <2>2, OnwardStale DEF Early, Contending
<1>4. CASE MkEntry(p) \/ MkParents(p)
  <2>1. HasTakeovers
    BY <1>1, <1>2, <1>4 DEF HasTakeovers, MkEntry, MkParents
  <2>2. PICK l \in {"mkParents", "writeEntry"} :
           Goto(p, l) /\ UNCHANGED <<tries, obs>> /\ lock' = WithEntry(p)
    BY <1>1, <1>4, <2>1 DEF MkEntry, MkParents
  <2>3. /\ lock'.takeovers /\ lock'.entry[p] \notin {"none", "recorded"}
        /\ \A q \in Proc \ {p} : lock'.entry[q] = lock.entry[q]
    BY <1>1, <1>2, <2>2, WithEntryShape
  <2>4. QED
    BY <1>1, <1>2, <2>2, <2>3, OnwardStale DEF Early, Contending
<1>5. QED
  BY <1>3, <1>4

LEMMA WritesStale ==
  ASSUME SInv, NEW p \in Proc, Stale', WriteEntry(p)
  PROVE  SInv'
<1>1. /\ Step(p) /\ lock \in LockDir /\ lock # None /\ Registered(p) /\ Yielding(p)
      /\ pc[p] = "writeEntry"
  BY StaleBack DEF Step, SInv, WriteEntry
<1>2. obs[p] = LockOwner /\ lock.takeovers /\ lock.entry[p] # "recorded"
  BY <1>1 DEF Registered, Early, Contending
<1>3. CASE HasEntry(p)
  <2>1. /\ Goto(p, "checkOwner") /\ UNCHANGED <<tries, obs>>
        /\ lock' = [lock EXCEPT !.entry[p] = "recorded"]
    BY <1>3 DEF WriteEntry
  <2>2. lock.entry \in [Proc -> Entry] /\ "recorded" \in Entry
    BY <1>1 DEF LockDir, Entry
  <2>3. lock'.takeovers /\ lock'.entry = [lock.entry EXCEPT ![p] = "recorded"]
    BY <1>1, <1>2, <2>1, <2>2, EntrySet
  <2>4. lock'.entry[p] = "recorded" /\ \A q \in Proc \ {p} : lock'.entry[q] = lock.entry[q]
    BY <2>2, <2>3
  <2>5. QED
    BY <1>1, <1>2, <2>1, <2>3, <2>4, OnwardStale DEF Contending
<1>4. CASE ~HasEntry(p)
  <2>1. NextAttempt(p) /\ UNCHANGED lock /\ lock.entry[p] = "none"
    BY <1>1, <1>4 DEF WriteEntry, HasEntry
  <2>2. Contended
    BY <1>1, <2>1 DEF Yielding
  <2>3. QED
    BY <1>1, <1>2, <2>1, <2>2, RetryStale DEF Contending
<1>5. QED
  BY <1>3, <1>4

\* The owner is still the one it observed, and its entry is there.
LEMMA ChecksStale ==
  ASSUME SInv, NEW p \in Proc, Stale', CheckOwner(p) \/ List(p) \/ Confirm(p)
  PROVE  SInv'
<1>1. /\ Step(p) /\ lock \in LockDir /\ lock # None /\ Registered(p)
      /\ pc[p] \in {"checkOwner", "list", "confirm"}
  BY StaleBack DEF Step, SInv, CheckOwner, List, Confirm
<1>2. obs[p] = LockOwner /\ lock.takeovers /\ lock.entry[p] = "recorded"
  BY <1>1 DEF Registered, Contending
<1>3. CASE CheckOwner(p) \/ Confirm(p)
  <2>1. PICK l \in {"list", "take"} : Goto(p, l) /\ UNCHANGED <<lock, tries, obs>>
    BY <1>2, <1>3 DEF CheckOwner, Confirm
  <2>2. QED
    BY <1>1, <1>2, <2>1, OnwardStale DEF Contending
<1>4. CASE List(p)
  <2>1. /\ Goto(p, "scan") /\ UNCHANGED <<lock, tries, obs>>
        /\ scan' = [scan EXCEPT ![p] =
              [todo |-> {q \in Proc : lock.entry[q] # "none"}, first |-> None]]
    BY <1>1, <1>2, <1>4 DEF List, HasTakeovers
  <2>2. scan'[p].todo = {q \in Proc : lock.entry[q] # "none"} /\ scan'[p].first = None
    BY <2>1 DEF SInv, TypeOK
  <2>3. p \in scan'[p].todo
    BY <1>2, <2>2
  <2>4. QED
    BY <1>1, <1>2, <2>1, <2>2, <2>3, OnwardStale DEF Contending
<1>5. QED
  BY <1>3, <1>4

\* It withdraws for one that is ahead of it.
LEMMA WithdrawsStale ==
  ASSUME SInv, NEW p \in Proc, Stale', Withdraw(p)
  PROVE  SInv'
<1>1. /\ Step(p) /\ lock \in LockDir /\ lock # None /\ Registered(p) /\ Yielding(p)
      /\ pc[p] = "withdraw" /\ NextAttempt(p)
  BY StaleBack DEF Step, SInv, Withdraw
<1>2. HasEntry(p)
  BY <1>1 DEF Registered, HasEntry
<1>3. lock.entry \in [Proc -> Entry] /\ "none" \in Entry
  BY <1>1 DEF LockDir, Entry
<1>4. lock'.takeovers = lock.takeovers /\ lock'.entry = [lock.entry EXCEPT ![p] = "none"]
  BY <1>1, <1>2, <1>3, EntrySet DEF Withdraw
<1>5. Contended
  BY <1>1 DEF Yielding, Ahead, Contended
<1>6. QED
  BY <1>1, <1>3, <1>4, <1>5, RetryStale DEF Contending

\* The scan ends at p, or at one that is or was ahead of it.
LEMMA ScanEndsStale ==
  ASSUME SInv, NEW p \in Proc, Stale', ScanEnd(p)
  PROVE  SInv'
<1>1. /\ Step(p) /\ lock \in LockDir /\ lock # None /\ Registered(p) /\ Yielding(p)
      /\ pc[p] = "scan" /\ scan[p].todo = {} /\ UNCHANGED <<lock, tries, obs>>
  BY StaleBack DEF Step, SInv, ScanEnd
<1>2. obs[p] = LockOwner /\ lock.takeovers /\ lock.entry[p] = "recorded"
  BY <1>1 DEF Registered, Contending
<1>3. CASE scan[p].first = p
  <2>1. Goto(p, "confirm")
    BY <1>3 DEF ScanEnd
  <2>2. QED
    BY <1>1, <1>2, <2>1, OnwardStale DEF Contending
<1>4. CASE scan[p].first # p
  <2>1. Goto(p, "withdraw")
    BY <1>4 DEF ScanEnd
  <2>2. scan[p].first # None
    BY <1>1 DEF Yielding
  <2>3. Ahead(p)
    BY <1>1, <1>4, <2>2 DEF Yielding
  <2>4. QED
    BY <1>1, <1>2, <2>1, <2>3, OnwardStale DEF Contending
<1>5. QED
  BY <1>3, <1>4

\* A live contender with a record goes on, or has withdrawn for one ahead of it:
\* whoever is found is or was ahead, and whoever is not has no record.
LEMMA ScansStale ==
  ASSUME SInv, NEW p \in Proc, Stale', ScanName(p)
  PROVE  SInv'
<1> USE DEF SInv
<1>1. /\ Step(p) /\ lock \in LockDir /\ lock # None /\ Stale
      /\ pc[p] = "scan" /\ UNCHANGED <<lock, tries, obs>>
      /\ scan[p].todo # {} /\ scan[p].todo \in SUBSET Proc
      /\ Registered(p) /\ Yielding(p)
  BY StaleBack DEF Step, ScanName, TypeOK
<1>2. obs[p] = LockOwner /\ lock.takeovers /\ lock.entry[p] = "recorded" /\ p \in alive
  BY <1>1 DEF Registered, Contending
<1>3. PICK q \in Proc : /\ q = Min(scan[p].todo) /\ q \in scan[p].todo
                        /\ \A x \in scan[p].todo : q <= x
  BY <1>1, LeastName
<1>4. CASE ContenderIsLive(q)
  <2>1. q = p \/ ~(q <= p) \/ Ahead(p)
    <3>1. SUFFICES ASSUME q # p, q <= p
                   PROVE  Ahead(p)
      OBVIOUS
    <3>2. q < p /\ \A x \in Proc : x < q => x < p
      BY <3>1, HostLockAssumption
    <3>3. Registered(q) /\ Yielding(q) /\ lock.entry[q] = "recorded"
      BY <1>1, <1>4 DEF ContenderIsLive
    <3>4. pc[q] \in Contending \/ Ahead(q)
      BY <3>3 DEF Registered, Yielding
    <3>5. QED
      BY <3>2, <3>4 DEF Ahead
  <2>2. PICK f : f = IF scan[p].first = None THEN q ELSE scan[p].first
    OBVIOUS
  <2>3. /\ scan'[p].todo = scan[p].todo \ {q} /\ scan'[p].first = f
        /\ Goto(p, "scan")
    BY <1>1, <1>3, <1>4, <2>2 DEF ScanName, TypeOK, Goto
  <2>4. f # None
    BY <2>2, HostLockAssumption DEF Owner
  <2>5. f # p => Ahead(p)
    <3>1. CASE scan[p].first = None
      <4>1. p \in scan[p].todo
        BY <1>1, <3>1 DEF Yielding
      <4>2. QED
        BY <1>3, <2>1, <2>2, <3>1, <4>1
    <3>2. CASE scan[p].first # None
      BY <1>1, <2>2, <3>2 DEF Yielding
    <3>3. QED
      BY <3>1, <3>2
  <2>6. QED
    BY <1>1, <1>2, <2>3, <2>4, <2>5, OnwardStale DEF Contending
<1>5. CASE ~ContenderIsLive(q)
  <2>1. Goto(p, "remove") /\ scan' = scan
    BY <1>3, <1>5 DEF ScanName
  <2>2. q # p
    BY <1>1, <1>2, <1>5 DEF ContenderIsLive
  <2>3. /\ scan[p].first = None => p \in scan[p].todo
        /\ scan[p].first \notin {None, p} => Ahead(p)
    BY <1>1 DEF Yielding
  <2>4. QED
    BY <1>1, <1>2, <1>3, <2>1, <2>2, <2>3, OnwardStale DEF Contending
<1>6. QED
  BY <1>4, <1>5

\* Who has a record and is removed is robbed.
LEMMA RemovesStale ==
  ASSUME SInv, NEW p \in Proc, Stale', RemoveName(p)
  PROVE  SInv'
<1> USE DEF SInv
<1>1. /\ Step(p) /\ lock \in LockDir /\ lock # None /\ Stale
      /\ pc[p] = "remove" /\ Goto(p, "scan") /\ UNCHANGED <<tries, obs>>
      /\ scan[p].todo \in SUBSET Proc
      /\ Registered(p) /\ Yielding(p)
  BY StaleBack DEF Step, RemoveName, TypeOK
<1>2. obs[p] = LockOwner /\ lock.takeovers /\ lock.entry[p] = "recorded"
  BY <1>1 DEF Registered, Contending
<1>3. PICK q \in Proc : q = Min(scan[p].todo) /\ q # p
  BY <1>1, LeastName DEF Yielding
<1>4. lock.entry[q] # "recorded"
  <2>1. ~ContenderIsLive(q)
    BY <1>3 DEF RemoveName, Stale
  <2>2. Registered(q)
    BY <1>1
  <2>3. QED
    BY <1>1, <2>1, <2>2 DEF Registered, ContenderIsLive, Contending
<1>5. /\ lock'.takeovers = lock.takeovers
      /\ \A r \in Proc \ {q} : lock'.entry[r] = lock.entry[r]
      /\ lock'.entry[q] = lock.entry[q] \/ lock'.entry[q] = "none"
  <2>1. CASE lock' = lock
    BY <2>1
  <2>2. CASE lock' = [lock EXCEPT !.entry[q] = "none"]
    <3>1. lock.entry \in [Proc -> Entry] /\ "none" \in Entry
      BY <1>1 DEF LockDir, Entry
    <3>2. lock'.takeovers = lock.takeovers /\ lock'.entry = [lock.entry EXCEPT ![q] = "none"]
      BY <1>1, <2>2, <3>1, EntrySet
    <3>3. QED
      BY <3>1, <3>2
  <2>3. QED
    BY <1>3, <2>1, <2>2 DEF RemoveName
<1>6. scan'[p].todo = scan[p].todo \ {q} /\ scan'[p].first = scan[p].first
  BY <1>3 DEF RemoveName, TypeOK
<1>7. pc'[p] = "scan" /\ Contended'
  BY <1>1 DEF TypeOK, Goto, Contended, Contending
<1>8. /\ scan'[p].first = None => p \in scan'[p].todo
      /\ scan'[p].first \notin {None, p} => Ahead(p)
  BY <1>1, <1>3, <1>6 DEF Yielding
<1>9. QED
  BY <1>1, <1>2, <1>3, <1>4, <1>5, <1>7, <1>8, OnwardStale DEF Contending

LEMMA StaleStep ==
  ASSUME SInv, NEW p \in Proc, Step(p) \/ Exit(p) \/ Crash(p)
  PROVE  SInv'
<1>1. CASE ~Stale'
  BY <1>1, TypeStep DEF SInv
<1>2. CASE Stale' /\ Step(p)
  <2>1. ~Take(p) /\ ~GiveUp(p)
    BY <1>2, StaleBack
  <2>2. pc[p] \in Early \cup Contending \cup {"withdraw", "busy"}
    BY <1>2, StaleBack DEF SInv, Registered
  <2>3. ~Inspect(p) /\ ~ReleaseRead(p) /\ ~ReleaseInspect(p)
    BY <2>2 DEF Inspect, ReleaseRead, ReleaseInspect, Early, Contending
  <2>4. QED
    BY <1>2, <2>1, <2>3, LooksStale, RegistersStale, WritesStale, ChecksStale,
       WithdrawsStale, ScansStale, RemovesStale, ScanEndsStale DEF Step
<1>3. CASE Stale' /\ Exit(p)
  <2>1. /\ UNCHANGED <<lock, pc, tries, obs, scan>> /\ pc[p] \in Over
        /\ Stale /\ LockOwner' = LockOwner
    BY <1>3, StaleBack DEF Exit
  <2>2. Registered(p) /\ Yielding(p)
    BY <2>1 DEF SInv
  <2>3. pc[p] = "busy"
    BY <2>1, <2>2 DEF Registered, Over, Early, Contending
  <2>4. Registered(p)'
    BY <2>1, <2>2, <2>3 DEF Registered, Early, Contending
  <2>5. Yielding(p)'
    BY <2>1, <2>2, <2>3 DEF Yielding, Contended
  <2>6. QED
    BY <1>3, <2>1, <2>4, <2>5, StaleKeeps
<1>4. ~(Stale' /\ Crash(p))
  BY StaleBack
<1>5. QED
  BY <1>1, <1>2, <1>3, <1>4

\* However the registrations of contenders interleave under .takeovers, whoever
\* withdraws from retireStaleLock leaves one behind that does not; so when every
\* call has ended, and none by death, the lock of a dead owner is gone, unless
\* somebody's record was removed by one that had read its entry before it.
THEOREM StaleLockIsTaken == Spec => []StaleLockGoes
<1>1. Init => SInv
  <2> SUFFICES ASSUME Init
               PROVE  SInv
    OBVIOUS
  <2>1. TypeOK
    BY TypeInit
  <2>2. ASSUME Stale, NEW p \in Proc
        PROVE  Registered(p) /\ Yielding(p)
    <3>1. lock # None
      BY <2>2, HostLockAssumption DEF Stale, LockOwner, Owner
    <3>2. lock.entry[p] = "none"
      BY <3>1 DEF Init, LockOf
    <3>3. pc[p] = "install" /\ tries[p] = 0 /\ p \in alive
      BY DEF Init
    <3>4. Registered(p)
      BY <3>2, <3>3 DEF Registered, Early, Contending
    <3>5. Yielding(p)
      BY <3>3 DEF Yielding
    <3>6. QED
      BY <3>4, <3>5
  <2>3. QED
    BY <2>1, <2>2 DEF SInv
<1>2. SInv /\ [Next]_vars => SInv'
  <2>1. SInv /\ UNCHANGED vars => SInv'
    BY DEF SInv, TypeOK, Stale, Registered, Yielding, Contended, Ahead, LockOwner, vars
  <2>2. QED
    BY <2>1, StaleStep DEF Next
<1>3. SInv => StaleLockGoes
  <2> SUFFICES ASSUME SInv, \A p \in Proc : pc[p] \in Over, LockOwner \in Dead,
                      ~robbed
               PROVE  FALSE
    BY DEF StaleLockGoes
  <2>1. PICK p \in Proc : TRUE
    BY HostLockAssumption
  <2>2. \A q \in Proc : pc[q] \notin Contending \cup {"crashed", "withdraw"} \cup Early
    BY DEF Over, Contending, Early
  <2>3. Registered(p) /\ Yielding(p)
    BY <2>2 DEF SInv, Stale
  <2>4. pc[p] = "busy"
    BY <2>2, <2>3 DEF Registered
  <2>5. QED
    BY <2>2, <2>3, <2>4 DEF Yielding, Contended
<1>4. QED
  BY <1>1, <1>2, <1>3, PTL DEF Spec

-------------------------------------------------------------------------------
(***************************************************************************)
(* While nobody dies in the lock                                           *)
(***************************************************************************)
\* Between the judgement that an owner is dead and the check that it still owns
\* the lock.
Retiring == {"mkTakeovers", "mkEntry", "mkParents", "writeEntry",
             "checkOwner", "withdraw"}
Quiet == {"install", "observe", "judge", "held", "giveUp", "released"} \cup
         Retiring \cup Over

\* The owner record and the processes that use the lock agree.
OwnerUses ==
    /\ \A p \in Proc : pc[p] \in {"held", "giveUp"} => LockOwner = p
    /\ LockOwner # None => /\ LockOwner \in Proc
                           /\ pc[LockOwner] \in {"held", "giveUp"}

\* Everyone whose call is not over runs, and nobody gets past checkOwner.
NobodyTakes ==
    \A p \in Proc :
        /\ pc[p] \in Quiet
        /\ pc[p] \notin Over => p \in alive
        /\ pc[p] \in {"judge"} \cup Retiring => obs[p] \in Proc
        /\ pc[p] \in Retiring => obs[p] \notin alive

HInv ==
    /\ lock \in LockDir \cup {None}
    /\ crashes = 0
    /\ pc \in [Proc -> Label]
    /\ tries \in [Proc -> 0..Attempts - 1]
    /\ obs \in [Proc -> Owner \cup {None}]
    /\ OwnerUses
    /\ NobodyTakes

Peaceful == Dead = {} /\ MaxCrashes = 0

\* Without a leftover lock every process starts outside it.
LEMMA HostInit == ASSUME Peaceful, Init PROVE HInv
<1> USE HostLockAssumption DEF Init, Peaceful
<1>1. lock = None
  OBVIOUS
<1>2. OwnerUses /\ NobodyTakes
  BY <1>1 DEF OwnerUses, NobodyTakes, LockOwner, Quiet, Retiring, Over
<1>3. QED
  BY <1>1, <1>2 DEF HInv, Label

\* A step of p that touches neither the owner record nor the set of running
\* processes, and leaves p outside the lock as it was.
LEMMA QuietStep ==
  ASSUME HInv, NEW p \in Proc,
         lock' \in LockDir \cup {None}, LockOwner' = LockOwner,
         pc' \in [Proc -> Label], tries' \in [Proc -> 0..Attempts - 1],
         obs' \in [Proc -> Owner \cup {None}],
         UNCHANGED <<alive, crashes>>,
         \A q \in Proc : q # p => pc'[q] = pc[q] /\ obs'[q] = obs[q],
         pc[p] \notin {"held", "giveUp"} \cup Over,
         pc'[p] \in Quiet \ {"held", "giveUp"},
         pc'[p] \in {"judge"} \cup Retiring => obs'[p] \in Proc,
         pc'[p] \in Retiring => obs'[p] \notin alive
  PROVE  HInv'
<1> USE DEF HInv
<1>1. OwnerUses'
  BY DEF OwnerUses
<1>2. NobodyTakes'
  BY DEF NobodyTakes
<1>3. QED
  BY <1>1, <1>2

\* Every step keeps HInv; the cases are the steps of one process.
LEMMA HostStep == ASSUME Peaceful, HInv, [Next]_vars PROVE HInv'
<1> USE HostLockAssumption DEF Peaceful
<1> SUFFICES ASSUME NEW p \in Proc, Step(p) \/ Exit(p) \/ Crash(p)
             PROVE  HInv'
  <2>1. CASE UNCHANGED vars
    BY <2>1 DEF vars, HInv, OwnerUses, NobodyTakes, LockOwner
  <2>2. QED
    BY <2>1 DEF Next
<1>a. /\ pc[p] \in Quiet
      /\ pc[p] \notin Over => p \in alive
  BY DEF HInv, NobodyTakes
<1>b. None \notin Proc
  BY DEF Owner
<1>1. CASE Install(p)
  <2>1. CASE lock = None
    <3>0. lock' = LockOf(p) /\ p \in Owner
      BY <1>1, <2>1 DEF Install, Owner
    <3>1. /\ lock' \in LockDir
          /\ LockOwner' = p /\ LockOwner = None
          /\ pc[p] = "install" /\ pc' = [pc EXCEPT ![p] = "held"]
          /\ UNCHANGED <<alive, tries, obs, crashes>>
      BY <1>1, <2>1, <3>0, LockOfIsDir DEF Install, Goto, LockOwner
    <3>2. OwnerUses'
      BY <3>1, <1>b DEF OwnerUses, HInv
    <3>3. NobodyTakes'
      BY <3>1, <1>a DEF NobodyTakes, HInv, Quiet, Retiring, Over
    <3>4. QED
      BY <3>1, <3>2, <3>3 DEF HInv, Label
  <2>2. CASE lock # None
    <3>1. /\ pc[p] = "install" /\ pc' = [pc EXCEPT ![p] = "observe"]
          /\ UNCHANGED <<lock, alive, tries, obs, crashes>>
      BY <1>1, <2>2 DEF Install, Goto
    <3>2. pc' \in [Proc -> Label] /\ LockOwner' = LockOwner
      BY <3>1 DEF HInv, Label, LockOwner
    <3>3. QED
      BY <3>1, <3>2, QuietStep DEF HInv, Quiet, Retiring, Over
  <2>3. QED
    BY <2>1, <2>2
<1>2. CASE Observe(p)
  <2>1. /\ pc[p] = "observe"
        /\ UNCHANGED <<lock, alive, crashes>>
        /\ obs' = [obs EXCEPT ![p] = LockOwner]
        /\ LockOwner \in Proc \cup {None}
    BY <1>2 DEF Observe, HInv, OwnerUses
  <2>2. /\ obs' \in [Proc -> Owner \cup {None}]
        /\ \A q \in Proc : q # p => obs'[q] = obs[q]
        /\ obs'[p] = LockOwner /\ LockOwner' = LockOwner
        /\ lock' \in LockDir \cup {None}
    BY <2>1 DEF HInv, Owner, LockOwner
  <2>3. CASE LockOwner = None
    <3>1. NextAttempt(p)
      BY <1>2, <2>3 DEF Observe
    <3>2. /\ pc' \in [Proc -> Label] /\ tries' \in [Proc -> 0..Attempts - 1]
          /\ pc'[p] \in {"install", "busy"}
          /\ \A q \in Proc : q # p => pc'[q] = pc[q]
      BY <3>1, NextAttemptEffect DEF HInv
    <3>3. QED
      BY <2>1, <2>2, <3>2, QuietStep DEF Quiet, Retiring, Over
  <2>4. CASE LockOwner # None
    <3>1. pc' = [pc EXCEPT ![p] = "judge"] /\ tries' = tries
      BY <1>2, <2>4 DEF Observe, Goto
    <3>2. /\ pc' \in [Proc -> Label] /\ tries' \in [Proc -> 0..Attempts - 1]
          /\ \A q \in Proc : q # p => pc'[q] = pc[q]
          /\ pc'[p] = "judge"
      BY <3>1 DEF HInv, Label
    <3>3. QED
      BY <2>1, <2>2, <2>4, <3>2, QuietStep DEF Quiet, Retiring, Over
  <2>5. QED
    BY <2>3, <2>4
<1>3. CASE Judge(p)
  <2>1. pc[p] = "judge" /\ obs[p] \in Proc /\ UNCHANGED <<lock, alive, obs, crashes>>
    BY <1>3 DEF Judge, HInv, NobodyTakes
  <2>2. /\ obs' \in [Proc -> Owner \cup {None}]
        /\ \A q \in Proc : obs'[q] = obs[q]
        /\ LockOwner' = LockOwner /\ lock' \in LockDir \cup {None}
    BY <2>1 DEF HInv, LockOwner
  <2>3. CASE obs[p] \in alive
    <3>1. NextAttempt(p)
      BY <1>3, <2>3 DEF Judge
    <3>2. /\ pc' \in [Proc -> Label] /\ tries' \in [Proc -> 0..Attempts - 1]
          /\ pc'[p] \in {"install", "busy"}
          /\ \A q \in Proc : q # p => pc'[q] = pc[q]
      BY <3>1, NextAttemptEffect DEF HInv
    <3>3. QED
      BY <2>1, <2>2, <3>2, QuietStep DEF Quiet, Retiring, Over
  <2>4. CASE obs[p] \notin alive
    <3>1. pc' = [pc EXCEPT ![p] = "mkTakeovers"] /\ tries' = tries
      BY <1>3, <2>4 DEF Judge, Goto
    <3>2. /\ pc' \in [Proc -> Label] /\ tries' \in [Proc -> 0..Attempts - 1]
          /\ \A q \in Proc : q # p => pc'[q] = pc[q]
          /\ pc'[p] = "mkTakeovers"
      BY <3>1 DEF HInv, Label
    <3>3. QED
      BY <2>1, <2>2, <2>4, <3>2, QuietStep DEF Quiet, Retiring, Over
  <2>5. QED
    BY <2>3, <2>4
<1>4. CASE MkTakeovers(p) \/ MkEntry(p) \/ MkParents(p) \/ WriteEntry(p) \/ Withdraw(p)
  <2>1. /\ pc[p] \in Retiring
        /\ obs[p] \in Proc /\ obs[p] \notin alive
        /\ UNCHANGED <<alive, obs, crashes>>
    BY <1>4 DEF MkTakeovers, MkEntry, MkParents, WriteEntry, Withdraw, HInv,
                NobodyTakes, Retiring
  <2>2. LockOwner' = LockOwner /\ lock' \in LockDir \cup {None}
    BY <1>4, RegisterEffect DEF HInv
  <2>3. /\ pc' \in [Proc -> Label] /\ tries' \in [Proc -> 0..Attempts - 1]
        /\ pc'[p] \in {"install", "busy"} \cup Retiring
        /\ \A q \in Proc : q # p => pc'[q] = pc[q]
    BY <1>4, NextAttemptEffect
    DEF MkTakeovers, MkEntry, MkParents, WriteEntry, Withdraw, HInv, Goto,
        Label, Retiring
  <2>4. QED
    BY <2>1, <2>2, <2>3, QuietStep DEF HInv, Quiet, Retiring, Over
<1>5. CASE CheckOwner(p)
  <2>1. pc[p] = "checkOwner" /\ obs[p] \in Proc /\ obs[p] \notin alive
    BY <1>5 DEF CheckOwner, HInv, NobodyTakes, Retiring
  <2>2. ASSUME LockOwner = obs[p] PROVE FALSE
    <3>1. pc[obs[p]] \in {"held", "giveUp"}
      BY <2>1, <2>2, <1>b DEF HInv, OwnerUses
    <3>2. pc[obs[p]] \notin Over
      BY <3>1 DEF Over
    <3>3. obs[p] \in alive
      BY <2>1, <3>2 DEF HInv, NobodyTakes
    <3>4. QED
      BY <2>1, <3>3
  <2>3. QED
    BY <1>5, <2>1, <2>2, QuietStep
    DEF CheckOwner, Goto, LockOwner, HInv, Label, Quiet, Retiring, Over
<1>6. CASE ReleaseRead(p)
  <2>1. /\ pc[p] = "held" /\ LockOwner = p
        /\ pc' = [pc EXCEPT ![p] = "giveUp"]
        /\ UNCHANGED <<lock, alive, tries, obs, crashes>>
    BY <1>6 DEF ReleaseRead, Goto, HInv, OwnerUses
  <2>2. OwnerUses'
    BY <2>1 DEF OwnerUses, HInv, LockOwner
  <2>3. NobodyTakes'
    BY <2>1, <1>a DEF NobodyTakes, HInv, Quiet, Retiring, Over
  <2>4. QED
    BY <2>1, <2>2, <2>3 DEF HInv, Label
<1>7. CASE GiveUp(p)
  <2>1. /\ pc[p] = "giveUp" /\ LockOwner = p /\ lock' = None
        /\ pc' = [pc EXCEPT ![p] = "released"] \/ pc' = [pc EXCEPT ![p] = "done"]
        /\ UNCHANGED <<alive, tries, obs, crashes>>
    BY <1>7 DEF GiveUp, Goto, HInv, OwnerUses
  <2>2. LockOwner' = None
    BY <2>1 DEF LockOwner
  <2>3. \A q \in Proc : pc'[q] \notin {"held", "giveUp"}
    BY <2>1 DEF OwnerUses, HInv
  <2>4. OwnerUses'
    BY <2>2, <2>3 DEF OwnerUses
  <2>5. NobodyTakes'
    <3>1. /\ pc'[p] \in {"released", "done"} /\ p \in alive
          /\ \A q \in Proc : q # p => pc'[q] = pc[q]
      BY <2>1, <1>a DEF HInv, Over
    <3>2. QED
      BY <2>1, <3>1 DEF NobodyTakes, HInv, Quiet, Retiring, Over
  <2>6. QED
    BY <2>1, <2>4, <2>5 DEF HInv, Label, Over
<1>8. CASE ReleaseInspect(p)
  BY <1>8, QuietStep
  DEF ReleaseInspect, Goto, LockOwner, HInv, Label, Quiet, Retiring, Over
<1>9. CASE Exit(p)
  <2>1. /\ pc[p] \in Over /\ alive' = alive \ {p}
        /\ UNCHANGED <<lock, pc, tries, obs, crashes>>
    BY <1>9 DEF Exit
  <2>2. OwnerUses' /\ NobodyTakes'
    BY <2>1 DEF OwnerUses, NobodyTakes, HInv, LockOwner, Over
  <2>3. QED
    BY <2>1, <2>2 DEF HInv
<1>10. ~Crash(p)
  BY DEF Crash, HInv
<1>11. ~(List(p) \/ ScanName(p) \/ RemoveName(p) \/ ScanEnd(p) \/ Confirm(p) \/
         Take(p) \/ Inspect(p))
  BY <1>a DEF List, ScanName, RemoveName, ScanEnd, Confirm, Take, Inspect, Quiet,
              Retiring, Over
<1>12. QED
  BY <1>1, <1>2, <1>3, <1>4, <1>5, <1>6, <1>7, <1>8, <1>9, <1>10, <1>11 DEF Step

\* HInv holds throughout as long as nobody dies in the lock.
THEOREM PeacefulInvariance == ASSUME Peaceful PROVE Spec => []HInv
<1>1. Init => HInv
  BY HostInit
<1>2. HInv /\ [Next]_vars => HInv'
  BY HostStep
<1>3. QED
  BY <1>1, <1>2, PTL DEF Spec

\* acquireHostLock and release exclude each other's critical sections as long
\* as no process dies during its call.
THEOREM Exclusion == ASSUME Peaceful PROVE Spec => []MutualExclusion
<1>1. HInv => MutualExclusion
  BY DEF HInv, OwnerUses, MutualExclusion, Held
<1>2. QED
  BY <1>1, PeacefulInvariance, PTL

\* Under the same premise nobody loses the lock it holds.
THEOREM HoldersKeepLock == ASSUME Peaceful PROVE Spec => []HolderKeepsLock
<1>1. HInv => HolderKeepsLock
  BY DEF HInv, OwnerUses, HolderKeepsLock, Held
<1>2. QED
  BY <1>1, PeacefulInvariance, PTL
===============================================================================
