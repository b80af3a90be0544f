------------------------------- MODULE HostLock -------------------------------
(***************************************************************************)
(* The host lock of src/host-lock.js, which serialises the registry, the   *)
(* service life cycle and the upgrade of all Opsle processes on a host.    *)
(*                                                                         *)
(* The lock is a directory with an owner.json.  It is taken by renaming a  *)
(* prepared directory onto lockPath, given up by renaming it away, and a   *)
(* lock whose owner is dead is renamed away by a contender that first      *)
(* registers under lockPath/.takeovers.  Every step below is one file      *)
(* system call on lockPath (or one read of it); paths are looked up afresh *)
(* by each call, so a step acts on whatever directory is there by then.    *)
(*                                                                         *)
(* Each process makes one acquireHostLock call and, if it gets the lock,   *)
(* one release call, then exits.  Left out: the directories a process      *)
(* prepares or retires under a random name, which no other process opens,  *)
(* the waiting between attempts, and unreadable owner records.  The name   *)
(* of a process under .takeovers sorts as the process does in Proc.        *)
(***************************************************************************)
EXTENDS Integers, FiniteSets, FiniteSetsExt

CONSTANTS
    Proc,        \* processes, in the order of their takeover names
    Dead,        \* owners that died before, one of which may hold the lock
    None,        \* "no such file or directory"
    Attempts,    \* attempts of one acquireHostLock call
    MaxCrashes   \* bound on the processes that die during their call

Owner == Proc \cup Dead
Entry == {"none", "made", "recorded"}
LockDir == [owner : Owner \cup {None}, takeovers : BOOLEAN,
            entry : [Proc -> Entry]]

ASSUME HostLockAssumption ==
    /\ Proc \subseteq Nat /\ Proc # {}
    /\ Dead \cap Proc = {}
    /\ None \notin Owner \cup LockDir
    /\ Attempts \in Nat \ {0}
    /\ MaxCrashes \in Nat

VARIABLES
    lock,     \* the directory at lockPath: its owner record, whether it has a
              \* .takeovers directory, and the contenders' entries there
    alive,    \* processes that are running
    pc,       \* where each process is
    tries,    \* attempts it has used up
    obs,      \* the owner it observed when it found the lock taken
    scan,     \* names still to read under .takeovers, first live one found
    moved,    \* the directory it renamed away
    crashes,
    robbed    \* history: a running contender's record was removed by another
              \* that had read the entry before the record was written

vars == <<lock, alive, pc, tries, obs, scan, moved, crashes, robbed>>

-------------------------------------------------------------------------------

\* A directory as acquireHostLock prepares it.
LockOf(o) == [owner |-> o, takeovers |-> FALSE,
              entry |-> [q \in Proc |-> "none"]]

Init ==
    /\ lock \in {None} \cup {LockOf(o) : o \in Dead}
    /\ alive = Proc
    /\ pc = [p \in Proc |-> "install"]
    /\ tries = [p \in Proc |-> 0]
    /\ obs = [p \in Proc |-> None]
    /\ scan = [p \in Proc |-> [todo |-> {}, first |-> None]]
    /\ moved = [p \in Proc |-> None]
    /\ crashes = 0
    /\ robbed = FALSE

Goto(p, label) == pc' = [pc EXCEPT ![p] = label]

\* readOwner(lockPath)
LockOwner == IF lock = None THEN None ELSE lock.owner

\* Fault: one attempt too many.
NextAttemptLate(p) ==
    IF tries[p] < Attempts
    THEN /\ Goto(p, "install")
         /\ tries' = [tries EXCEPT ![p] = tries[p] + 1]
    ELSE /\ Goto(p, "busy")
         /\ UNCHANGED tries

\* The attempt failed: wait and try again, or throw BUSY.
NextAttempt(p) ==
    IF tries[p] + 1 < Attempts
    THEN /\ Goto(p, "install")
         /\ tries' = [tries EXCEPT ![p] = tries[p] + 1]
    ELSE /\ Goto(p, "busy")
         /\ UNCHANGED tries

(***************************************************************************)
(* acquireHostLock                                                         *)
(***************************************************************************)

\* The prepared directory is renamed onto lockPath; a directory that is
\* already there has contents, and rename fails with ENOTEMPTY.
Install(p) ==
    /\ pc[p] = "install"
    /\ IF lock = None
       THEN lock' = LockOf(p) /\ Goto(p, "held")
       ELSE UNCHANGED lock /\ Goto(p, "observe")
    /\ UNCHANGED <<alive, tries, obs, scan, moved, crashes, robbed>>

Observe(p) ==
    /\ pc[p] = "observe"
    /\ obs' = [obs EXCEPT ![p] = LockOwner]
    /\ IF LockOwner = None
       THEN NextAttempt(p)
       ELSE Goto(p, "judge") /\ UNCHANGED tries
    /\ UNCHANGED <<lock, alive, scan, moved, crashes, robbed>>

\* Is the observed owner still running?
Judge(p) ==
    /\ pc[p] = "judge"
    /\ IF obs[p] \in alive
       THEN NextAttempt(p)
       ELSE Goto(p, "mkTakeovers") /\ UNCHANGED tries
    /\ UNCHANGED <<lock, alive, obs, scan, moved, crashes, robbed>>

(***************************************************************************)
(* retireStaleLock                                                         *)
(***************************************************************************)

\* mkdir lockPath/.takeovers; ENOENT ends the takeover.
MkTakeovers(p) ==
    /\ pc[p] = "mkTakeovers"
    /\ IF lock = None
       THEN NextAttempt(p) /\ UNCHANGED lock
       ELSE /\ lock' = [lock EXCEPT !.takeovers = TRUE]
            /\ Goto(p, "mkEntry") /\ UNCHANGED tries
    /\ UNCHANGED <<alive, obs, scan, moved, crashes, robbed>>

HasTakeovers == lock # None /\ lock.takeovers
HasEntry(p) == lock # None /\ lock.entry[p] # "none"

\* lock with the entry of p, which keeps an owner record it already has.
WithEntry(p) ==
    [owner |-> lock.owner, takeovers |-> TRUE,
     entry |-> [lock.entry EXCEPT ![p] = IF @ = "none" THEN "made" ELSE @]]

\* mkdir of the contender's own entry.
MkEntry(p) ==
    /\ pc[p] = "mkEntry"
    /\ IF HasTakeovers
       THEN lock' = WithEntry(p) /\ Goto(p, "mkParents") /\ UNCHANGED tries
       ELSE NextAttempt(p) /\ UNCHANGED lock
    /\ UNCHANGED <<alive, obs, scan, moved, crashes, robbed>>

\* writeJson first makes the directories of its path, lockPath included if it
\* has been renamed away by now.
MkParents(p) ==
    /\ pc[p] = "mkParents"
    /\ lock' = IF lock = None
               THEN [owner |-> None, takeovers |-> TRUE,
                     entry |-> [LockOf(p).entry EXCEPT ![p] = "made"]]
               ELSE WithEntry(p)
    /\ Goto(p, "writeEntry")
    /\ UNCHANGED <<alive, tries, obs, scan, moved, crashes, robbed>>

\* ... and then puts owner.json there.
WriteEntry(p) ==
    /\ pc[p] = "writeEntry"
    /\ IF HasEntry(p)
       THEN /\ lock' = [lock EXCEPT !.entry[p] = "recorded"]
            /\ Goto(p, "checkOwner") /\ UNCHANGED tries
       ELSE NextAttempt(p) /\ UNCHANGED lock
    /\ UNCHANGED <<alive, obs, scan, moved, crashes, robbed>>

CheckOwner(p) ==
    /\ pc[p] = "checkOwner"
    /\ Goto(p, IF LockOwner = obs[p] THEN "list" ELSE "withdraw")
    /\ UNCHANGED <<lock, alive, tries, obs, scan, moved, crashes, robbed>>

Withdraw(p) ==
    /\ pc[p] = "withdraw"
    /\ lock' = IF HasEntry(p) THEN [lock EXCEPT !.entry[p] = "none"] ELSE lock
    /\ NextAttempt(p)
    /\ UNCHANGED <<alive, obs, scan, moved, crashes, robbed>>

\* readdir; ENOENT ends the takeover.
List(p) ==
    /\ pc[p] = "list"
    /\ IF HasTakeovers
       THEN /\ scan' = [scan EXCEPT ![p] =
                  [todo |-> {q \in Proc : lock.entry[q] # "none"},
                   first |-> None]]
            /\ Goto(p, "scan") /\ UNCHANGED tries
       ELSE NextAttempt(p) /\ UNCHANGED scan
    /\ UNCHANGED <<lock, alive, obs, moved, crashes, robbed>>

ContenderIsLive(q) == lock # None /\ lock.entry[q] = "recorded" /\ q \in alive

\* readOwner of the next name and the look at its process.  Nobody but the step
\* below acts on the answer, and a process that has ended does not come back, so
\* the two are one step.
ScanName(p) ==
    /\ pc[p] = "scan"
    /\ scan[p].todo # {}
    /\ LET q == Min(scan[p].todo)
       IN IF ContenderIsLive(q)
          THEN /\ scan' = [scan EXCEPT ![p].todo = @ \ {q},
                                       ![p].first = IF @ = None THEN q ELSE @]
               /\ UNCHANGED pc
          ELSE Goto(p, "remove") /\ UNCHANGED scan
    /\ UNCHANGED <<lock, alive, tries, obs, moved, crashes, robbed>>

\* rmSync of a contender that had no record or no process.  It may have written
\* its record since.
RemoveName(p) ==
    /\ pc[p] = "remove"
    /\ LET q == Min(scan[p].todo)
       IN /\ lock' = IF HasEntry(q)
                     THEN [lock EXCEPT !.entry[q] = "none"] ELSE lock
          /\ scan' = [scan EXCEPT ![p].todo = @ \ {q}]
          /\ robbed' = (robbed \/ ContenderIsLive(q))
    /\ Goto(p, "scan")
    /\ UNCHANGED <<alive, tries, obs, moved, crashes>>

\* Fault: a contender goes on only if nobody else is registered.
ScanEndAlone(p) ==
    /\ pc[p] = "scan"
    /\ scan[p].todo = {}
    /\ Goto(p, IF {q \in Proc : HasEntry(q)} = {p} THEN "confirm" ELSE "withdraw")
    /\ UNCHANGED <<lock, alive, tries, obs, scan, moved, crashes, robbed>>

\* Only the first live contender goes on.
ScanEnd(p) ==
    /\ pc[p] = "scan"
    /\ scan[p].todo = {}
    /\ Goto(p, IF scan[p].first = p THEN "confirm" ELSE "withdraw")
    /\ UNCHANGED <<lock, alive, tries, obs, scan, moved, crashes, robbed>>

Confirm(p) ==
    /\ pc[p] = "confirm"
    /\ Goto(p, IF LockOwner = obs[p] THEN "take" ELSE "withdraw")
    /\ UNCHANGED <<lock, alive, tries, obs, scan, moved, crashes, robbed>>

\* rename lockPath to a retired name; ENOENT ends the takeover.
Take(p) ==
    /\ pc[p] = "take"
    /\ moved' = [moved EXCEPT ![p] = lock]
    /\ lock' = None
    /\ IF lock = None
       THEN NextAttempt(p)
       ELSE Goto(p, "inspect") /\ UNCHANGED tries
    /\ UNCHANGED <<alive, obs, scan, crashes, robbed>>

\* Fault: what was renamed away is not looked at.
InspectNothing(p) ==
    /\ pc[p] = "inspect"
    /\ NextAttempt(p)
    /\ UNCHANGED <<lock, alive, obs, scan, moved, crashes, robbed>>

\* Only now is the retired owner compared with the observed one; another owner
\* is reported as CORRUPT.
Inspect(p) ==
    /\ pc[p] = "inspect"
    /\ IF moved[p].owner = obs[p]
       THEN NextAttempt(p) /\ moved' = [moved EXCEPT ![p] = None]
       ELSE Goto(p, "corrupt") /\ UNCHANGED <<tries, moved>>
    /\ UNCHANGED <<lock, alive, obs, scan, crashes, robbed>>

(***************************************************************************)
(* release and releaseObservedLock                                         *)
(***************************************************************************)

ReleaseRead(p) ==
    /\ pc[p] = "held"
    /\ Goto(p, IF LockOwner = p THEN "giveUp" ELSE "done")
    /\ UNCHANGED <<lock, alive, tries, obs, scan, moved, crashes, robbed>>

GiveUp(p) ==
    /\ pc[p] = "giveUp"
    /\ moved' = [moved EXCEPT ![p] = lock]
    /\ lock' = None
    /\ Goto(p, IF lock = None THEN "done" ELSE "released")
    /\ UNCHANGED <<alive, tries, obs, scan, crashes, robbed>>

ReleaseInspect(p) ==
    /\ pc[p] = "released"
    /\ Goto(p, IF moved[p].owner = p THEN "done" ELSE "corrupt")
    /\ UNCHANGED <<lock, alive, tries, obs, scan, moved, crashes, robbed>>

(***************************************************************************)
(* The process ends: after its call, or at any moment of it.               *)
(***************************************************************************)
Over == {"done", "busy", "corrupt"}

Exit(p) ==
    /\ p \in alive
    /\ pc[p] \in Over
    /\ alive' = alive \ {p}
    /\ UNCHANGED <<lock, pc, tries, obs, scan, moved, crashes, robbed>>

Crash(p) ==
    /\ p \in alive
    /\ pc[p] \notin Over
    /\ crashes < MaxCrashes
    /\ crashes' = crashes + 1
    /\ alive' = alive \ {p}
    /\ Goto(p, "crashed")
    /\ UNCHANGED <<lock, tries, obs, scan, moved, robbed>>

Step(p) ==
    \/ Install(p) \/ Observe(p) \/ Judge(p)
    \/ MkTakeovers(p) \/ MkEntry(p) \/ MkParents(p) \/ WriteEntry(p)
    \/ CheckOwner(p) \/ Withdraw(p) \/ List(p)
    \/ ScanName(p) \/ RemoveName(p) \/ ScanEnd(p) \/ Confirm(p) \/ Take(p) \/ Inspect(p)
    \/ ReleaseRead(p) \/ GiveUp(p) \/ ReleaseInspect(p)

Next == \E p \in Proc : Step(p) \/ Exit(p) \/ Crash(p)

Spec == Init /\ [][Next]_vars

-------------------------------------------------------------------------------

Label == Over \cup
    {"install", "observe", "judge", "mkTakeovers", "mkEntry", "mkParents",
     "writeEntry", "checkOwner", "withdraw", "list", "scan", "remove", "confirm",
     "take", "inspect", "held", "giveUp", "released", "crashed"}

\* Every variable has its type.
TypeOK ==
    /\ lock \in LockDir \cup {None}
    /\ alive \subseteq Proc
    /\ pc \in [Proc -> Label]
    /\ tries \in [Proc -> 0..Attempts - 1]
    /\ obs \in [Proc -> Owner \cup {None}]
    /\ scan \in [Proc -> [todo : SUBSET Proc, first : Proc \cup {None}]]
    /\ moved \in [Proc -> LockDir \cup {None}]
    /\ crashes \in Nat
    /\ robbed \in BOOLEAN

Held == {p \in Proc : pc[p] = "held"}

\* At most one process is in its critical section.
MutualExclusion == \A p, q \in Held : p = q

\* A process in its critical section owns the directory at lockPath: nobody has
\* taken the lock from a live owner.
HolderKeepsLock == \A p \in Held : LockOwner = p

\* p renamed away a lock that was neither the one it had judged dead nor its
\* own, and will say so unless it dies first.
TookAnother(p) ==
    /\ pc[p] \in {"inspect", "corrupt", "crashed"}
    /\ moved[p] # None
    /\ moved[p].owner \notin {obs[p], p}

\* A process loses the lock in its critical section, which is the only way two
\* can be in theirs, only to a contender that hit the wrong lock, and that one
\* stops with CORRUPT or dies before it can: the loss is never silent.
LossIsReported ==
    \A p \in Held : LockOwner = p \/ \E r \in Proc : TookAnother(r)

\* Contenders do not withdraw in favour of one another until none is left: when
\* every call has ended, a dead owner's lock is gone, however their registrations
\* interleaved.  The exception is a contender whose record was removed by one that
\* had read its entry too early: those that withdrew for it then did so for
\* nobody, and three may all give up.
StaleLockGoes ==
    (\A p \in Proc : pc[p] \in Over) => LockOwner \notin Dead \/ robbed
===============================================================================
