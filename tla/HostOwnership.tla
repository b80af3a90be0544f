----------------------------- MODULE HostOwnership -----------------------------
(***************************************************************************)
(* Which host's opsled owns a repository: src/opsled-registry.js, with the *)
(* replacement of the repository's Codex session binding by src/wakeup.js, *)
(* from which it takes the Herdr pane, and the callers in src/opsled.js    *)
(* and bin/opsled-wake-worker.js.                                          *)
(*                                                                         *)
(* Three files name the pane of a repository: its session binding, its     *)
(* ownership pointer, and the mapping in the registry of its host.  They   *)
(* are written one after the other; the pointer under a lock of the        *)
(* repository, the registry under a lock of the host, the binding by       *)
(* compare-and-swap.                                                       *)
(*                                                                         *)
(* The locks exclude and go with their owner (HostLock); a file is read    *)
(* and replaced as a whole.  Left out: malformed and linked files, and     *)
(* session bindings of older schemas; the durable schema is in only by its *)
(* refusal.                                                                *)
(***************************************************************************)
EXTENDS Naturals

CONSTANTS
    None,
    Proc,        \* processes: operators, services and wake workers
    Host,        \* host roots, each with its registry
    Repo,        \* repositories, by realpath
    Herdr,       \* Herdr panes: records with a workspace
    Serves,      \* the hosts and repositories that are brought together
    Legacy,      \* those of them that a version 1 registry maps
    MaxCalls,    \* bound on calls
    MaxDeaths,   \* bound on processes that die in a call
    MaxTries,    \* attempts at replacing a session binding
    MaxRevision  \* bound on the revision of a session binding

Pointer == [host : Host, herdr : Herdr]

\* A mapping that was migrated without a session binding has no pane.
Unpaired == [workspace |-> None, pane |-> None]

ASSUME OwnershipAssumption ==
    /\ MaxCalls \in Nat /\ MaxDeaths \in Nat
    /\ MaxTries \in Nat \ {0} /\ MaxRevision \in Nat \ {0}
    /\ Serves \subseteq Host \X Repo /\ Legacy \subseteq Serves
    /\ None \notin Proc \cup Host \cup Herdr \cup Pointer
    /\ Unpaired \notin Herdr \cup {None}

Mapping == Herdr \cup {Unpaired, None}
\* Two bindings of one revision that name the same pane are taken for one.
Binding == [revision : 1..MaxRevision, herdr : Herdr]

VARIABLES
    pointer,    \* .opsle/host-ownership.json
    binding,    \* .opsle/wake/codex-session-binding.json
    archive,    \* the archive of session bindings
    registry,   \* the mappings of registry.json, by host
    legacy,     \* the hosts whose registry is of version 1
    repoLock,   \* who holds .opsle/host-ownership.lock
    hostLock,   \* who holds registry.lock
    live,       \* the processes that have not died
    pc, call,   \* where each call is, and what it knows
    inherited,  \* history variable: mappings that no registration made
    torn,       \* history variable: why a repository is left unsettled
    spent       \* how much of each bound is used up

mapping == <<pointer, registry, legacy>>
session == <<binding, archive>>
locks == <<repoLock, hostLock>>
ghosts == <<inherited, torn>>
vars == <<mapping, session, locks, live, pc, call, ghosts, spent>>

Idle == [op |-> None, host |-> None, repo |-> None, seen |-> None,
         herdr |-> None, pointer |-> None, before |-> None, prior |-> None,
         compared |-> None, tries |-> 0]

Registered(h, r) == registry[h][r] # None /\ <<h, r>> \notin inherited

\* The pointer and the registry it names agree; without a pointer there is no
\* registration.
Settled(r) ==
    IF pointer[r] = None
    THEN \A h \in Host : ~Registered(h, r)
    ELSE registry[pointer[r].host][r] = pointer[r].herdr

First(herdr) == [revision |-> 1, herdr |-> herdr]

\* validateRegistry
DistinctWorkspaces(mapped) ==
    \A r, s \in Repo :
        r # s /\ {mapped[r], mapped[s]} \subseteq Herdr =>
            mapped[r].workspace # mapped[s].workspace

\* A repository is bound or not, and one that is bound is registered or not; a
\* host that still has its legacy registry has registered nothing since.
Init ==
    /\ binding \in [Repo -> {First(herdr) : herdr \in Herdr} \cup {None}]
    /\ \E owner \in [Repo -> Host \cup {None}] :
        /\ \A r \in Repo : owner[r] # None =>
              /\ binding[r] # None
              /\ <<owner[r], r>> \in Serves
              /\ \A s \in Repo : <<owner[r], s>> \notin Legacy
        /\ pointer = [r \in Repo |->
              IF owner[r] = None THEN None
              ELSE [host |-> owner[r], herdr |-> binding[r].herdr]]
        /\ registry = [h \in Host |-> [r \in Repo |->
              IF owner[r] = h THEN binding[r].herdr
              ELSE IF <<h, r>> \in Legacy THEN Unpaired ELSE None]]
    /\ \A h \in Host : DistinctWorkspaces(registry[h])
    /\ archive = [r \in Repo |-> IF binding[r] = None THEN {} ELSE {binding[r]}]
    /\ legacy = {s[1] : s \in Legacy}
    /\ repoLock = [r \in Repo |-> None]
    /\ hostLock = [h \in Host |-> None]
    /\ live = Proc
    /\ pc = [p \in Proc |-> "idle"]
    /\ call = [p \in Proc |-> Idle]
    /\ inherited = Legacy
    /\ torn = [r \in Repo |-> {}]
    /\ spent = [call |-> 0, death |-> 0]

(***************************************************************************)
(* Calls and the two locks                                                 *)
(***************************************************************************)
Goes(p, label) == pc' = [pc EXCEPT ![p] = label]

Returns(p) ==
    /\ pc' = [pc EXCEPT ![p] = "idle"]
    /\ call' = [call EXCEPT ![p] = Idle]

Free(owner) == owner = None \/ owner \notin live

\* A process that has no call in progress starts one.
Calls(p, op, label, pairs) ==
    /\ pc[p] = "idle"
    /\ spent.call < MaxCalls
    /\ Goes(p, label)
    /\ \E s \in pairs :
          call' = [call EXCEPT ![p] =
              [op |-> op, host |-> s[1], repo |-> s[2], seen |-> None,
               herdr |-> None, pointer |-> None, before |-> None,
               prior |-> None, compared |-> None, tries |-> 0]]
    /\ spent' = [call |-> spent.call + 1, death |-> spent.death]
    /\ UNCHANGED <<mapping, session, locks, live, ghosts>>

\* Operators register and unregister.
Register(p) == Calls(p, "register", "lock", Serves)
Unregister(p) == Calls(p, "unregister", "lock", Serves)

\* The service processes a repository of the registry that it reads.
Cycle(p) == Calls(p, "cycle", "resolve", Serves)

\* A wake worker refreshes the session of its repository.
Wake(p) == Calls(p, "wake", "resolve", Serves)

\* The supervisor binds its session, or asks for its status, which refreshes the
\* binding; no host has a part in it.
Bind(p) ==
    Calls(p, "bind", "discover",
          {s \in Serves : s[1] = CHOOSE h \in Host : <<h, s[2]>> \in Serves})

\* acquireHostLock: the lock, or BUSY when its attempts run out.
LockRepo(p) ==
    /\ pc[p] = "lock"
    /\ LET r == call[p].repo
       IN IF Free(repoLock[r])
          THEN /\ repoLock' = [repoLock EXCEPT ![r] = p]
               /\ Goes(p, "check")
               /\ UNCHANGED call
          ELSE Returns(p) /\ UNCHANGED repoLock
    /\ UNCHANGED <<mapping, session, hostLock, live, ghosts, spent>>

Release(p) ==
    /\ pc[p] = "release"
    /\ LET r == call[p].repo
       IN /\ repoLock' = [repoLock EXCEPT ![r] = None]
          /\ torn' = [torn EXCEPT ![r] = IF Settled(r) THEN {} ELSE @]
    /\ Returns(p)
    /\ UNCHANGED <<mapping, session, hostLock, live, inherited, spent>>

(***************************************************************************)
(* The registry.  A legacy registry is migrated by whoever reads it, with  *)
(* the panes that the repositories are bound to.                           *)
(***************************************************************************)
PaneOf(r) == IF binding[r] = None THEN Unpaired ELSE binding[r].herdr

Migrated(h) ==
    [r \in Repo |-> IF registry[h][r] = None THEN None ELSE PaneOf(r)]

Current(h) == IF h \in legacy THEN Migrated(h) ELSE registry[h]

\* Fault: a mapping without a pane is processed too.
ProceedsUnpaired(p, seen) == seen # None

\* resolveRepositoryMapping wants a mapping, a cycle one that has a pane.
Proceeds(p, seen) == IF call[p].op = "cycle" THEN seen \in Herdr ELSE seen # None

\* readRegistry: what the call sees here it may use much later.  Two legacy
\* repositories bound in one workspace make it throw.
Resolve(p) ==
    /\ pc[p] \in {"resolve", "reread"}
    /\ LET h == call[p].host
           r == call[p].repo
           seen == Current(h)[r]
       IN \/ /\ h \in legacy => /\ Free(hostLock[h])
                                /\ DistinctWorkspaces(Current(h))
             /\ registry' = [registry EXCEPT ![h] = Current(h)]
             /\ legacy' = legacy \ {h}
             /\ IF Proceeds(p, seen)
                THEN /\ call' = [call EXCEPT ![p].seen = seen]
                     /\ Goes(p, IF pc[p] = "resolve" /\ call[p].op = "wake"
                                THEN "discover" ELSE "lock")
                ELSE Returns(p)
          \/ /\ h \in legacy
             /\ ~Free(hostLock[h]) \/ ~DistinctWorkspaces(Current(h))
             /\ Returns(p)
             /\ UNCHANGED <<registry, legacy>>
    /\ UNCHANGED <<pointer, session, locks, live, ghosts, spent>>

\* A registration that fails takes its pointer back.
Fails(p) == Goes(p, IF call[p].op = "register" THEN "undo" ELSE "release")

\* Fault: the registry is read before it is locked.
ReadRegistryUnlocked(p) ==
    /\ pc[p] = "update"
    /\ call' = [call EXCEPT ![p].before = Current(call[p].host)]
    /\ Goes(p, "write")
    /\ UNCHANGED <<mapping, session, locks, live, ghosts, spent>>

\* updateRegistry: take the lock and read.
ReadRegistry(p) ==
    /\ pc[p] = "update"
    /\ LET h == call[p].host
       IN IF Free(hostLock[h]) /\ (h \in legacy => DistinctWorkspaces(Current(h)))
          THEN /\ hostLock' = [hostLock EXCEPT ![h] = p]
               /\ call' = [call EXCEPT ![p].before = Current(h)]
               /\ Goes(p, "write")
          ELSE Fails(p) /\ UNCHANGED <<hostLock, call>>
    /\ UNCHANGED <<mapping, session, repoLock, live, ghosts, spent>>

\* updateRegistry: mutate what was read, replace the file, release the lock.
Replaces(p, value, label) ==
    LET h == call[p].host
        r == call[p].repo
        next == [call[p].before EXCEPT ![r] = value]
    IN IF DistinctWorkspaces(next)
       THEN /\ registry' = [registry EXCEPT ![h] = next]
            /\ legacy' = legacy \ {h}
            /\ inherited' = IF call[p].op = "wake" THEN inherited
                            ELSE inherited \ {<<h, r>>}
            /\ Goes(p, label)
       ELSE Fails(p) /\ UNCHANGED <<registry, legacy, inherited>>

\* registerRepository: refused if another repository has the pane's workspace.
RegisterMapping(p) == Replaces(p, call[p].herdr, "release")

\* unregisterRepository: a repository without a mapping is no error.
DropMapping(p) == Replaces(p, None, "settle")

\* updateRepositoryHerdrBinding: the mapping must still be there.
RefreshMapping(p) ==
    IF call[p].before[call[p].repo] # None
    THEN Replaces(p, call[p].herdr, "settle")
    ELSE Fails(p) /\ UNCHANGED <<registry, legacy, inherited>>

WriteRegistry(p) ==
    /\ pc[p] = "write"
    /\ CASE call[p].op = "register" -> RegisterMapping(p)
         [] call[p].op = "unregister" -> DropMapping(p)
         [] call[p].op = "wake" -> RefreshMapping(p)
    /\ hostLock' = [hostLock EXCEPT ![call[p].host] = None]
    /\ UNCHANGED <<pointer, session, repoLock, live, call, torn, spent>>

(***************************************************************************)
(* The pointer, under the lock of the repository                           *)
(***************************************************************************)
OwnedElsewhere(p) ==
    LET owner == pointer[call[p].repo]
    IN owner # None /\ owner.host # call[p].host

\* registerRepository: not if another host owns the repository, if it is not
\* bound, or if its durable state is not compatible with this release.
CheckRegister(p) ==
    LET r == call[p].repo
    IN \/ /\ ~OwnedElsewhere(p) /\ binding[r] # None
          /\ call' = [call EXCEPT ![p] =
                [op |-> "register", host |-> call[p].host, repo |-> r,
                 seen |-> None, herdr |-> binding[r].herdr,
                 pointer |-> pointer[r], before |-> None, prior |-> None,
                 compared |-> None, tries |-> 0]]
          /\ Goes(p, "point")
          /\ UNCHANGED <<pointer, torn>>
       \/ /\ Goes(p, "release")
          /\ UNCHANGED <<pointer, torn, call>>

\* unregisterRepository
CheckUnregister(p) ==
    /\ IF OwnedElsewhere(p)
       THEN Goes(p, "release") /\ UNCHANGED call
       ELSE /\ call' = [call EXCEPT ![p].pointer = pointer[call[p].repo]]
            /\ Goes(p, "update")
    /\ UNCHANGED <<pointer, torn>>

\* ensureRepositoryOwnershipPointer: a missing pointer is written from the
\* mapping that the service read; one that disagrees is a conflict.
Establish(p) ==
    LET r == call[p].repo
        h == call[p].host
    IN /\ IF pointer[r] = None
          THEN /\ pointer' = [pointer EXCEPT ![r] =
                     [host |-> h, herdr |-> call[p].seen]]
               /\ torn' = [torn EXCEPT ![r] =
                     IF registry[h][r] = call[p].seen THEN @ ELSE @ \cup {"stale"}]
          ELSE UNCHANGED <<pointer, torn>>
       /\ Goes(p, "release")
       /\ UNCHANGED call

\* updateRepositoryHerdrBinding: the registry is written if the mapping seen
\* before the lock has another pane.
CheckWake(p) ==
    LET r == call[p].repo
    IN /\ IF pointer[r] = None \/ OwnedElsewhere(p)
          THEN Goes(p, "release") /\ UNCHANGED call
          ELSE /\ call' = [call EXCEPT ![p].pointer = pointer[r]]
               /\ Goes(p, IF call[p].seen = call[p].herdr THEN "settle" ELSE "update")
       /\ UNCHANGED <<pointer, torn>>

Check(p) ==
    /\ pc[p] = "check"
    /\ CASE call[p].op = "register" -> CheckRegister(p)
         [] call[p].op = "unregister" -> CheckUnregister(p)
         [] call[p].op = "cycle" -> Establish(p)
         [] call[p].op = "wake" -> CheckWake(p)
    /\ UNCHANGED <<registry, legacy, session, locks, live, inherited, spent>>

\* registerRepository: the pointer goes before the mapping.
Point(p) ==
    /\ pc[p] = "point"
    /\ pointer' = [pointer EXCEPT ![call[p].repo] =
          [host |-> call[p].host, herdr |-> call[p].herdr]]
    /\ Goes(p, "update")
    /\ UNCHANGED <<registry, legacy, session, locks, live, call, ghosts, spent>>

\* Fault: the pointer goes, also one that was there before.
UndoAll(p) ==
    /\ pc[p] = "undo"
    /\ pointer' = [pointer EXCEPT ![call[p].repo] = None]
    /\ Goes(p, "release")
    /\ UNCHANGED <<registry, legacy, session, locks, live, call, ghosts, spent>>

\* Fault: the new pointer stays.
UndoNothing(p) ==
    /\ pc[p] = "undo"
    /\ Goes(p, "release")
    /\ UNCHANGED <<mapping, session, locks, live, call, ghosts, spent>>

\* registerRepository: a pointer that was there before stays, as rewritten.
Undo(p) ==
    /\ pc[p] = "undo"
    /\ LET r == call[p].repo
       IN IF call[p].pointer = None
          THEN pointer' = [pointer EXCEPT ![r] = None] /\ UNCHANGED torn
          ELSE torn' = [torn EXCEPT ![r] = @ \cup {"refused"}] /\ UNCHANGED pointer
    /\ Goes(p, "release")
    /\ UNCHANGED <<registry, legacy, session, locks, live, call, inherited, spent>>

\* unregisterRepository: after the mapping the pointer goes.
Unlink(p) ==
    /\ pc[p] = "settle" /\ call[p].op = "unregister"
    /\ pointer' = [pointer EXCEPT ![call[p].repo] = None]
    /\ Goes(p, "release")
    /\ UNCHANGED <<registry, legacy, session, locks, live, call, ghosts, spent>>

\* updateRepositoryHerdrBinding: the pointer gets the pane, if it has another,
\* whatever the registry has if it was not written.
Repoint(p) ==
    /\ pc[p] = "settle" /\ call[p].op = "wake"
    /\ LET r == call[p].repo
       IN /\ pointer' = [pointer EXCEPT ![r] =
                [host |-> call[p].pointer.host, herdr |-> call[p].herdr]]
          /\ torn' = [torn EXCEPT ![r] =
                IF registry[call[p].host][r] = call[p].herdr
                THEN @ ELSE @ \cup {"stale"}]
    /\ Goes(p, "release")
    /\ UNCHANGED <<registry, legacy, session, locks, live, call, inherited, spent>>

(***************************************************************************)
(* The session binding (wakeup.js)                                         *)
(***************************************************************************)
\* The pane that the repository's frontend is found in; a wake worker accepts it
\* only in the workspace that its mapping names.
Frontend(p) ==
    IF call[p].op = "wake"
    THEN {herdr \in Herdr : herdr.workspace = call[p].seen.workspace}
    ELSE Herdr

\* refreshCodexSessionBinding: what is found, if anything is; without a fresh
\* binding a wake worker leaves the registry alone.
Discover(p) ==
    /\ pc[p] = "discover"
    /\ \/ \E herdr \in Frontend(p) :
            /\ call' = [call EXCEPT ![p].herdr = herdr]
            /\ Goes(p, "replace")
       \/ Returns(p)
    /\ UNCHANGED <<mapping, session, locks, live, ghosts, spent>>

NextRevision(b) == IF b = None THEN 1 ELSE b.revision + 1

\* createCodexSessionBinding
NewBinding(prior, herdr) == [revision |-> NextRevision(prior), herdr |-> herdr]

\* The pane is a part of a binding's identity.
MayBeSame(prior, herdr) == prior # None /\ prior.herdr = herdr

\* archiveBinding: what was read goes into the archive under the hash of what was
\* compared, unless something is there by that name.
Archived(r, prior, compared) ==
    IF prior = None \/ compared \in archive[r] THEN {} ELSE {prior}

\* Fault: a replacement is only archived when it is replaced in its turn.
ArchivesLater(r, prior, compared, replacement) ==
    archive' = [archive EXCEPT ![r] = @ \cup Archived(r, prior, compared)]

\* Both what is to be replaced and its replacement.
Archives(r, prior, compared, replacement) ==
    archive' = [archive EXCEPT
        ![r] = @ \cup Archived(r, prior, compared) \cup {replacement}]

\* replaceBindingPointer: the binding that the replacement is made from ...
ReadBinding(p) ==
    /\ pc[p] = "replace"
    /\ call' = [call EXCEPT ![p].prior = binding[call[p].repo]]
    /\ Goes(p, "hash")
    /\ UNCHANGED <<mapping, session, locks, live, ghosts, spent>>

\* ... and, in a read of its own, the content that the swap will compare with.
\* Nothing is replaced by what has the same identity.
HashBinding(p) ==
    /\ pc[p] = "hash"
    /\ LET r == call[p].repo
           prior == call[p].prior
           compared == IF prior = None THEN None ELSE binding[r]
       IN \/ /\ MayBeSame(prior, call[p].herdr)
             /\ Goes(p, "status")
             /\ UNCHANGED <<archive, call>>
          \/ /\ NextRevision(prior) <= MaxRevision
             /\ Archives(r, prior, compared, NewBinding(prior, call[p].herdr))
             /\ call' = [call EXCEPT ![p].compared = compared]
             /\ Goes(p, "swap")
    /\ UNCHANGED <<mapping, binding, locks, live, ghosts, spent>>

\* atomicCompareAndSwapJson; another try is a new revision of what is there.
SwapBinding(p) ==
    /\ pc[p] = "swap"
    /\ LET r == call[p].repo
           new == NewBinding(call[p].prior, call[p].herdr)
       IN IF binding[r] = call[p].compared
          THEN /\ binding' = [binding EXCEPT ![r] = new]
               /\ call' = [call EXCEPT ![p].prior = new, ![p].compared = None]
               /\ Goes(p, "status")
          ELSE /\ IF call[p].tries + 1 < MaxTries
                  THEN /\ call' = [call EXCEPT ![p].compared = None,
                                              ![p].tries = @ + 1]
                       /\ Goes(p, "replace")
                  ELSE Returns(p)
               /\ UNCHANGED binding
    /\ UNCHANGED <<mapping, archive, locks, live, ghosts, spent>>

\* codexSessionBindingStatus: only a wake worker goes on, to the registry, and
\* only with a binding that was not replaced since.
Status(p) ==
    /\ pc[p] = "status"
    /\ \/ /\ call[p].op = "wake"
          /\ binding[call[p].repo] = call[p].prior
          /\ Goes(p, "reread")
          /\ UNCHANGED call
       \/ Returns(p)
    /\ UNCHANGED <<mapping, session, locks, live, ghosts, spent>>

(***************************************************************************)
(* The system                                                              *)
(***************************************************************************)
\* A process dies in a call; what it held can be taken.
Die(p) ==
    /\ pc[p] # "idle"
    /\ spent.death < MaxDeaths
    /\ live' = live \ {p}
    /\ pc' = [pc EXCEPT ![p] = "dead"]
    /\ torn' = [r \in Repo |->
          IF repoLock[r] = p /\ ~Settled(r) THEN torn[r] \cup {"death"} ELSE torn[r]]
    /\ spent' = [call |-> spent.call, death |-> spent.death + 1]
    /\ UNCHANGED <<mapping, session, locks, call, inherited>>

Step(p) ==
    \/ Register(p) \/ Unregister(p) \/ Cycle(p) \/ Wake(p) \/ Bind(p)
    \/ LockRepo(p) \/ Release(p)
    \/ Resolve(p) \/ ReadRegistry(p) \/ WriteRegistry(p)
    \/ Check(p) \/ Point(p) \/ Undo(p) \/ Unlink(p) \/ Repoint(p)
    \/ Discover(p) \/ ReadBinding(p) \/ HashBinding(p) \/ SwapBinding(p) \/ Status(p)
    \/ Die(p)

Next == \E p \in live : Step(p)

Spec == Init /\ [][Next]_vars

(***************************************************************************)
(* Properties                                                              *)
(***************************************************************************)
PcLabel == {"idle", "lock", "check", "point", "update", "write", "undo",
            "settle", "release", "resolve", "reread", "discover", "replace",
            "hash", "swap", "status", "dead"}

Operation == {"register", "unregister", "cycle", "wake", "bind"}

Call == [op : Operation \cup {None}, host : Host \cup {None},
         repo : Repo \cup {None}, seen : Mapping, herdr : Herdr \cup {None},
         pointer : Pointer \cup {None},
         before : [Repo -> Mapping] \cup {None}, prior : Binding \cup {None},
         compared : Binding \cup {None}, tries : 0..MaxTries]

\* Every file is absent or a record of its kind, and a version 2 mapping is
\* never left out of its registry's domain.
TypeOK ==
    /\ pointer \in [Repo -> Pointer \cup {None}]
    /\ binding \in [Repo -> Binding \cup {None}]
    /\ archive \in [Repo -> SUBSET Binding]
    /\ registry \in [Host -> [Repo -> Mapping]]
    /\ legacy \subseteq Host
    /\ repoLock \in [Repo -> Proc \cup {None}]
    /\ hostLock \in [Host -> Proc \cup {None}]
    /\ live \subseteq Proc
    /\ pc \in [Proc -> PcLabel]
    /\ call \in [Proc -> Call]
    /\ inherited \subseteq Host \X Repo
    /\ torn \in [Repo -> SUBSET {"death", "refused", "stale"}]
    /\ spent \in [call : 0..MaxCalls, death : 0..MaxDeaths]

\* A registered repository is owned by the host that registered it, in every
\* state: between the writes of pointer and registry, after a death or a refused
\* registration, and whatever a cycle with an old mapping writes.  So no two
\* hosts have one repository registered.  Only the mappings that a version 1
\* registry brought along may be without a pointer, or against one.
RegisteredIsOwned ==
    \A h \in Host, r \in Repo :
        Registered(h, r) => pointer[r] # None /\ pointer[r].host = h

\* When nobody is writing its files, pointer and registry agree about a
\* repository, and neither is without the other, unless a process died in
\* between, a registration over an existing pointer was refused, or a call acted
\* on a mapping it had read before it had the lock.
UnsettledIsExplained ==
    \A r \in Repo : Free(repoLock[r]) /\ ~Settled(r) => torn[r] # {}

\* No update of a registry is lost: a mapping changes only when a call about
\* that repository, in that registry, writes it and owns the repository, or when
\* the registry is migrated.
OthersAreKept ==
    [][\A h \in Host, r \in Repo : registry'[h][r] # registry[h][r] =>
        \/ h \in legacy
        \/ \E p \in live : /\ pc[p] = "write" /\ repoLock[r] = p
                           /\ call[p].host = h /\ call[p].repo = r]_vars

\* However many refreshes race, no session binding is replaced that is not in the
\* archive, even though its replacer may have read only an earlier one.
ReplacedIsArchived ==
    [][\A r \in Repo :
        binding'[r] # binding[r] /\ binding[r] # None => binding[r] \in archive[r]]_vars

===============================================================================
