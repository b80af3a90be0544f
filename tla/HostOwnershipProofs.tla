-------------------------- MODULE HostOwnershipProofs --------------------------
(***************************************************************************)
(* Proofs about HostOwnership for every number of processes, hosts,        *)
(* repositories, panes and deaths.                                         *)
(*                                                                         *)
(* First what a call has in hand at each of its labels (Shape), which      *)
(* makes every file a record of its kind; then what it has under its locks *)
(* (Midway): a step of another process leaves that alone (Frame), and its  *)
(* own next step needs no more to keep RegisteredIsOwned.                  *)
(* Then two more, each on the ones before: what is bound, and what a       *)
(* refresh is about to bind, is archived (Kept); and a repository that     *)
(* nobody works on has its files settled, or a reason why not (UInv).      *)
(***************************************************************************)
EXTENDS HostOwnership, TLAPS

\* What a call that is at a label has in hand.
Shape(l, c) ==
    l \notin {"idle", "dead"} =>
        /\ c.op \in Operation /\ c.host \in Host /\ c.repo \in Repo
        /\ l \in {"lock", "check"} =>
              /\ c.op # "bind"
              /\ c.op = "cycle" => c.seen \in Herdr
              /\ c.op = "wake" => c.herdr \in Herdr
        /\ l = "resolve" => c.op \in {"cycle", "wake"}
        /\ l = "discover" => c.op \in {"wake", "bind"}
        /\ l \in {"replace", "hash", "swap", "status"} =>
              c.op \in {"wake", "bind"} /\ c.herdr \in Herdr
        /\ l = "reread" => c.op = "wake" /\ c.herdr \in Herdr
        /\ l = "swap" => NextRevision(c.prior) <= MaxRevision
        /\ l \in {"point", "undo"} => c.op = "register" /\ c.herdr \in Herdr
        /\ l \in {"update", "write"} =>
              /\ c.op \in {"register", "unregister", "wake"}
              /\ c.op # "unregister" => c.herdr \in Herdr
        /\ l = "settle" => /\ c.op \in {"unregister", "wake"}
                           /\ c.op = "wake" => c.herdr \in Herdr
        /\ l \in {"update", "write", "settle"} /\ c.op = "wake" =>
              c.pointer \in Pointer
        /\ l = "write" => c.before \in [Repo -> Mapping]

FilesOK ==
    /\ pointer \in [Repo -> Pointer \cup {None}]
    /\ binding \in [Repo -> Binding \cup {None}]
    /\ archive \in [Repo -> SUBSET Binding]
    /\ registry \in [Host -> [Repo -> Mapping]]
    /\ legacy \subseteq Host
    /\ repoLock \in [Repo -> Proc \cup {None}]
    /\ hostLock \in [Host -> Proc \cup {None}]
    /\ live \subseteq Proc
    /\ inherited \subseteq Host \X Repo
    /\ torn \in [Repo -> SUBSET {"death", "refused", "stale"}]
    /\ spent \in [call : 0..MaxCalls, death : 0..MaxDeaths]

TypeInv ==
    /\ FilesOK
    /\ pc \in [Proc -> PcLabel]
    /\ call \in [Proc -> Call]
    /\ \A p \in Proc : Shape(pc[p], call[p])

-----------------------------------------------------------------------------
(***************************************************************************)
(* What a call may rely on under its locks                                 *)
(***************************************************************************)
Working == {"check", "point", "update", "write", "undo", "settle", "release"}

\* Between the read of a registry and its replacement: the mappings are those
\* that were read, unless the registry is yet to be migrated.
Knows(p) ==
    LET h == call[p].host
    IN /\ h \notin legacy => call[p].before = registry[h]
       /\ \A r \in Repo : call[p].before[r] = None <=> registry[h][r] = None

Held(p) ==
    /\ p \in live <=> pc[p] # "dead"
    /\ pc[p] \in Working => repoLock[call[p].repo] = p
    /\ pc[p] = "write" => hostLock[call[p].host] = p /\ Knows(p)

Mine(p) ==
    LET owner == pointer[call[p].repo]
    IN owner = None \/ owner.host = call[p].host

Midway(p) ==
    LET h == call[p].host
        r == call[p].repo
        op == call[p].op
    IN /\ pc[p] \in {"point", "update", "write", "settle"} => Mine(p)
       /\ pc[p] \in {"update", "write"} /\ op = "register" => pointer[r] # None
       /\ pc[p] \in {"update", "write", "settle"} /\ op = "wake" =>
             pointer[r] # None /\ call[p].pointer.host = h
       /\ pc[p] = "settle" /\ op = "unregister" => registry[h][r] = None
       /\ /\ pc[p] \in {"point", "update", "write", "undo"}
          /\ op = "register" /\ call[p].pointer = None
          => \A k \in Host : ~Registered(k, r)

IInv ==
    /\ TypeInv
    /\ RegisteredIsOwned
    /\ \A p \in Proc : Held(p) /\ Midway(p)

-----------------------------------------------------------------------------
(***************************************************************************)
(* Types                                                                   *)
(***************************************************************************)
\* A call stays one when a field of it gets a value of its kind.
LEMMA CallEdits ==
  ASSUME NEW c \in Call
  PROVE  /\ \A x \in Mapping : [c EXCEPT !.seen = x] \in Call
         /\ \A x \in Herdr : [c EXCEPT !.herdr = x] \in Call
         /\ \A x \in Pointer \cup {None} : [c EXCEPT !.pointer = x] \in Call
         /\ \A x \in [Repo -> Mapping] : [c EXCEPT !.before = x] \in Call
         /\ \A x \in Binding \cup {None} : [c EXCEPT !.prior = x] \in Call
         /\ \A x \in Binding \cup {None} : [c EXCEPT !.compared = x] \in Call
         /\ \A x \in 0..MaxTries : [c EXCEPT !.tries = x] \in Call
<1> USE DEF Call
<1>1. \A x \in Mapping : [c EXCEPT !.seen = x] \in Call
  OBVIOUS
<1>2. \A x \in Herdr : [c EXCEPT !.herdr = x] \in Call
  OBVIOUS
<1>3. \A x \in Pointer \cup {None} : [c EXCEPT !.pointer = x] \in Call
  OBVIOUS
<1>4. \A x \in [Repo -> Mapping] : [c EXCEPT !.before = x] \in Call
  OBVIOUS
<1>5. \A x \in Binding \cup {None} : [c EXCEPT !.prior = x] \in Call
  OBVIOUS
<1>6. \A x \in 0..MaxTries : [c EXCEPT !.tries = x] \in Call
  OBVIOUS
<1>7. \A x \in Binding \cup {None} : [c EXCEPT !.compared = x] \in Call
  OBVIOUS
<1>8. QED
  BY <1>1, <1>2, <1>3, <1>4, <1>5, <1>6, <1>7

\* A call that has ended has nothing in hand.
LEMMA IdleIsCall == Idle \in Call
  BY OwnershipAssumption DEF Idle, Call, Mapping

\* The files keep their kinds, and one process moves.
LEMMA Moves ==
  ASSUME TypeInv, FilesOK', NEW p \in Proc, NEW l \in PcLabel, NEW c \in Call,
         pc' = [pc EXCEPT ![p] = l], call' = [call EXCEPT ![p] = c], Shape(l, c)
  PROVE  TypeInv'
<1>1. pc' \in [Proc -> PcLabel] /\ call' \in [Proc -> Call]
  BY DEF TypeInv
<1>2. ASSUME NEW q \in Proc PROVE Shape(pc'[q], call'[q])
  <2>1. CASE q = p
    BY <2>1 DEF TypeInv
  <2>2. CASE q # p
    BY <2>2 DEF TypeInv
  <2>3. QED
    BY <2>1, <2>2
<1>3. QED
  BY <1>1, <1>2 DEF TypeInv

\* One process moves and its call stays as it is.
LEMMA GoesOn ==
  ASSUME TypeInv, FilesOK', NEW p \in Proc, NEW l \in PcLabel,
         Goes(p, l), UNCHANGED call, Shape(l, call[p])
  PROVE  TypeInv'
<1>1. call' = [call EXCEPT ![p] = call[p]] /\ call[p] \in Call
  BY DEF TypeInv
<1>2. QED
  BY <1>1, Moves DEF Goes

\* A call ends.
LEMMA Ends ==
  ASSUME TypeInv, FilesOK', NEW p \in Proc, Returns(p)
  PROVE  TypeInv'
<1>1. "idle" \in PcLabel /\ Shape("idle", Idle)
  BY DEF PcLabel, Shape
<1>2. QED
  BY <1>1, IdleIsCall, Moves DEF Returns

\* Whoever reads a registry finds mappings in it, with a pane where the
\* repository is bound.
LEMMA CurrentType ==
  ASSUME FilesOK, NEW h \in Host
  PROVE  /\ Current(h) \in [Repo -> Mapping]
         /\ \A r \in Repo : Current(h)[r] = None <=> registry[h][r] = None
<1>1. ASSUME NEW r \in Repo PROVE PaneOf(r) \in Mapping /\ PaneOf(r) # None
  <2>1. binding[r] # None => binding[r].herdr \in Herdr
    BY DEF FilesOK, Binding
  <2>2. QED
    BY <2>1, OwnershipAssumption DEF PaneOf, Mapping
<1>2. registry[h] \in [Repo -> Mapping]
  BY DEF FilesOK
<1>3. CASE h \in legacy
  BY <1>1, <1>2, <1>3 DEF Current, Migrated, Mapping
<1>4. CASE h \notin legacy
  BY <1>2, <1>4 DEF Current
<1>5. QED
  BY <1>3, <1>4

\* Only the history variables and the bounds of the files change.
LEMMA FilesKept ==
  ASSUME FilesOK, UNCHANGED <<mapping, session, locks, live, ghosts, spent>>
  PROVE  FilesOK'
  BY DEF FilesOK, mapping, session, locks, ghosts

LEMMA TypeInit == Init => TypeInv
<1> SUFFICES ASSUME Init PROVE TypeInv
  OBVIOUS
<1> USE OwnershipAssumption
<1>1. \A herdr \in Herdr : First(herdr) \in Binding
  BY DEF First, Binding
<1>2. binding \in [Repo -> Binding \cup {None}]
  <2> DEFINE Bound == {First(herdr) : herdr \in Herdr} \cup {None}
  <2>1. Bound \subseteq Binding \cup {None}
    BY <1>1
  <2>2. binding \in [Repo -> Bound]
    BY DEF Init
  <2> HIDE DEF Bound
  <2>3. QED
    BY <2>1, <2>2
<1>3. PICK owner \in [Repo -> Host \cup {None}] :
        /\ \A r \in Repo : owner[r] # None => binding[r] # None
        /\ pointer = [r \in Repo |->
              IF owner[r] = None THEN None
              ELSE [host |-> owner[r], herdr |-> binding[r].herdr]]
        /\ registry = [h \in Host |-> [r \in Repo |->
              IF owner[r] = h THEN binding[r].herdr
              ELSE IF <<h, r>> \in Legacy THEN Unpaired ELSE None]]
  BY DEF Init
<1>4. \A r \in Repo : binding[r] # None => binding[r].herdr \in Herdr
  BY <1>2 DEF Binding
<1>5. pointer \in [Repo -> Pointer \cup {None}]
  BY <1>3, <1>4 DEF Pointer
<1>6. registry \in [Host -> [Repo -> Mapping]]
  BY <1>3, <1>4 DEF Mapping
<1>7. archive \in [Repo -> SUBSET Binding]
  BY <1>2 DEF Init
<1>8. legacy \subseteq Host /\ inherited \subseteq Host \X Repo
  <2>1. legacy = {s[1] : s \in Legacy} /\ inherited = Legacy
    BY DEF Init
  <2>2. \A s \in Legacy : s \in Host \X Repo /\ s[1] \in Host
    OBVIOUS
  <2>3. QED
    BY <2>1, <2>2
<1>9. /\ repoLock \in [Repo -> Proc \cup {None}]
      /\ hostLock \in [Host -> Proc \cup {None}]
      /\ live \subseteq Proc
      /\ torn \in [Repo -> SUBSET {"death", "refused", "stale"}]
      /\ spent \in [call : 0..MaxCalls, death : 0..MaxDeaths]
  <2>1. /\ repoLock = [r \in Repo |-> None] /\ hostLock = [h \in Host |-> None]
        /\ live = Proc /\ torn = [r \in Repo |-> {}]
        /\ spent = [call |-> 0, death |-> 0]
    BY DEF Init
  <2>2. spent \in [call : 0..MaxCalls, death : 0..MaxDeaths]
    BY <2>1
  <2>3. QED
    BY <2>1, <2>2
<1>10. FilesOK
  BY <1>2, <1>5, <1>6, <1>7, <1>8, <1>9 DEF FilesOK
<1>11. /\ pc \in [Proc -> PcLabel] /\ call \in [Proc -> Call]
       /\ \A p \in Proc : Shape(pc[p], call[p])
  BY IdleIsCall DEF Init, PcLabel, Shape
<1>12. QED
  BY <1>10, <1>11 DEF TypeInv

LEMMA CallTypes ==
  ASSUME TypeInv, NEW p \in Proc,
         Register(p) \/ Unregister(p) \/ Cycle(p) \/ Wake(p) \/ Bind(p)
  PROVE  TypeInv'
<1> DEFINE new(op, s) ==
      [op |-> op, host |-> s[1], repo |-> s[2], seen |-> None, herdr |-> None,
       pointer |-> None, before |-> None, prior |-> None, compared |-> None,
       tries |-> 0]
<1>1. PICK op \in Operation, label \in {"lock", "resolve", "discover"},
           s \in Serves :
        /\ Goes(p, label) /\ call' = [call EXCEPT ![p] = new(op, s)]
        /\ label = "lock" => op \in {"register", "unregister"}
        /\ label = "resolve" => op \in {"cycle", "wake"}
        /\ label = "discover" => op = "bind"
  <2>1. CASE Register(p)
    BY <2>1 DEF Register, Calls, Operation
  <2>2. CASE Unregister(p)
    BY <2>2 DEF Unregister, Calls, Operation
  <2>3. CASE Cycle(p)
    BY <2>3 DEF Cycle, Calls, Operation
  <2>4. CASE Wake(p)
    BY <2>4 DEF Wake, Calls, Operation
  <2>5. CASE Bind(p)
    BY <2>5 DEF Bind, Calls, Operation
  <2>6. QED
    BY <2>1, <2>2, <2>3, <2>4, <2>5
<1>2. /\ spent.call < MaxCalls
      /\ spent' = [call |-> spent.call + 1, death |-> spent.death]
      /\ UNCHANGED <<mapping, session, locks, live, ghosts>>
  BY DEF Register, Unregister, Cycle, Wake, Bind, Calls
<1>3. FilesOK'
  <2>1. spent' \in [call : 0..MaxCalls, death : 0..MaxDeaths]
    BY <1>2, OwnershipAssumption DEF TypeInv, FilesOK
  <2>2. QED
    BY <1>2, <2>1 DEF TypeInv, FilesOK, mapping, session, locks, ghosts
<1>4. s[1] \in Host /\ s[2] \in Repo
  BY OwnershipAssumption
<1>5. new(op, s) \in Call
  BY <1>4, OwnershipAssumption DEF Call, Mapping
<1>6. Shape(label, new(op, s))
  BY <1>1, <1>4 DEF Shape
<1>7. label \in PcLabel
  BY DEF PcLabel
<1>8. QED
  BY <1>1, <1>3, <1>5, <1>6, <1>7, Moves DEF Goes

LEMMA LockRepoTypes ==
  ASSUME TypeInv, NEW p \in Proc, LockRepo(p)
  PROVE  TypeInv'
<1>1. Shape("lock", call[p])
  BY DEF TypeInv, LockRepo
<1>2. FilesOK'
  BY DEF TypeInv, FilesOK, LockRepo, mapping, session, ghosts
<1>3. CASE Returns(p)
  BY <1>2, <1>3, Ends
<1>4. CASE Goes(p, "check") /\ UNCHANGED call
  <2>1. Shape("check", call[p])
    BY <1>1 DEF Shape
  <2>2. "check" \in PcLabel
    BY DEF PcLabel
  <2>3. QED
    BY <1>2, <1>4, <2>1, <2>2, GoesOn
<1>5. QED
  BY <1>3, <1>4 DEF LockRepo

LEMMA ReleaseTypes ==
  ASSUME TypeInv, NEW p \in Proc, Release(p)
  PROVE  TypeInv'
<1>1. FilesOK'
  BY DEF TypeInv, FilesOK, Release, mapping, session, ghosts
<1>2. QED
  BY <1>1, Ends DEF Release

LEMMA ResolveTypes ==
  ASSUME TypeInv, NEW p \in Proc, Resolve(p)
  PROVE  TypeInv'
<1> DEFINE h == call[p].host
           r == call[p].repo
           seen == Current(h)[r]
           label == IF pc[p] = "resolve" /\ call[p].op = "wake"
                    THEN "discover" ELSE "lock"
<1>1. pc[p] \in {"resolve", "reread"} /\ Shape(pc[p], call[p])
  BY DEF TypeInv, Resolve
<1>2. h \in Host /\ r \in Repo /\ call[p] \in Call
  BY <1>1 DEF Shape, TypeInv
<1>3. Current(h) \in [Repo -> Mapping] /\ seen \in Mapping
  BY <1>2, CurrentType DEF TypeInv
<1>4. FilesOK'
  <2>1. registry' = [registry EXCEPT ![h] = Current(h)] \/ registry' = registry
    BY DEF Resolve
  <2>2. registry' \in [Host -> [Repo -> Mapping]]
    BY <1>3, <2>1 DEF TypeInv, FilesOK
  <2>3. legacy' \subseteq Host /\ UNCHANGED <<pointer, session, locks, live, ghosts, spent>>
    BY DEF Resolve, TypeInv, FilesOK
  <2>4. QED
    BY <2>2, <2>3 DEF TypeInv, FilesOK, session, locks, ghosts
<1>5. CASE Returns(p)
  BY <1>4, <1>5, Ends
<1>6. CASE /\ Proceeds(p, seen) /\ call' = [call EXCEPT ![p].seen = seen]
           /\ Goes(p, label)
  <2>1. [call[p] EXCEPT !.seen = seen] \in Call
    BY <1>2, <1>3, CallEdits
  <2>2. Shape(label, [call[p] EXCEPT !.seen = seen])
    <3>1. call[p].op = "cycle" => seen \in Herdr
      BY <1>6 DEF Proceeds
    <3>2. /\ call[p].op \in {"cycle", "wake"} /\ call[p].op \in Operation
          /\ pc[p] = "reread" => call[p].op = "wake" /\ call[p].herdr \in Herdr
      BY <1>1 DEF Shape
    <3>3. /\ [call[p] EXCEPT !.seen = seen].op = call[p].op
          /\ [call[p] EXCEPT !.seen = seen].host = h
          /\ [call[p] EXCEPT !.seen = seen].repo = r
          /\ [call[p] EXCEPT !.seen = seen].herdr = call[p].herdr
          /\ [call[p] EXCEPT !.seen = seen].seen = seen
      BY <1>2 DEF Call
    <3> HIDE DEF h, r, seen
    <3>4. CASE label = "discover"
      BY <1>2, <3>2, <3>3, <3>4 DEF Shape
    <3>5. CASE label = "lock" /\ call[p].op = "cycle"
      BY <1>2, <3>1, <3>2, <3>3, <3>5 DEF Shape
    <3>6. CASE label = "lock" /\ call[p].op = "wake" /\ pc[p] = "reread"
      BY <1>2, <3>2, <3>3, <3>6 DEF Shape
    <3>7. QED
      BY <1>1, <3>2, <3>4, <3>5, <3>6
  <2>3. label \in PcLabel
    BY DEF PcLabel
  <2>4. call' = [call EXCEPT ![p] = [call[p] EXCEPT !.seen = seen]]
    BY <1>6
  <2>5. QED
    BY <1>4, <1>6, <2>1, <2>2, <2>3, <2>4, Moves DEF Goes
<1>7. QED
  BY <1>5, <1>6 DEF Resolve

\* A failed update goes on in the call it belongs to.
LEMMA FailShape ==
  ASSUME NEW c, Shape("update", c) \/ Shape("write", c)
  PROVE  /\ c.op = "register" => Shape("undo", c)
         /\ Shape("release", c)
  BY DEF Shape

LEMMA FailTypes ==
  ASSUME TypeInv, FilesOK', NEW p \in Proc, pc[p] \in {"update", "write"},
         Fails(p), UNCHANGED call
  PROVE  TypeInv'
<1>1. Shape("update", call[p]) \/ Shape("write", call[p])
  BY DEF TypeInv
<1>2. "undo" \in PcLabel /\ "release" \in PcLabel
  BY DEF PcLabel
<1>3. QED
  BY <1>1, <1>2, FailShape, GoesOn DEF Fails

LEMMA ReadRegistryTypes ==
  ASSUME TypeInv, NEW p \in Proc, ReadRegistry(p)
  PROVE  TypeInv'
<1> DEFINE h == call[p].host
           c == [call[p] EXCEPT !.before = Current(h)]
<1>1. pc[p] = "update" /\ Shape("update", call[p]) /\ call[p] \in Call
  BY DEF TypeInv, ReadRegistry
<1>2. h \in Host
  BY <1>1 DEF Shape
<1>3. FilesOK'
  BY <1>2 DEF TypeInv, FilesOK, ReadRegistry, mapping, session, ghosts
<1>4. CASE Fails(p) /\ UNCHANGED call
  BY <1>1, <1>3, <1>4, FailTypes
<1>5. CASE call' = [call EXCEPT ![p].before = Current(h)] /\ Goes(p, "write")
  <2>1. Current(h) \in [Repo -> Mapping]
    BY <1>2, CurrentType DEF TypeInv
  <2>2. c \in Call
    BY <1>1, <2>1, CallEdits
  <2>4. /\ c.op = call[p].op /\ c.host = h /\ c.repo = call[p].repo
        /\ c.herdr = call[p].herdr /\ c.pointer = call[p].pointer
        /\ c.before = Current(h)
    BY <1>1 DEF Call
  <2> HIDE DEF c
  <2>5. Shape("write", c)
    BY <1>1, <2>1, <2>4 DEF Shape
  <2>6. "write" \in PcLabel /\ call' = [call EXCEPT ![p] = c]
    BY <1>5 DEF PcLabel, c
  <2>7. QED
    BY <1>3, <1>5, <2>2, <2>5, <2>6, Moves DEF Goes
<1>6. QED
  BY <1>4, <1>5 DEF ReadRegistry

\* What is written is a registry, and the call goes on with its value in hand.
LEMMA ReplacesTypes ==
  ASSUME TypeInv, NEW p \in Proc, pc[p] = "write",
         NEW value \in Mapping, NEW label \in PcLabel, Shape(label, call[p]),
         Replaces(p, value, label), UNCHANGED call,
         hostLock' = [hostLock EXCEPT ![call[p].host] = None],
         UNCHANGED <<pointer, session, repoLock, live, torn, spent>>
  PROVE  TypeInv'
<1> DEFINE h == call[p].host
           r == call[p].repo
           next == [call[p].before EXCEPT ![r] = value]
<1>1. Shape("write", call[p])
  BY DEF TypeInv
<1>2. h \in Host /\ r \in Repo /\ call[p].before \in [Repo -> Mapping]
  BY <1>1 DEF Shape
<1>3. next \in [Repo -> Mapping]
  BY <1>2
<1>4. \/ /\ registry' = [registry EXCEPT ![h] = next]
         /\ legacy' = legacy \ {h}
         /\ inherited' \subseteq inherited
         /\ Goes(p, label)
      \/ Fails(p) /\ UNCHANGED <<registry, legacy, inherited>>
  BY DEF Replaces
<1>5. FilesOK'
  <2>1. registry' \in [Host -> [Repo -> Mapping]]
    BY <1>2, <1>3, <1>4 DEF TypeInv, FilesOK
  <2>2. hostLock' \in [Host -> Proc \cup {None}]
    BY <1>2 DEF TypeInv, FilesOK
  <2>3. legacy' \subseteq Host /\ inherited' \subseteq Host \X Repo
    BY <1>4 DEF TypeInv, FilesOK
  <2>4. QED
    BY <2>1, <2>2, <2>3 DEF TypeInv, FilesOK, session
<1>6. QED
  BY <1>4, <1>5, FailTypes, GoesOn

LEMMA WriteRegistryTypes ==
  ASSUME TypeInv, NEW p \in Proc, WriteRegistry(p)
  PROVE  TypeInv'
<1>1. /\ pc[p] = "write" /\ Shape("write", call[p])
      /\ hostLock' = [hostLock EXCEPT ![call[p].host] = None]
      /\ UNCHANGED <<pointer, session, repoLock, live, call, torn, spent>>
  BY DEF TypeInv, WriteRegistry
<1>2. call[p].op \in {"register", "unregister", "wake"}
  BY <1>1 DEF Shape
<1>3. CASE call[p].op = "register"
  <2>1. Replaces(p, call[p].herdr, "release")
    BY <1>1, <1>3 DEF WriteRegistry, RegisterMapping
  <2>2. /\ call[p].herdr \in Mapping /\ "release" \in PcLabel
        /\ Shape("release", call[p])
    BY <1>1, <1>3 DEF Shape, Mapping, PcLabel
  <2>3. QED
    BY <1>1, <2>1, <2>2, ReplacesTypes
<1>4. CASE call[p].op = "unregister"
  <2>1. Replaces(p, None, "settle")
    BY <1>1, <1>4 DEF WriteRegistry, DropMapping
  <2>2. None \in Mapping /\ "settle" \in PcLabel /\ Shape("settle", call[p])
    BY <1>1, <1>4 DEF Shape, Mapping, PcLabel
  <2>3. QED
    BY <1>1, <2>1, <2>2, ReplacesTypes
<1>5. CASE call[p].op = "wake"
  <2>1. RefreshMapping(p)
    BY <1>1, <1>5 DEF WriteRegistry
  <2>2. /\ call[p].herdr \in Mapping /\ "settle" \in PcLabel
        /\ Shape("settle", call[p])
    BY <1>1, <1>5 DEF Shape, Mapping, PcLabel
  <2>3. CASE Replaces(p, call[p].herdr, "settle")
    BY <1>1, <2>2, <2>3, ReplacesTypes
  <2>4. CASE Fails(p) /\ UNCHANGED <<registry, legacy, inherited>>
    <3>1. FilesOK'
      <4>1. call[p].host \in Host
        BY <1>1 DEF Shape
      <4>2. QED
        BY <1>1, <2>4, <4>1 DEF TypeInv, FilesOK, session
    <3>2. QED
      BY <1>1, <2>4, <3>1, FailTypes
  <2>5. QED
    BY <2>1, <2>3, <2>4 DEF RefreshMapping
<1>6. QED
  BY <1>2, <1>3, <1>4, <1>5

LEMMA CheckTypes ==
  ASSUME TypeInv, NEW p \in Proc, Check(p)
  PROVE  TypeInv'
<1> DEFINE h == call[p].host
           r == call[p].repo
<1>1. /\ Shape("check", call[p]) /\ call[p] \in Call
      /\ UNCHANGED <<registry, legacy, session, locks, live, inherited, spent>>
  BY DEF TypeInv, Check
<1>2. /\ h \in Host /\ r \in Repo
      /\ call[p].op \in {"register", "unregister", "cycle", "wake"}
  BY <1>1 DEF Shape, Operation
<1>3. pointer[r] \in Pointer \cup {None}
  BY <1>2 DEF TypeInv, FilesOK
<1>4. Shape("release", call[p])
  BY <1>1 DEF Shape
<1>5. /\ "release" \in PcLabel /\ "point" \in PcLabel /\ "update" \in PcLabel
      /\ "settle" \in PcLabel
  BY DEF PcLabel
<1>6. ASSUME UNCHANGED <<pointer, torn>> PROVE FilesOK'
  BY <1>1, <1>6 DEF TypeInv, FilesOK, session, locks
<1>7. CASE call[p].op = "register"
  <2> DEFINE c == [op |-> "register", host |-> h, repo |-> r, seen |-> None,
                   herdr |-> binding[r].herdr, pointer |-> pointer[r],
                   before |-> None, prior |-> None, compared |-> None,
                   tries |-> 0]
  <2>1. CheckRegister(p)
    BY <1>7 DEF Check
  <2>2. FilesOK'
    BY <1>6, <2>1 DEF CheckRegister
  <2>3. CASE Goes(p, "release") /\ UNCHANGED call
    BY <1>4, <1>5, <2>2, <2>3, GoesOn
  <2>4. CASE /\ binding[r] # None /\ call' = [call EXCEPT ![p] = c]
             /\ Goes(p, "point")
    <3>1. binding[r].herdr \in Herdr
      BY <1>2, <2>4 DEF TypeInv, FilesOK, Binding
    <3>2. c \in Call
      BY <1>2, <1>3, <3>1, OwnershipAssumption DEF Call, Mapping, Operation
    <3>3. Shape("point", c)
      BY <1>2, <3>1 DEF Shape, Operation
    <3>4. QED
      BY <1>5, <2>2, <2>4, <3>2, <3>3, Moves DEF Goes
  <2>5. QED
    BY <2>1, <2>3, <2>4 DEF CheckRegister
<1>8. CASE call[p].op = "unregister"
  <2> DEFINE c == [call[p] EXCEPT !.pointer = pointer[r]]
  <2>1. CheckUnregister(p)
    BY <1>8 DEF Check
  <2>2. FilesOK'
    BY <1>6, <2>1 DEF CheckUnregister
  <2>3. CASE Goes(p, "release") /\ UNCHANGED call
    BY <1>4, <1>5, <2>2, <2>3, GoesOn
  <2>4. CASE call' = [call EXCEPT ![p].pointer = pointer[r]] /\ Goes(p, "update")
    <3>1. c \in Call
      BY <1>1, <1>3, CallEdits
    <3>2. c.op = "unregister" /\ c.host = h /\ c.repo = r
      BY <1>1, <1>8 DEF Call
    <3>3. call' = [call EXCEPT ![p] = c]
      BY <2>4
    <3> HIDE DEF c
    <3>4. Shape("update", c)
      BY <1>2, <3>2 DEF Shape, Operation
    <3>5. QED
      BY <1>5, <2>2, <2>4, <3>1, <3>3, <3>4, Moves DEF Goes
  <2>5. QED
    BY <2>1, <2>3, <2>4 DEF CheckUnregister
<1>9. CASE call[p].op = "cycle"
  <2>1. Establish(p)
    BY <1>9 DEF Check
  <2>2. call[p].seen \in Herdr
    BY <1>1, <1>9 DEF Shape
  <2>3. [host |-> h, herdr |-> call[p].seen] \in Pointer
    BY <1>2, <2>2 DEF Pointer
  <2>4. /\ pointer' = [pointer EXCEPT ![r] = [host |-> h, herdr |-> call[p].seen]]
           \/ pointer' = pointer
        /\ \/ torn' = torn
           \/ torn' = [torn EXCEPT ![r] = IF registry[h][r] = call[p].seen
                                         THEN @ ELSE @ \cup {"stale"}]
    BY <2>1 DEF Establish
  <2>5. pointer' \in [Repo -> Pointer \cup {None}]
    BY <2>3, <2>4 DEF TypeInv, FilesOK
  <2>6. torn' \in [Repo -> SUBSET {"death", "refused", "stale"}]
    BY <2>4 DEF TypeInv, FilesOK
  <2>7. FilesOK'
    BY <1>1, <2>5, <2>6 DEF TypeInv, FilesOK, session, locks
  <2>8. Goes(p, "release") /\ UNCHANGED call
    BY <2>1 DEF Establish
  <2>9. QED
    BY <1>4, <1>5, <2>7, <2>8, GoesOn
<1>10. CASE call[p].op = "wake"
  <2> DEFINE c == [call[p] EXCEPT !.pointer = pointer[r]]
             label == IF call[p].seen = call[p].herdr THEN "settle" ELSE "update"
  <2>1. CheckWake(p)
    BY <1>10 DEF Check
  <2>2. FilesOK'
    BY <1>6, <2>1 DEF CheckWake
  <2>3. CASE Goes(p, "release") /\ UNCHANGED call
    BY <1>4, <1>5, <2>2, <2>3, GoesOn
  <2>4. CASE /\ pointer[r] # None /\ Goes(p, label)
             /\ call' = [call EXCEPT ![p].pointer = pointer[r]]
    <3>1. c \in Call
      BY <1>1, <1>3, CallEdits
    <3>2. /\ c.op = "wake" /\ c.host = h /\ c.repo = r
          /\ c.herdr = call[p].herdr /\ c.pointer = pointer[r]
      BY <1>1, <1>10 DEF Call
    <3>3. call' = [call EXCEPT ![p] = c]
      BY <2>4
    <3>4. call[p].herdr \in Herdr /\ pointer[r] \in Pointer
      BY <1>1, <1>3, <1>10, <2>4 DEF Shape
    <3> HIDE DEF c
    <3>5. Shape(label, c)
      BY <1>2, <3>2, <3>4 DEF Shape, Operation
    <3>6. label \in PcLabel
      BY <1>5
    <3>7. QED
      BY <2>2, <2>4, <3>1, <3>3, <3>5, <3>6, Moves DEF Goes
  <2>5. QED
    BY <2>1, <2>3, <2>4 DEF CheckWake
<1>11. QED
  BY <1>2, <1>7, <1>8, <1>9, <1>10

\* The writes of the pointer.
LEMMA PointerTypes ==
  ASSUME TypeInv, NEW p \in Proc, Point(p) \/ Undo(p) \/ Unlink(p) \/ Repoint(p)
  PROVE  TypeInv'
<1> DEFINE r == call[p].repo
<1>1. Shape(pc[p], call[p])
  BY DEF TypeInv
<1>2. /\ UNCHANGED <<registry, legacy, session, locks, live, call, inherited, spent>>
      /\ pc[p] \in {"point", "undo", "settle"}
  BY DEF Point, Undo, Unlink, Repoint, ghosts
<1>3. r \in Repo /\ call[p].host \in Host
  BY <1>1, <1>2 DEF Shape
<1>4. PICK x \in Pointer \cup {None} :
        pointer' = [pointer EXCEPT ![r] = x] \/ pointer' = pointer
  <2>1. CASE Point(p)
    <3>1. [host |-> call[p].host, herdr |-> call[p].herdr] \in Pointer
      BY <1>1, <2>1 DEF Shape, Point, Pointer
    <3>2. QED
      BY <2>1, <3>1 DEF Point
  <2>2. CASE Undo(p)
    BY <2>2 DEF Undo
  <2>3. CASE Unlink(p)
    BY <2>3 DEF Unlink
  <2>4. CASE Repoint(p)
    <3>1. call[p].herdr \in Herdr /\ call[p].pointer \in Pointer
      BY <1>1, <2>4 DEF Shape, Repoint
    <3>2. [host |-> call[p].pointer.host, herdr |-> call[p].herdr] \in Pointer
      BY <3>1 DEF Pointer
    <3>3. QED
      BY <2>4, <3>2 DEF Repoint
  <2>5. QED
    BY <2>1, <2>2, <2>3, <2>4
<1>5. torn' \in [Repo -> SUBSET {"death", "refused", "stale"}]
  <2>1. CASE Undo(p)
    BY <2>1 DEF TypeInv, FilesOK, Undo
  <2>2. CASE Repoint(p)
    BY <2>2 DEF TypeInv, FilesOK, Repoint
  <2>3. CASE Point(p) \/ Unlink(p)
    BY <2>3 DEF TypeInv, FilesOK, Point, Unlink, ghosts
  <2>4. QED
    BY <2>1, <2>2, <2>3
<1>6. FilesOK'
  <2>1. pointer' \in [Repo -> Pointer \cup {None}]
    BY <1>3, <1>4 DEF TypeInv, FilesOK
  <2>2. QED
    BY <1>2, <1>5, <2>1 DEF TypeInv, FilesOK, session, locks
<1>7. CASE Goes(p, "update") /\ pc[p] = "point"
  <2>1. Shape("update", call[p]) /\ "update" \in PcLabel
    BY <1>1, <1>7 DEF Shape, PcLabel
  <2>2. QED
    BY <1>2, <1>6, <1>7, <2>1, GoesOn
<1>8. CASE Goes(p, "release")
  <2>1. Shape("release", call[p]) /\ "release" \in PcLabel
    BY <1>1, <1>2 DEF Shape, PcLabel
  <2>2. QED
    BY <1>2, <1>6, <1>8, <2>1, GoesOn
<1>9. QED
  BY <1>7, <1>8 DEF Point, Undo, Unlink, Repoint

LEMMA DiscoverTypes ==
  ASSUME TypeInv, NEW p \in Proc, Discover(p)
  PROVE  TypeInv'
<1>1. Shape("discover", call[p]) /\ call[p] \in Call
  BY DEF TypeInv, Discover
<1>2. FilesOK'
  BY FilesKept DEF TypeInv, Discover
<1>3. CASE Returns(p)
  BY <1>2, <1>3, Ends
<1>4. ASSUME NEW herdr \in Herdr, call' = [call EXCEPT ![p].herdr = herdr],
             Goes(p, "replace")
      PROVE  TypeInv'
  <2> DEFINE c == [call[p] EXCEPT !.herdr = herdr]
  <2>1. c \in Call
    BY <1>1, CallEdits
  <2>2. c.op = call[p].op /\ c.host = call[p].host /\ c.repo = call[p].repo
        /\ c.herdr = herdr
    BY <1>1 DEF Call
  <2>3. call' = [call EXCEPT ![p] = c]
    BY <1>4
  <2> HIDE DEF c
  <2>4. Shape("replace", c) /\ "replace" \in PcLabel
    BY <1>1, <2>2 DEF Shape, PcLabel
  <2>5. QED
    BY <1>2, <1>4, <2>1, <2>3, <2>4, Moves DEF Goes
<1>5. \A herdr \in Frontend(p) : herdr \in Herdr
  BY DEF Frontend
<1>6. QED
  BY <1>3, <1>4, <1>5 DEF Discover

\* A binding has a next revision as long as the bound allows one.
LEMMA NewBindingType ==
  ASSUME NEW b \in Binding \cup {None}, NEW herdr \in Herdr,
         NextRevision(b) <= MaxRevision
  PROVE  NewBinding(b, herdr) \in Binding
<1>1. NextRevision(b) \in 1..MaxRevision
  BY OwnershipAssumption DEF Binding, NextRevision
<1>2. QED
  BY <1>1 DEF NewBinding, Binding

LEMMA ReadBindingTypes ==
  ASSUME TypeInv, NEW p \in Proc, ReadBinding(p)
  PROVE  TypeInv'
<1> DEFINE prior == binding[call[p].repo]
           c == [call[p] EXCEPT !.prior = prior]
<1>1. /\ Shape("replace", call[p]) /\ call[p] \in Call
      /\ call' = [call EXCEPT ![p] = c] /\ Goes(p, "hash")
  BY DEF TypeInv, ReadBinding
<1>2. prior \in Binding \cup {None}
  BY <1>1 DEF Shape, TypeInv, FilesOK
<1>3. FilesOK'
  BY FilesKept DEF TypeInv, ReadBinding
<1>4. c \in Call
  BY <1>1, <1>2, CallEdits
<1>5. /\ c.op = call[p].op /\ c.host = call[p].host /\ c.repo = call[p].repo
      /\ c.herdr = call[p].herdr
  BY <1>1 DEF Call
<1> HIDE DEF c
<1>6. Shape("hash", c) /\ "hash" \in PcLabel
  BY <1>1, <1>5 DEF Shape, PcLabel
<1>7. QED
  BY <1>1, <1>3, <1>4, <1>6, Moves DEF Goes

LEMMA HashBindingTypes ==
  ASSUME TypeInv, NEW p \in Proc, HashBinding(p)
  PROVE  TypeInv'
<1> DEFINE r == call[p].repo
           prior == call[p].prior
           compared == IF prior = None THEN None ELSE binding[r]
           new == NewBinding(prior, call[p].herdr)
           c == [call[p] EXCEPT !.compared = compared]
<1>1. /\ Shape("hash", call[p]) /\ call[p] \in Call
      /\ UNCHANGED <<mapping, binding, locks, live, ghosts, spent>>
  BY DEF TypeInv, HashBinding
<1>2. r \in Repo /\ call[p].herdr \in Herdr /\ prior \in Binding \cup {None}
  BY <1>1 DEF Shape, Call
<1>3. compared \in Binding \cup {None}
  BY <1>2 DEF TypeInv, FilesOK
<1>4. "status" \in PcLabel /\ "swap" \in PcLabel
  BY DEF PcLabel
<1> HIDE DEF compared
<1>5. CASE Goes(p, "status") /\ UNCHANGED <<archive, call>>
  <2>1. FilesOK'
    BY <1>1, <1>5 DEF TypeInv, FilesOK, mapping, locks, ghosts
  <2>2. Shape("status", call[p])
    BY <1>1 DEF Shape
  <2>3. QED
    BY <1>4, <1>5, <2>1, <2>2, GoesOn
<1>6. CASE /\ NextRevision(prior) <= MaxRevision /\ Goes(p, "swap")
           /\ Archives(r, prior, compared, new)
           /\ call' = [call EXCEPT ![p].compared = compared]
  <2>1. new \in Binding
    BY <1>2, <1>6, NewBindingType
  <2>2. archive' \in [Repo -> SUBSET Binding]
    <3> HIDE DEF new
    <3>1. Archived(r, prior, compared) \cup {new} \in SUBSET Binding
      BY <1>2, <2>1 DEF Archived
    <3>2. QED
      BY <1>2, <1>6, <3>1 DEF Archives, TypeInv, FilesOK
  <2>3. FilesOK'
    BY <1>1, <2>2 DEF TypeInv, FilesOK, mapping, locks, ghosts
  <2>4. c \in Call /\ call' = [call EXCEPT ![p] = c]
    BY <1>1, <1>3, <1>6, CallEdits
  <2>5. /\ c.op = call[p].op /\ c.host = call[p].host /\ c.repo = r
        /\ c.herdr = call[p].herdr /\ c.prior = prior
    BY <1>1 DEF Call
  <2> HIDE DEF c
  <2>6. Shape("swap", c)
    BY <1>1, <1>6, <2>5 DEF Shape
  <2>7. QED
    BY <1>4, <1>6, <2>3, <2>4, <2>6, Moves DEF Goes
<1>7. QED
  BY <1>5, <1>6 DEF HashBinding, compared

LEMMA SwapBindingTypes ==
  ASSUME TypeInv, NEW p \in Proc, SwapBinding(p)
  PROVE  TypeInv'
<1> DEFINE r == call[p].repo
           new == NewBinding(call[p].prior, call[p].herdr)
           won == [[call[p] EXCEPT !.prior = new] EXCEPT !.compared = None]
           lost == [[call[p] EXCEPT !.compared = None]
                        EXCEPT !.tries = call[p].tries + 1]
<1>1. /\ Shape("swap", call[p]) /\ call[p] \in Call
      /\ UNCHANGED <<mapping, archive, locks, live, ghosts, spent>>
  BY DEF TypeInv, SwapBinding
<1>2. /\ r \in Repo /\ call[p].herdr \in Herdr
      /\ call[p].op \in {"wake", "bind"}
      /\ NextRevision(call[p].prior) <= MaxRevision
  BY <1>1 DEF Shape
<1>3. new \in Binding
  BY <1>1, <1>2, NewBindingType DEF Call
<1>4. "status" \in PcLabel /\ "replace" \in PcLabel
  BY DEF PcLabel
<1>5. ASSUME UNCHANGED binding PROVE FilesOK'
  BY <1>1, <1>5 DEF TypeInv, FilesOK, mapping, locks, ghosts
<1>6. CASE /\ binding' = [binding EXCEPT ![r] = new]
           /\ call' = [call EXCEPT ![p].prior = new, ![p].compared = None]
           /\ Goes(p, "status")
  <2>1. binding' \in [Repo -> Binding \cup {None}]
    <3> HIDE DEF new
    <3>1. QED
      BY <1>2, <1>3, <1>6 DEF TypeInv, FilesOK
  <2>2. FilesOK'
    BY <1>1, <2>1 DEF TypeInv, FilesOK, mapping, locks, ghosts
  <2>3. won \in Call
    <3>1. [call[p] EXCEPT !.prior = new] \in Call
      BY <1>1, <1>3, CallEdits
    <3>2. QED
      BY <3>1, CallEdits
  <2>4. /\ won.op = call[p].op /\ won.host = call[p].host /\ won.repo = r
        /\ won.herdr = call[p].herdr
    BY <1>1 DEF Call
  <2>5. call' = [call EXCEPT ![p] = won]
    BY <1>1, <1>6 DEF TypeInv
  <2> HIDE DEF won
  <2>6. Shape("status", won)
    BY <1>1, <2>4 DEF Shape
  <2>7. QED
    BY <1>4, <1>6, <2>2, <2>3, <2>5, <2>6, Moves DEF Goes
<1>7. CASE /\ call[p].tries + 1 < MaxTries /\ UNCHANGED binding
           /\ call' = [call EXCEPT ![p].compared = None, ![p].tries = @ + 1]
           /\ Goes(p, "replace")
  <2>1. call[p].tries + 1 \in 0..MaxTries
    BY <1>1, <1>7, OwnershipAssumption DEF Call
  <2>2. lost \in Call
    <3>1. [call[p] EXCEPT !.compared = None] \in Call
      BY <1>1, CallEdits
    <3>2. QED
      BY <2>1, <3>1, CallEdits
  <2>3. /\ lost.op = call[p].op /\ lost.host = call[p].host /\ lost.repo = r
        /\ lost.herdr = call[p].herdr
    BY <1>1 DEF Call
  <2>4. call' = [call EXCEPT ![p] = lost]
    BY <1>1, <1>7 DEF TypeInv
  <2> HIDE DEF lost
  <2>5. Shape("replace", lost)
    BY <1>1, <2>3 DEF Shape
  <2>6. QED
    BY <1>4, <1>5, <1>7, <2>2, <2>4, <2>5, Moves DEF Goes
<1>8. CASE Returns(p) /\ UNCHANGED binding
  BY <1>5, <1>8, Ends
<1>9. QED
  BY <1>6, <1>7, <1>8 DEF SwapBinding

LEMMA StatusTypes ==
  ASSUME TypeInv, NEW p \in Proc, Status(p)
  PROVE  TypeInv'
<1>1. Shape("status", call[p])
  BY DEF TypeInv, Status
<1>2. FilesOK'
  BY FilesKept DEF TypeInv, Status
<1>3. CASE Returns(p)
  BY <1>2, <1>3, Ends
<1>4. CASE call[p].op = "wake" /\ Goes(p, "reread") /\ UNCHANGED call
  <2>1. Shape("reread", call[p]) /\ "reread" \in PcLabel
    BY <1>1, <1>4 DEF Shape, PcLabel
  <2>2. QED
    BY <1>2, <1>4, <2>1, GoesOn
<1>5. QED
  BY <1>3, <1>4 DEF Status

LEMMA DieTypes ==
  ASSUME TypeInv, NEW p \in Proc, Die(p)
  PROVE  TypeInv'
<1>1. torn' \in [Repo -> SUBSET {"death", "refused", "stale"}]
  BY DEF TypeInv, FilesOK, Die
<1>2. spent' \in [call : 0..MaxCalls, death : 0..MaxDeaths]
  BY OwnershipAssumption DEF TypeInv, FilesOK, Die
<1>3. FilesOK'
  BY <1>1, <1>2 DEF TypeInv, FilesOK, Die, mapping, session, locks
<1>4. Shape("dead", call[p]) /\ "dead" \in PcLabel
  BY DEF Shape, PcLabel
<1>5. QED
  BY <1>3, <1>4, GoesOn DEF Die, Goes

LEMMA TypeStep == TypeInv /\ [Next]_vars => TypeInv'
<1> SUFFICES ASSUME TypeInv, [Next]_vars PROVE TypeInv'
  OBVIOUS
<1>1. ASSUME NEW p \in live, Step(p) PROVE TypeInv'
  <2>1. p \in Proc
    BY DEF TypeInv, FilesOK
  <2>2. CASE Register(p) \/ Unregister(p) \/ Cycle(p) \/ Wake(p) \/ Bind(p)
    BY <2>1, <2>2, CallTypes
  <2>3. CASE LockRepo(p) \/ Release(p)
    BY <2>1, <2>3, LockRepoTypes, ReleaseTypes
  <2>4. CASE Resolve(p) \/ ReadRegistry(p) \/ WriteRegistry(p)
    BY <2>1, <2>4, ResolveTypes, ReadRegistryTypes, WriteRegistryTypes
  <2>5. CASE Check(p)
    BY <2>1, <2>5, CheckTypes
  <2>6. CASE Point(p) \/ Undo(p) \/ Unlink(p) \/ Repoint(p)
    BY <2>1, <2>6, PointerTypes
  <2>7. CASE Discover(p) \/ Status(p)
    BY <2>1, <2>7, DiscoverTypes, StatusTypes
  <2>8. CASE ReadBinding(p) \/ HashBinding(p) \/ SwapBinding(p)
    BY <2>1, <2>8, ReadBindingTypes, HashBindingTypes, SwapBindingTypes
  <2>9. CASE Die(p)
    BY <2>1, <2>9, DieTypes
  <2>10. QED
    BY <1>1, <2>2, <2>3, <2>4, <2>5, <2>6, <2>7, <2>8, <2>9 DEF Step
<1>2. CASE UNCHANGED vars
  BY <1>2 DEF vars, mapping, session, locks, ghosts, TypeInv, FilesOK
<1>3. QED
  BY <1>1, <1>2 DEF Next

\* Every file is absent or a record of its kind, however many processes work on
\* it and die; a pointer always names a pane, which the mapping that a cycle
\* wrote it from had.
THEOREM TypeCorrect == Spec => []TypeOK
<1>1. TypeInv => TypeOK
  BY DEF TypeInv, FilesOK, TypeOK
<1>2. QED
  BY <1>1, TypeInit, TypeStep, PTL DEF Spec

-----------------------------------------------------------------------------
(***************************************************************************)
(* What a step of p leaves to the others                                   *)
(***************************************************************************)
\* Pointer and registrations of a repository stay; a pane may change.
Untouched(r) ==
    /\ pointer'[r] = pointer[r]
    /\ \A h \in Host :
          /\ registry'[h][r] = None <=> registry[h][r] = None
          /\ <<h, r>> \in inherited' <=> <<h, r>> \in inherited

Others(p) ==
    /\ \A q \in Proc \ {p} : pc'[q] = pc[q] /\ call'[q] = call[q]
    /\ live' = live \/ live' = live \ {p}
    /\ \A r \in Repo : repoLock[r] \in live \ {p} => repoLock'[r] = repoLock[r]
    /\ \A h \in Host : hostLock[h] \in live \ {p} =>
          /\ hostLock'[h] = hostLock[h] /\ registry'[h] = registry[h]
          /\ h \in legacy' <=> h \in legacy
    /\ \A r \in Repo :
          Untouched(r) \/ (pc[p] \in Working /\ r = call[p].repo)

\* The operations that a write, or a check, can be about.
LEMMA Alternatives ==
  ASSUME TypeInv, NEW p \in Proc
  PROVE  /\ WriteRegistry(p) =>
               \/ call[p].op = "register" /\ Replaces(p, call[p].herdr, "release")
               \/ call[p].op = "unregister" /\ Replaces(p, None, "settle")
               \/ call[p].op = "wake" /\ RefreshMapping(p)
         /\ Check(p) =>
               \/ call[p].op = "register" /\ CheckRegister(p)
               \/ call[p].op = "unregister" /\ CheckUnregister(p)
               \/ call[p].op = "cycle" /\ Establish(p)
               \/ call[p].op = "wake" /\ CheckWake(p)
<1>1. pc[p] = "write" => call[p].op \in {"register", "unregister", "wake"}
  BY DEF TypeInv, Shape
<1>2. pc[p] = "check" => call[p].op \in {"register", "unregister", "cycle", "wake"}
  BY DEF TypeInv, Shape, Operation
<1>3. QED
  BY <1>1, <1>2 DEF WriteRegistry, Check, RegisterMapping, DropMapping

LEMMA StepMoves ==
  ASSUME TypeInv, NEW p \in Proc, Step(p)
  PROVE  /\ \A q \in Proc \ {p} : pc'[q] = pc[q] /\ call'[q] = call[q]
         /\ live' = live \/ live' = live \ {p}
<1> USE DEF TypeInv, Goes, Returns
<1>1. CASE Register(p) \/ Unregister(p) \/ Cycle(p) \/ Wake(p) \/ Bind(p)
  BY <1>1 DEF Register, Unregister, Cycle, Wake, Bind, Calls
<1>2. CASE LockRepo(p)
  BY <1>2 DEF LockRepo
<1>3. CASE Release(p)
  BY <1>3 DEF Release
<1>4. CASE Resolve(p)
  BY <1>4 DEF Resolve
<1>5. CASE ReadRegistry(p)
  BY <1>5 DEF ReadRegistry, Fails
<1>6. CASE WriteRegistry(p)
  <2>1. UNCHANGED <<call, live>>
    BY <1>6 DEF WriteRegistry
  <2>2. \E l : pc' = [pc EXCEPT ![p] = l]
    BY <1>6, Alternatives DEF RefreshMapping, Replaces, Fails
  <2>3. QED
    BY <2>1, <2>2
<1>7. CASE Check(p)
  <2>1. live' = live
    BY <1>7 DEF Check
  <2>2. /\ \E l : pc' = [pc EXCEPT ![p] = l]
        /\ \E c : call' = [call EXCEPT ![p] = c] \/ call' = call
    BY <1>7, Alternatives DEF CheckRegister, CheckUnregister, Establish, CheckWake
  <2>3. QED
    BY <2>1, <2>2
<1>8. CASE Point(p) \/ Undo(p) \/ Unlink(p) \/ Repoint(p)
  BY <1>8 DEF Point, Undo, Unlink, Repoint
<1>9. CASE Discover(p)
  BY <1>9 DEF Discover
<1>10. CASE ReadBinding(p) \/ HashBinding(p)
  BY <1>10 DEF ReadBinding, HashBinding
<1>11. CASE SwapBinding(p)
  BY <1>11 DEF SwapBinding
<1>12. CASE Status(p)
  BY <1>12 DEF Status
<1>13. CASE Die(p)
  BY <1>13 DEF Die
<1>14. QED
  BY <1>1, <1>2, <1>3, <1>4, <1>5, <1>6, <1>7, <1>8, <1>9, <1>10, <1>11, <1>12,
     <1>13 DEF Step

\* A migration finds panes and keeps what is registered.
LEMMA ResolveKeeps ==
  ASSUME IInv, NEW p \in live, Resolve(p)
  PROVE  /\ UNCHANGED <<pointer, inherited, locks>>
         /\ \A h \in Host : hostLock[h] \in live =>
               registry'[h] = registry[h] /\ (h \in legacy' <=> h \in legacy)
         /\ \A h \in Host, r \in Repo :
               registry'[h][r] = None <=> registry[h][r] = None
<1> DEFINE k == call[p].host
<1>1. /\ Shape(pc[p], call[p]) /\ pc[p] \in {"resolve", "reread"}
      /\ registry \in [Host -> [Repo -> Mapping]]
  BY DEF IInv, TypeInv, FilesOK, Resolve
<1>2. k \in Host
  BY <1>1 DEF Shape
<1>3. UNCHANGED <<pointer, inherited, locks>>
  BY DEF Resolve, ghosts
<1>4. CASE UNCHANGED <<registry, legacy>>
  BY <1>3, <1>4
<1>5. CASE /\ k \in legacy => Free(hostLock[k])
           /\ registry' = [registry EXCEPT ![k] = Current(k)]
           /\ legacy' = legacy \ {k}
  <2>1. \A r \in Repo : Current(k)[r] = None <=> registry[k][r] = None
    BY <1>2, CurrentType DEF IInv, TypeInv
  <2>2. \A h \in Host, r \in Repo :
           registry'[h][r] = None <=> registry[h][r] = None
    <3> HIDE DEF k
    <3>1. QED
      BY <1>1, <1>2, <1>5, <2>1
  <2>3. ASSUME NEW h \in Host, hostLock[h] \in live
        PROVE  registry'[h] = registry[h] /\ (h \in legacy' <=> h \in legacy)
    <3>1. CASE h # k
      BY <1>1, <1>5, <3>1
    <3>2. CASE h = k
      <4>1. hostLock[k] # None
        BY <2>3, <3>2, OwnershipAssumption DEF IInv, TypeInv, FilesOK
      <4>2. k \notin legacy
        BY <1>5, <2>3, <3>2, <4>1 DEF Free
      <4>3. Current(k) = registry[k]
        BY <4>2 DEF Current
      <4>4. QED
        BY <1>1, <1>2, <1>5, <3>2, <4>2, <4>3
    <3>3. QED
      BY <3>1, <3>2
  <2>4. QED
    BY <1>3, <2>2, <2>3
<1>6. QED
  BY <1>4, <1>5 DEF Resolve

\* What a write of a registry leaves alone.
LEMMA WriteKeeps ==
  ASSUME IInv, NEW p \in live, WriteRegistry(p)
  PROVE  /\ pc[p] = "write" /\ call[p].host \in Host /\ call[p].repo \in Repo
         /\ hostLock[call[p].host] = p /\ UNCHANGED <<pointer, repoLock, call, live>>
         /\ hostLock' = [hostLock EXCEPT ![call[p].host] = None]
         /\ \A h \in Host \ {call[p].host} :
               registry'[h] = registry[h] /\ (h \in legacy' <=> h \in legacy)
         /\ \A h \in Host, r \in Repo : h # call[p].host \/ r # call[p].repo =>
               /\ registry'[h][r] = None <=> registry[h][r] = None
               /\ h \notin legacy => registry'[h][r] = registry[h][r]
               /\ <<h, r>> \in inherited' <=> <<h, r>> \in inherited
<1> DEFINE k == call[p].host
           s == call[p].repo
           next(value) == [call[p].before EXCEPT ![s] = value]
<1>1. p \in Proc /\ Held(p)
  BY DEF IInv, TypeInv, FilesOK
<1>2. /\ pc[p] = "write" /\ Shape("write", call[p])
      /\ registry \in [Host -> [Repo -> Mapping]]
  BY <1>1 DEF IInv, TypeInv, FilesOK, WriteRegistry
<1>3. k \in Host /\ s \in Repo /\ call[p].before \in [Repo -> Mapping]
  BY <1>2 DEF Shape
<1>4. hostLock[k] = p /\ Knows(p)
  BY <1>1, <1>2 DEF Held
<1>5. /\ UNCHANGED <<pointer, repoLock, call, live>>
      /\ hostLock' = [hostLock EXCEPT ![k] = None]
  BY DEF WriteRegistry
<1>6. \/ UNCHANGED <<registry, legacy, inherited>>
      \/ \E value : /\ registry' = [registry EXCEPT ![k] = next(value)]
                    /\ legacy' = legacy \ {k}
                    /\ inherited' = inherited \/ inherited' = inherited \ {<<k, s>>}
  BY <1>1, Alternatives DEF IInv, WriteRegistry, RefreshMapping, Replaces
<1>7. CASE UNCHANGED <<registry, legacy, inherited>>
  BY <1>2, <1>3, <1>4, <1>5, <1>7
<1>8. ASSUME NEW value, registry' = [registry EXCEPT ![k] = next(value)],
             legacy' = legacy \ {k},
             inherited' = inherited \/ inherited' = inherited \ {<<k, s>>}
      PROVE  /\ \A h \in Host \ {k} :
                   registry'[h] = registry[h] /\ (h \in legacy' <=> h \in legacy)
             /\ \A h \in Host, r \in Repo : h # k \/ r # s =>
                   /\ registry'[h][r] = None <=> registry[h][r] = None
                   /\ h \notin legacy => registry'[h][r] = registry[h][r]
                   /\ <<h, r>> \in inherited' <=> <<h, r>> \in inherited
  <2>1. \A r \in Repo \ {s} : next(value)[r] = call[p].before[r]
    BY <1>3
  <2>2. /\ k \notin legacy => call[p].before = registry[k]
        /\ \A r \in Repo : call[p].before[r] = None <=> registry[k][r] = None
    BY <1>4 DEF Knows
  <2>3. registry'[k] = next(value)
    BY <1>2, <1>3, <1>8
  <2>4. \A h \in Host \ {k} :
           registry'[h] = registry[h] /\ (h \in legacy' <=> h \in legacy)
    BY <1>2, <1>8
  <2> HIDE DEF next, k, s
  <2>5. ASSUME NEW h \in Host, NEW r \in Repo, h # k \/ r # s
        PROVE  /\ registry'[h][r] = None <=> registry[h][r] = None
               /\ h \notin legacy => registry'[h][r] = registry[h][r]
               /\ <<h, r>> \in inherited' <=> <<h, r>> \in inherited
    <3>1. <<h, r>> \in inherited' <=> <<h, r>> \in inherited
      BY <1>8, <2>5
    <3>2. CASE h # k
      BY <2>4, <3>1, <3>2
    <3>3. CASE h = k /\ r # s
      BY <2>1, <2>2, <2>3, <3>1, <3>3
    <3>4. QED
      BY <2>5, <3>2, <3>3
  <2>6. QED
    BY <2>4, <2>5
<1>9. QED
  BY <1>2, <1>3, <1>4, <1>5, <1>6, <1>7, <1>8

\* A step leaves what others hold, and the repositories it does not work on.
LEMMA StepOthers ==
  ASSUME IInv, NEW p \in live, Step(p)
  PROVE  Others(p)
<1> DEFINE Rest == /\ \A r \in Repo :
                         repoLock[r] \in live \ {p} => repoLock'[r] = repoLock[r]
                   /\ \A h \in Host : hostLock[h] \in live \ {p} =>
                         /\ hostLock'[h] = hostLock[h] /\ registry'[h] = registry[h]
                         /\ h \in legacy' <=> h \in legacy
                   /\ \A r \in Repo : Untouched(r)
                         \/ (pc[p] \in Working /\ r = call[p].repo)
<1>1. p \in Proc /\ TypeInv /\ Held(p)
  BY DEF IInv, TypeInv, FilesOK
<1>2. SUFFICES Rest
  BY <1>1, StepMoves DEF Others
<1>3. /\ repoLock \in [Repo -> Proc \cup {None}]
      /\ hostLock \in [Host -> Proc \cup {None}]
      /\ pointer \in [Repo -> Pointer \cup {None}]
  BY <1>1 DEF TypeInv, FilesOK
<1>4. None \notin live
  BY <1>1, OwnershipAssumption DEF TypeInv, FilesOK
<1>5. \A owner : Free(owner) => owner \notin live
  BY <1>4 DEF Free
<1>6. CASE UNCHANGED <<pointer, registry, legacy, inherited, locks>>
  BY <1>6 DEF Untouched, locks
<1>7. CASE Register(p) \/ Unregister(p) \/ Cycle(p) \/ Wake(p) \/ Bind(p)
  BY <1>6, <1>7 DEF Register, Unregister, Cycle, Wake, Bind, Calls, mapping, ghosts
<1>8. CASE LockRepo(p)
  <2>1. \A r \in Repo : repoLock[r] \in live => repoLock'[r] = repoLock[r]
    BY <1>3, <1>5, <1>8 DEF LockRepo
  <2>2. UNCHANGED <<mapping, hostLock, inherited>>
    BY <1>8 DEF LockRepo, ghosts
  <2>3. QED
    BY <2>1, <2>2 DEF mapping, Untouched
<1>9. CASE Release(p)
  <2>1. repoLock[call[p].repo] = p
    BY <1>1, <1>9 DEF Held, Release, Working
  <2>2. \A r \in Repo : repoLock[r] \in live \ {p} => repoLock'[r] = repoLock[r]
    BY <1>3, <1>9, <2>1 DEF Release
  <2>3. UNCHANGED <<mapping, hostLock, inherited>>
    BY <1>9 DEF Release
  <2>4. QED
    BY <2>2, <2>3 DEF mapping, Untouched
<1>10. CASE Resolve(p)
  BY <1>10, ResolveKeeps DEF locks, Untouched
<1>11. CASE ReadRegistry(p)
  <2>1. \A h \in Host : hostLock[h] \in live => hostLock'[h] = hostLock[h]
    BY <1>3, <1>5, <1>11 DEF ReadRegistry
  <2>2. UNCHANGED <<mapping, repoLock, inherited>>
    BY <1>11 DEF ReadRegistry, ghosts
  <2>3. QED
    BY <2>1, <2>2 DEF mapping, Untouched
<1>12. CASE WriteRegistry(p)
  <2>1. /\ pc[p] = "write" /\ call[p].host \in Host /\ call[p].repo \in Repo
        /\ hostLock[call[p].host] = p /\ UNCHANGED <<pointer, repoLock>>
        /\ hostLock' = [hostLock EXCEPT ![call[p].host] = None]
        /\ \A h \in Host \ {call[p].host} :
              registry'[h] = registry[h] /\ (h \in legacy' <=> h \in legacy)
        /\ \A h \in Host, r \in Repo : h # call[p].host \/ r # call[p].repo =>
              /\ registry'[h][r] = None <=> registry[h][r] = None
              /\ <<h, r>> \in inherited' <=> <<h, r>> \in inherited
    BY <1>12, WriteKeeps
  <2>2. \A h \in Host : hostLock[h] \in live \ {p} =>
           /\ hostLock'[h] = hostLock[h] /\ registry'[h] = registry[h]
           /\ h \in legacy' <=> h \in legacy
    BY <1>3, <2>1
  <2>3. \A r \in Repo \ {call[p].repo} : Untouched(r)
    BY <2>1 DEF Untouched
  <2>4. QED
    BY <2>1, <2>2, <2>3 DEF Working
<1>13. CASE Check(p) \/ Point(p) \/ Undo(p) \/ Unlink(p) \/ Repoint(p)
  <2>1. pc[p] \in Working /\ UNCHANGED <<registry, legacy, inherited, locks>>
    BY <1>13 DEF Check, Point, Undo, Unlink, Repoint, Working, ghosts
  <2>2. pointer' = pointer \/ \E x : pointer' = [pointer EXCEPT ![call[p].repo] = x]
    BY <1>1, <1>13, Alternatives DEF CheckRegister, CheckUnregister, Establish,
       CheckWake, Point, Undo, Unlink, Repoint
  <2>3. \A r \in Repo \ {call[p].repo} : pointer'[r] = pointer[r]
    BY <1>3, <2>2
  <2>4. QED
    BY <2>1, <2>3 DEF Untouched, locks
<1>14. CASE \/ Discover(p) \/ ReadBinding(p) \/ HashBinding(p)
            \/ SwapBinding(p) \/ Status(p) \/ Die(p)
  BY <1>6, <1>14 DEF Discover, ReadBinding, HashBinding, SwapBinding, Status, Die,
                     mapping, ghosts
<1>15. QED
  BY <1>7, <1>8, <1>9, <1>10, <1>11, <1>12, <1>13, <1>14 DEF Step

\* What another process holds and knows it still does.
LEMMA Frame ==
  ASSUME IInv, NEW p \in live, Others(p), NEW q \in Proc \ {p}
  PROVE  Held(q)' /\ Midway(q)'
<1> DEFINE h == call[q].host
           r == call[q].repo
<1>1. pc'[q] = pc[q] /\ call'[q] = call[q] /\ (q \in live' <=> q \in live)
  BY DEF Others
<1>2. Held(q) /\ Midway(q) /\ Shape(pc[q], call[q]) /\ p \in Proc /\ Held(p)
  BY DEF IInv, TypeInv, FilesOK
<1>3. pc[q] \in Working => q \in live
  BY <1>2 DEF Held, Working
<1>4. pc[q] \in Working => h \in Host /\ r \in Repo
  BY <1>2 DEF Shape, Working
<1>5. pc[q] \in Working => repoLock[r] = q /\ repoLock'[r] = q /\ Untouched(r)
  BY <1>2, <1>3, <1>4 DEF Held, Others
<1>6. Held(q)'
  <2>1. (q \in live <=> pc[q] # "dead")'
    BY <1>1, <1>2 DEF Held
  <2>2. (pc[q] \in Working => repoLock[r] = q)'
    BY <1>1, <1>5
  <2>3. ASSUME pc[q] = "write" PROVE (hostLock[h] = q /\ Knows(q))'
    <3>1. hostLock[h] = q /\ Knows(q) /\ h \in Host /\ q \in live \ {p}
      BY <1>2, <1>3, <1>4, <2>3 DEF Held, Working
    <3>2. /\ hostLock'[h] = q /\ registry'[h] = registry[h]
          /\ h \in legacy' <=> h \in legacy
      BY <3>1 DEF Others
    <3>3. QED
      BY <1>1, <3>1, <3>2 DEF Knows
  <2>4. QED
    BY <1>1, <2>1, <2>2, <2>3 DEF Held
<1>7. Midway(q)'
  <2>1. CASE pc[q] \notin Working
    BY <1>1, <2>1 DEF Midway, Working
  <2>2. CASE pc[q] \in Working
    <3>1. /\ pointer'[r] = pointer[r] /\ h \in Host
          /\ registry'[h][r] = None <=> registry[h][r] = None
          /\ \A k \in Host : Registered(k, r)' <=> Registered(k, r)
      BY <1>1, <1>4, <1>5, <2>2 DEF Untouched, Registered
    <3>2. Mine(q)' <=> Mine(q)
      BY <1>1, <3>1 DEF Mine
    <3>3. (\A k \in Host : ~Registered(k, r)) => (\A k \in Host : ~Registered(k, r))'
      BY <1>1, <3>1 DEF Registered
    <3>4. QED
      BY <1>1, <1>2, <3>1, <3>2, <3>3 DEF Midway
  <2>3. QED
    BY <2>1, <2>2
<1>8. QED
  BY <1>6, <1>7

\* It is enough to look at the process that steps, and at its repository.
OwnedBy(r) ==
    \A h \in Host : Registered(h, r) => pointer[r] # None /\ pointer[r].host = h

LEMMA OwnStep ==
  ASSUME IInv, TypeInv', NEW p \in live, Others(p), Held(p)', Midway(p)',
         \A r \in Repo : pc[p] \in Working /\ r = call[p].repo => OwnedBy(r)'
  PROVE  IInv'
<1>1. \A q \in Proc : Held(q)' /\ Midway(q)'
  BY Frame
<1>2. ASSUME NEW r \in Repo PROVE OwnedBy(r)'
  <2>1. OwnedBy(r)
    BY DEF IInv, RegisteredIsOwned, OwnedBy
  <2>2. CASE Untouched(r)
    BY <2>1, <2>2 DEF Untouched, OwnedBy, Registered
  <2>3. CASE pc[p] \in Working /\ r = call[p].repo
    BY <2>3
  <2>4. QED
    BY <2>2, <2>3 DEF Others
<1>3. RegisteredIsOwned'
  BY <1>2 DEF RegisteredIsOwned, OwnedBy
<1>4. QED
  BY <1>1, <1>3 DEF IInv

-----------------------------------------------------------------------------
(***************************************************************************)
(* The steps of a process keep what it relies on, and the repository owned *)
(***************************************************************************)
\* Outside the locks there is nothing to keep.
LEMMA OutsideKeeps ==
  ASSUME IInv, NEW p \in live, TypeInv', Others(p), pc[p] \notin Working,
         pc'[p] \notin Working, p \in live' <=> pc'[p] # "dead"
  PROVE  IInv'
<1>1. Held(p)' /\ Midway(p)'
  BY DEF Held, Midway, Working
<1>2. QED
  BY <1>1, OwnStep

LEMMA OutsideSteps ==
  ASSUME IInv, NEW p \in live, TypeInv', Others(p),
         \/ Register(p) \/ Unregister(p) \/ Cycle(p) \/ Wake(p) \/ Bind(p)
         \/ Discover(p) \/ ReadBinding(p) \/ HashBinding(p) \/ SwapBinding(p)
         \/ Status(p)
  PROVE  IInv'
<1>1. p \in Proc /\ pc \in [Proc -> PcLabel]
  BY DEF IInv, TypeInv, FilesOK
<1>2. \E l \in {"lock", "resolve", "discover", "replace", "hash", "swap", "status",
                "reread", "idle"} : pc' = [pc EXCEPT ![p] = l]
  BY DEF Register, Unregister, Cycle, Wake, Bind, Calls, Discover, ReadBinding,
         HashBinding, SwapBinding, Status, Goes, Returns
<1>3. /\ pc[p] \in {"idle", "discover", "replace", "hash", "swap", "status"}
      /\ live' = live
  BY DEF Register, Unregister, Cycle, Wake, Bind, Calls, Discover, ReadBinding,
         HashBinding, SwapBinding, Status
<1>4. pc'[p] \notin Working /\ pc'[p] # "dead" /\ pc[p] \notin Working
  BY <1>1, <1>2, <1>3 DEF Working
<1>5. QED
  BY <1>3, <1>4, OutsideKeeps

LEMMA ResolveStep ==
  ASSUME IInv, NEW p \in live, TypeInv', Others(p), Resolve(p)
  PROVE  IInv'
<1>1. p \in Proc /\ pc \in [Proc -> PcLabel]
  BY DEF IInv, TypeInv, FilesOK
<1>2. pc[p] \in {"resolve", "reread"} /\ live' = live
  BY DEF Resolve
<1>3. \E l \in {"discover", "lock", "idle"} : pc' = [pc EXCEPT ![p] = l]
  BY DEF Resolve, Goes, Returns
<1>4. pc'[p] \notin Working /\ pc'[p] # "dead" /\ pc[p] \notin Working
  BY <1>1, <1>2, <1>3 DEF Working
<1>5. QED
  BY <1>2, <1>4, OutsideKeeps

\* A call that fails, is over, or dies needs its lock at most.
LEMMA LeavesKeeps ==
  ASSUME IInv, NEW p \in live, TypeInv', Others(p), UNCHANGED <<call, live, repoLock>>,
         pc[p] \in Working, pc'[p] = "release",
         \A r \in Repo : r = call[p].repo => OwnedBy(r)'
  PROVE  IInv'
<1>1. Held(p)
  BY DEF IInv, TypeInv, FilesOK
<1>2. Held(p)' /\ Midway(p)'
  BY <1>1 DEF Held, Midway, Working
<1>3. QED
  BY <1>2, OwnStep

LEMMA LockSteps ==
  ASSUME IInv, NEW p \in live, TypeInv', Others(p),
         LockRepo(p) \/ Release(p) \/ Die(p)
  PROVE  IInv'
<1>1. /\ p \in Proc /\ pc \in [Proc -> PcLabel] /\ Shape(pc[p], call[p])
      /\ repoLock \in [Repo -> Proc \cup {None}]
  BY DEF IInv, TypeInv, FilesOK
<1>2. \A r \in Repo : OwnedBy(r)
  BY DEF IInv, RegisteredIsOwned, OwnedBy
<1>3. UNCHANGED <<pointer, registry, inherited>>
  BY DEF LockRepo, Release, Die, mapping, ghosts
<1>4. \A r \in Repo : OwnedBy(r)'
  BY <1>2, <1>3 DEF OwnedBy, Registered
<1>5. CASE LockRepo(p)
  <2>1. pc[p] = "lock" /\ live' = live
    BY <1>5 DEF LockRepo
  <2>2. CASE Returns(p)
    <3>1. pc'[p] = "idle"
      BY <1>1, <2>2 DEF Returns
    <3>2. QED
      BY <2>1, <3>1, OutsideKeeps DEF Working
  <2>3. CASE /\ repoLock' = [repoLock EXCEPT ![call[p].repo] = p]
             /\ Goes(p, "check") /\ UNCHANGED call
    <3>1. call[p].repo \in Repo
      BY <1>1, <2>1 DEF Shape
    <3>2. pc'[p] = "check" /\ repoLock'[call[p].repo] = p /\ call'[p] = call[p]
      BY <1>1, <2>3, <3>1 DEF Goes
    <3>3. Held(p)' /\ Midway(p)'
      BY <2>1, <3>2 DEF Held, Midway, Working
    <3>4. QED
      BY <1>4, <3>3, OwnStep
  <2>4. QED
    BY <1>5, <2>2, <2>3 DEF LockRepo
<1>6. CASE Release(p)
  <2>1. pc'[p] = "idle" /\ live' = live
    BY <1>1, <1>6 DEF Release, Returns
  <2>2. Held(p)' /\ Midway(p)'
    BY <2>1 DEF Held, Midway, Working
  <2>3. QED
    BY <1>4, <2>2, OwnStep
<1>7. CASE Die(p)
  <2>1. pc'[p] = "dead" /\ p \notin live'
    BY <1>1, <1>7 DEF Die
  <2>2. Held(p)' /\ Midway(p)'
    BY <2>1 DEF Held, Midway, Working
  <2>3. QED
    BY <1>4, <2>2, OwnStep
<1>8. QED
  BY <1>5, <1>6, <1>7

\* What the repository's lock and its check give the rest of the call.
LEMMA CheckStep ==
  ASSUME IInv, NEW p \in live, TypeInv', Others(p), Check(p)
  PROVE  IInv'
<1> DEFINE h == call[p].host
           r == call[p].repo
<1>1. /\ p \in Proc /\ pc \in [Proc -> PcLabel] /\ call \in [Proc -> Call]
      /\ Held(p) /\ Shape("check", call[p]) /\ pc[p] = "check"
      /\ pointer \in [Repo -> Pointer \cup {None}]
  BY DEF IInv, TypeInv, FilesOK, Check
<1>2. /\ UNCHANGED <<registry, legacy, inherited, locks, live>>
      /\ h \in Host /\ r \in Repo /\ repoLock[r] = p
  BY <1>1 DEF Check, Held, Shape, Working
<1>3. OwnedBy(r)
  BY <1>2 DEF IInv, RegisteredIsOwned, OwnedBy
<1>4. ASSUME UNCHANGED pointer, NEW s \in Repo, s = r PROVE OwnedBy(s)'
  BY <1>2, <1>3, <1>4 DEF OwnedBy, Registered
<1>5. CASE Goes(p, "release") /\ UNCHANGED <<pointer, call>>
  BY <1>1, <1>2, <1>4, <1>5, LeavesKeeps DEF Goes, Working, locks
<1>6. CASE call[p].op = "cycle" /\ Establish(p)
  <2>1. CASE UNCHANGED pointer
    BY <1>5, <1>6, <2>1 DEF Establish
  <2>2. CASE pointer[r] = None
    <3>1. \A k \in Host : ~Registered(k, r)
      BY <1>3, <2>2 DEF OwnedBy
    <3>2. ASSUME NEW s \in Repo, s = r PROVE OwnedBy(s)'
      BY <1>2, <3>1, <3>2 DEF OwnedBy, Registered
    <3>3. pc'[p] = "release" /\ UNCHANGED <<call, live, repoLock>>
      BY <1>1, <1>2, <1>6 DEF Establish, Goes, locks
    <3>4. QED
      BY <1>1, <3>2, <3>3, LeavesKeeps DEF Working
  <2>3. QED
    BY <1>6, <2>1, <2>2 DEF Establish
<1>7. CASE call[p].op = "register" /\ CheckRegister(p)
  <2>1. CASE /\ ~OwnedElsewhere(p) /\ Goes(p, "point") /\ UNCHANGED pointer
             /\ call'[p].op = "register" /\ call'[p].host = h /\ call'[p].repo = r
             /\ call'[p].pointer = pointer[r]
    <3>1. pc'[p] = "point"
      BY <1>1, <2>1 DEF Goes
    <3>2. Mine(p)'
      BY <2>1 DEF OwnedElsewhere, Mine
    <3>3. pointer[r] = None => \A k \in Host : ~Registered(k, r)
      BY <1>3 DEF OwnedBy
    <3>4. call'[p].pointer = None => (\A k \in Host : ~Registered(k, call[p].repo))'
      BY <1>2, <2>1, <3>3 DEF Registered
    <3>5. Midway(p)'
      BY <2>1, <3>1, <3>2, <3>4 DEF Midway
    <3>6. Held(p)'
      BY <1>1, <1>2, <2>1, <3>1 DEF Held, locks
    <3>7. QED
      BY <1>4, <2>1, <3>5, <3>6, OwnStep
  <2>2. QED
    BY <1>1, <1>5, <1>7, <2>1 DEF CheckRegister
<1>8. CASE call[p].op = "unregister" /\ CheckUnregister(p)
  <2>1. CASE /\ ~OwnedElsewhere(p) /\ Goes(p, "update") /\ UNCHANGED pointer
             /\ call'[p].op = "unregister" /\ call'[p].host = h /\ call'[p].repo = r
    <3>1. pc'[p] = "update"
      BY <1>1, <2>1 DEF Goes
    <3>2. Mine(p)'
      BY <2>1 DEF OwnedElsewhere, Mine
    <3>3. Midway(p)'
      BY <2>1, <3>1, <3>2 DEF Midway
    <3>4. Held(p)'
      BY <1>1, <1>2, <2>1, <3>1 DEF Held, locks
    <3>5. QED
      BY <1>4, <2>1, <3>3, <3>4, OwnStep
  <2>2. call' = [call EXCEPT ![p].pointer = pointer[r]] =>
           call'[p].op = call[p].op /\ call'[p].host = h /\ call'[p].repo = r
    BY <1>1 DEF Call
  <2>3. QED
    BY <1>5, <1>8, <2>1, <2>2 DEF CheckUnregister
<1>9. CASE call[p].op = "wake" /\ CheckWake(p)
  <2>1. CASE /\ pointer[r] # None /\ ~OwnedElsewhere(p) /\ UNCHANGED pointer
             /\ Goes(p, IF call[p].seen = call[p].herdr THEN "settle" ELSE "update")
             /\ call'[p].op = "wake" /\ call'[p].host = h /\ call'[p].repo = r
             /\ call'[p].pointer = pointer[r]
    <3>1. pc'[p] \in {"settle", "update"}
      BY <1>1, <2>1 DEF Goes
    <3>2. Mine(p)' /\ call'[p].pointer.host = h
      BY <2>1 DEF OwnedElsewhere, Mine
    <3>3. Midway(p)'
      BY <2>1, <3>1, <3>2 DEF Midway
    <3>4. Held(p)'
      BY <1>1, <1>2, <2>1, <3>1 DEF Held, locks
    <3>5. QED
      BY <1>4, <2>1, <3>3, <3>4, OwnStep
  <2>2. call' = [call EXCEPT ![p].pointer = pointer[r]] =>
           /\ call'[p].op = call[p].op /\ call'[p].host = h /\ call'[p].repo = r
           /\ call'[p].pointer = pointer[r]
    BY <1>1 DEF Call
  <2>3. QED
    BY <1>5, <1>9, <2>1, <2>2 DEF CheckWake
<1>10. QED
  BY <1>1, <1>6, <1>7, <1>8, <1>9, Alternatives DEF IInv

\* The pointer is written over none, or over the host's own.
LEMMA PointerSteps ==
  ASSUME IInv, NEW p \in live, TypeInv', Others(p),
         Point(p) \/ Undo(p) \/ Unlink(p) \/ Repoint(p)
  PROVE  IInv'
<1> DEFINE h == call[p].host
           r == call[p].repo
<1>1. /\ p \in Proc /\ pc \in [Proc -> PcLabel]
      /\ Held(p) /\ Midway(p) /\ Shape(pc[p], call[p])
      /\ pointer \in [Repo -> Pointer \cup {None}]
  BY DEF IInv, TypeInv, FilesOK
<1>2. /\ UNCHANGED <<registry, legacy, inherited, repoLock, hostLock, call, live>>
      /\ pc[p] \in {"point", "undo", "settle"}
  BY DEF Point, Undo, Unlink, Repoint, ghosts, locks
<1>3. h \in Host /\ r \in Repo /\ repoLock[r] = p
  BY <1>1, <1>2 DEF Held, Shape, Working
<1>4. OwnedBy(r)
  BY <1>3 DEF IInv, RegisteredIsOwned, OwnedBy
<1>5. ASSUME NEW x \in Pointer, x.host = h, pointer[r] = None \/ pointer[r].host = h,
             pointer'[r] = x, NEW s \in Repo, s = r
      PROVE  OwnedBy(s)'
  BY <1>2, <1>4, <1>5, OwnershipAssumption DEF OwnedBy, Registered, Pointer
<1>6. ASSUME \A k \in Host : ~Registered(k, r), NEW s \in Repo, s = r
      PROVE  OwnedBy(s)'
  BY <1>2, <1>6 DEF OwnedBy, Registered
<1>7. CASE Point(p)
  <2> DEFINE x == [host |-> h, herdr |-> call[p].herdr]
  <2>1. pc[p] = "point" /\ pc'[p] = "update" /\ pointer'[r] = x
    BY <1>1, <1>3, <1>7 DEF Point, Goes
  <2>2. x \in Pointer /\ x.host = h /\ x # None
    BY <1>1, <1>3, <2>1, OwnershipAssumption DEF Shape, Pointer
  <2>3. Mine(p) /\ call[p].op = "register"
    BY <1>1, <2>1 DEF Midway, Shape
  <2>4. Mine(p)' /\ pointer'[r] # None
    BY <1>2, <2>1, <2>2 DEF Mine
  <2>5. call[p].pointer = None => (\A k \in Host : ~Registered(k, call[p].repo))'
    BY <1>1, <1>2, <2>1, <2>3 DEF Midway, Registered
  <2>6. Midway(p)'
    BY <1>2, <2>1, <2>3, <2>4, <2>5 DEF Midway
  <2>7. Held(p)'
    BY <1>1, <1>2, <1>3, <2>1 DEF Held
  <2>8. QED
    BY <1>5, <2>1, <2>2, <2>3, <2>6, <2>7, OwnStep DEF Mine
<1>8. CASE Undo(p)
  <2>1. pc[p] = "undo" /\ pc'[p] = "release" /\ call[p].op = "register"
    BY <1>1, <1>8 DEF Undo, Goes, Shape
  <2>2. ASSUME NEW s \in Repo, s = r PROVE OwnedBy(s)'
    <3>1. CASE call[p].pointer = None
      BY <1>1, <1>6, <2>1, <2>2, <3>1 DEF Midway
    <3>2. CASE call[p].pointer # None
      BY <1>2, <1>4, <1>8, <2>2, <3>2 DEF Undo, OwnedBy, Registered
    <3>3. QED
      BY <3>1, <3>2
  <2>3. QED
    BY <1>2, <2>1, <2>2, LeavesKeeps DEF Working
<1>9. CASE Unlink(p)
  <2>1. /\ pc[p] = "settle" /\ pc'[p] = "release"
        /\ Mine(p) /\ registry[h][r] = None
    BY <1>1, <1>9 DEF Unlink, Goes, Midway
  <2>2. \A k \in Host : ~Registered(k, r)
    BY <1>4, <2>1 DEF OwnedBy, Registered, Mine
  <2>3. QED
    BY <1>2, <1>6, <2>1, <2>2, LeavesKeeps DEF Working
<1>10. CASE Repoint(p)
  <2> DEFINE x == [host |-> call[p].pointer.host, herdr |-> call[p].herdr]
  <2>1. /\ pc[p] = "settle" /\ pc'[p] = "release" /\ pointer'[r] = x
        /\ call[p].op = "wake"
    BY <1>1, <1>3, <1>10 DEF Repoint, Goes
  <2>2. Mine(p) /\ call[p].pointer.host = h
    BY <1>1, <2>1 DEF Midway
  <2>3. x \in Pointer /\ x.host = h
    BY <1>1, <1>3, <2>1, <2>2 DEF Shape, Pointer
  <2>4. QED
    BY <1>2, <1>5, <2>1, <2>2, <2>3, LeavesKeeps DEF Working, Mine
<1>11. QED
  BY <1>7, <1>8, <1>9, <1>10

\* An update that fails leaves the pointer to Undo, which finds what Midway says.
LEMMA FailsKeeps ==
  ASSUME IInv, NEW p \in live, TypeInv', Others(p), Fails(p),
         pc[p] \in {"update", "write"},
         UNCHANGED <<pointer, registry, inherited, repoLock, call, live>>
  PROVE  IInv'
<1>1. /\ p \in Proc /\ pc \in [Proc -> PcLabel] /\ Held(p) /\ Midway(p)
      /\ Shape(pc[p], call[p])
  BY DEF IInv, TypeInv, FilesOK
<1>2. ASSUME NEW s \in Repo PROVE OwnedBy(s)'
  BY DEF IInv, RegisteredIsOwned, OwnedBy, Registered
<1>3. CASE call[p].op # "register"
  <2>1. pc'[p] = "release"
    BY <1>1, <1>3 DEF Fails, Goes
  <2>2. QED
    BY <1>2, <2>1, LeavesKeeps DEF Working
<1>4. CASE call[p].op = "register"
  <2>1. pc'[p] = "undo"
    BY <1>1, <1>4 DEF Fails, Goes
  <2>2. call[p].pointer = None => (\A k \in Host : ~Registered(k, call[p].repo))'
    BY <1>1, <1>4 DEF Midway, Registered
  <2>3. Midway(p)'
    BY <1>4, <2>1, <2>2 DEF Midway
  <2>4. Held(p)'
    BY <1>1, <2>1 DEF Held, Working
  <2>5. QED
    BY <1>2, <2>3, <2>4, OwnStep
<1>5. QED
  BY <1>3, <1>4

LEMMA ReadRegistryStep ==
  ASSUME IInv, NEW p \in live, TypeInv', Others(p), ReadRegistry(p)
  PROVE  IInv'
<1> DEFINE h == call[p].host
           r == call[p].repo
<1>1. /\ p \in Proc /\ pc \in [Proc -> PcLabel] /\ call[p] \in Call
      /\ call \in [Proc -> Call] /\ Held(p) /\ Midway(p)
      /\ Shape("update", call[p]) /\ pc[p] = "update"
      /\ hostLock \in [Host -> Proc \cup {None}]
  BY DEF IInv, TypeInv, FilesOK, ReadRegistry
<1>2. /\ UNCHANGED <<pointer, registry, legacy, inherited, repoLock, live>>
      /\ h \in Host /\ r \in Repo
  BY <1>1 DEF ReadRegistry, Shape, mapping, ghosts
<1>3. CASE Fails(p) /\ UNCHANGED call
  BY <1>1, <1>2, <1>3, FailsKeeps
<1>4. CASE /\ hostLock' = [hostLock EXCEPT ![h] = p] /\ Goes(p, "write")
           /\ call' = [call EXCEPT ![p].before = Current(h)]
  <2>1. pc'[p] = "write" /\ hostLock'[h] = p
    BY <1>1, <1>2, <1>4 DEF Goes
  <2>2. /\ call'[p].op = call[p].op /\ call'[p].host = h /\ call'[p].repo = r
        /\ call'[p].pointer = call[p].pointer /\ call'[p].before = Current(h)
    BY <1>1, <1>4 DEF Call
  <2>3. \A s \in Repo : Current(h)[s] = None <=> registry[h][s] = None
    BY <1>2, CurrentType DEF IInv, TypeInv
  <2>4. h \notin legacy => Current(h) = registry[h]
    BY DEF Current
  <2> HIDE DEF h, r
  <2>5. Knows(p)'
    BY <1>2, <2>2, <2>3, <2>4 DEF Knows
  <2>6. Held(p)'
    BY <1>1, <1>2, <2>1, <2>2, <2>5 DEF Held, Working, h, r
  <2>7. Mine(p)' <=> Mine(p)
    BY <1>2, <2>2 DEF Mine, h, r
  <2>8. (\A k \in Host : ~Registered(k, call[p].repo))
          => (\A k \in Host : ~Registered(k, call[p].repo))'
    BY <1>2, <2>2 DEF Registered, r
  <2>9. Midway(p)'
    BY <1>1, <1>2, <2>1, <2>2, <2>7, <2>8 DEF Midway, h, r
  <2>10. ASSUME NEW s \in Repo PROVE OwnedBy(s)'
    BY <1>2 DEF IInv, RegisteredIsOwned, OwnedBy, Registered
  <2>11. QED
    BY <2>6, <2>9, <2>10, OwnStep
<1>5. QED
  BY <1>3, <1>4 DEF ReadRegistry

\* The registry is written when its owner is known: after the pointer by a
\* registration, before it by an unregistration.
LEMMA WriteRegistryStep ==
  ASSUME IInv, NEW p \in live, TypeInv', Others(p), WriteRegistry(p)
  PROVE  IInv'
<1> DEFINE h == call[p].host
           r == call[p].repo
           next(value) == [call[p].before EXCEPT ![r] = value]
<1>1. /\ p \in Proc /\ pc \in [Proc -> PcLabel] /\ TypeInv /\ Held(p) /\ Midway(p)
      /\ Shape("write", call[p]) /\ pc[p] = "write"
      /\ registry \in [Host -> [Repo -> Mapping]]
  BY DEF IInv, TypeInv, FilesOK, WriteRegistry
<1>2. /\ UNCHANGED <<pointer, repoLock, call, live>>
      /\ h \in Host /\ r \in Repo /\ call[p].before \in [Repo -> Mapping]
  BY <1>1 DEF WriteRegistry, Shape
<1>3. Mine(p) /\ repoLock[r] = p /\ Knows(p)
  BY <1>1 DEF Midway, Held, Working
<1>4. OwnedBy(r)
  BY <1>2 DEF IInv, RegisteredIsOwned, OwnedBy
<1>5. /\ \A k \in Host \ {h} : registry'[k][r] = None <=> registry[k][r] = None
      /\ \A k \in Host \ {h} : <<k, r>> \in inherited' <=> <<k, r>> \in inherited
  BY <1>2, WriteKeeps
<1>6. CASE Fails(p) /\ UNCHANGED <<registry, legacy, inherited>>
  BY <1>1, <1>2, <1>6, FailsKeeps
<1>7. ASSUME NEW value, registry' = [registry EXCEPT ![h] = next(value)]
      PROVE  registry'[h][r] = value
  BY <1>1, <1>2, <1>7
<1>8. CASE call[p].op = "register" /\ Replaces(p, call[p].herdr, "release")
  <2>1. CASE Goes(p, "release")
    <3>1. pointer[r] # None /\ pointer[r].host = h
      BY <1>1, <1>3, <1>8 DEF Midway, Mine
    <3>2. ASSUME NEW s \in Repo, s = r PROVE OwnedBy(s)'
      BY <1>2, <1>4, <1>5, <3>1, <3>2 DEF OwnedBy, Registered
    <3>3. pc'[p] = "release"
      BY <1>1, <2>1 DEF Goes
    <3>4. QED
      BY <1>1, <1>2, <3>2, <3>3, LeavesKeeps DEF Working
  <2>2. QED
    BY <1>6, <1>8, <2>1 DEF Replaces
<1>9. CASE call[p].op = "unregister" /\ Replaces(p, None, "settle")
  <2>1. CASE Goes(p, "settle") /\ registry' = [registry EXCEPT ![h] = next(None)]
    <3>1. registry'[h][r] = None
      BY <1>7, <2>1
    <3>2. ASSUME NEW s \in Repo, s = r PROVE OwnedBy(s)'
      BY <1>2, <1>4, <1>5, <3>1, <3>2 DEF OwnedBy, Registered
    <3>3. pc'[p] = "settle"
      BY <1>1, <2>1 DEF Goes
    <3>4. Held(p)'
      BY <1>1, <1>2, <1>3, <3>3 DEF Held
    <3>5. Mine(p)'
      BY <1>2, <1>3 DEF Mine
    <3>6. Midway(p)'
      BY <1>2, <1>9, <3>1, <3>3, <3>5 DEF Midway
    <3>7. QED
      BY <3>2, <3>4, <3>6, OwnStep
  <2>2. QED
    BY <1>6, <1>9, <2>1 DEF Replaces
<1>10. CASE call[p].op = "wake" /\ RefreshMapping(p)
  <2>1. CASE /\ Goes(p, "settle") /\ inherited' = inherited
             /\ call[p].before[r] # None
    <3>1. registry[h][r] # None
      BY <1>2, <1>3, <2>1 DEF Knows
    <3>2. ASSUME NEW s \in Repo, s = r PROVE OwnedBy(s)'
      BY <1>2, <1>4, <1>5, <2>1, <3>1, <3>2 DEF OwnedBy, Registered
    <3>3. pc'[p] = "settle"
      BY <1>1, <2>1 DEF Goes
    <3>4. Held(p)'
      BY <1>1, <1>2, <1>3, <3>3 DEF Held
    <3>5. Mine(p)'
      BY <1>2, <1>3 DEF Mine
    <3>6. Midway(p)'
      BY <1>1, <1>2, <1>10, <3>3, <3>5 DEF Midway
    <3>7. QED
      BY <3>2, <3>4, <3>6, OwnStep
  <2>2. QED
    BY <1>6, <1>10, <2>1 DEF RefreshMapping, Replaces
<1>11. QED
  BY <1>1, <1>8, <1>9, <1>10, Alternatives

-----------------------------------------------------------------------------
(***************************************************************************)
(* The theorems                                                            *)
(***************************************************************************)
LEMMA OwnershipInit == Init => IInv
<1> SUFFICES ASSUME Init PROVE IInv
  OBVIOUS
<1>1. TypeInv
  BY TypeInit
<1>2. \A p \in Proc : Held(p) /\ Midway(p)
  BY DEF Init, Held, Midway, Working
<1>3. RegisteredIsOwned
  <2>1. PICK owner \in [Repo -> Host \cup {None}] :
          /\ \A r \in Repo : owner[r] # None => binding[r] # None
          /\ pointer = [r \in Repo |->
                IF owner[r] = None THEN None
                ELSE [host |-> owner[r], herdr |-> binding[r].herdr]]
          /\ registry = [h \in Host |-> [r \in Repo |->
                IF owner[r] = h THEN binding[r].herdr
                ELSE IF <<h, r>> \in Legacy THEN Unpaired ELSE None]]
    BY DEF Init
  <2>2. inherited = Legacy
    BY DEF Init
  <2>3. ASSUME NEW h \in Host, NEW r \in Repo, Registered(h, r)
        PROVE  pointer[r] # None /\ pointer[r].host = h
    <3>1. owner[r] = h
      BY <2>1, <2>2, <2>3 DEF Registered
    <3>2. h # None
      BY OwnershipAssumption
    <3>3. pointer[r] = [host |-> h, herdr |-> binding[r].herdr]
      BY <2>1, <3>1, <3>2
    <3>4. binding[r] \in Binding
      BY <1>1, <2>1, <3>1, <3>2 DEF TypeInv, FilesOK
    <3>5. pointer[r] \in Pointer
      BY <3>3, <3>4 DEF Pointer, Binding
    <3>6. QED
      BY <3>3, <3>5, OwnershipAssumption
  <2>4. QED
    BY <2>3 DEF RegisteredIsOwned
<1>4. QED
  BY <1>1, <1>2, <1>3 DEF IInv

LEMMA OwnershipStep == IInv /\ [Next]_vars => IInv'
<1> SUFFICES ASSUME IInv, [Next]_vars PROVE IInv'
  OBVIOUS
<1>1. TypeInv'
  BY TypeStep DEF IInv
<1>2. ASSUME NEW p \in live, Step(p) PROVE IInv'
  <2>1. Others(p)
    BY <1>2, StepOthers
  <2>2. CASE \/ Register(p) \/ Unregister(p) \/ Cycle(p) \/ Wake(p) \/ Bind(p)
             \/ Discover(p) \/ ReadBinding(p) \/ HashBinding(p)
             \/ SwapBinding(p) \/ Status(p)
    BY <1>1, <2>1, <2>2, OutsideSteps
  <2>3. CASE LockRepo(p) \/ Release(p) \/ Die(p)
    BY <1>1, <2>1, <2>3, LockSteps
  <2>4. CASE Resolve(p)
    BY <1>1, <2>1, <2>4, ResolveStep
  <2>5. CASE ReadRegistry(p)
    BY <1>1, <2>1, <2>5, ReadRegistryStep
  <2>6. CASE WriteRegistry(p)
    BY <1>1, <2>1, <2>6, WriteRegistryStep
  <2>7. CASE Check(p)
    BY <1>1, <2>1, <2>7, CheckStep
  <2>8. CASE Point(p) \/ Undo(p) \/ Unlink(p) \/ Repoint(p)
    BY <1>1, <2>1, <2>8, PointerSteps
  <2>9. QED
    BY <1>2, <2>2, <2>3, <2>4, <2>5, <2>6, <2>7, <2>8 DEF Step
<1>3. CASE UNCHANGED vars
  <2>1. \A p \in Proc : Held(p)' /\ Midway(p)'
    BY <1>3 DEF IInv, vars, mapping, locks, ghosts, Held, Midway, Knows, Mine,
                Registered
  <2>2. RegisteredIsOwned'
    BY <1>3 DEF IInv, vars, mapping, ghosts, RegisteredIsOwned, Registered
  <2>3. QED
    BY <1>1, <2>1, <2>2 DEF IInv
<1>4. QED
  BY <1>2, <1>3 DEF Next

\* The inductive invariant: the locks exclude; between the read of a registry
\* and its replacement nobody else writes it; between its two writes a call
\* still owns the repository, or nobody does.
THEOREM OwnershipInvariance == Spec => []IInv
  BY OwnershipInit, OwnershipStep, PTL DEF Spec

\* A registered repository is owned by the host that registered it, so never by
\* two: registerRepository writes the pointer first and takes back only one that
\* it made, unregisterRepository deletes it last, and a cycle makes one only
\* where there is none.
THEOREM RegisteredIsOwnedAlways == Spec => []RegisteredIsOwned
<1>1. IInv => RegisteredIsOwned
  BY DEF IInv
<1>2. QED
  BY <1>1, OwnershipInvariance, PTL

\* No update of a registry is lost: updateRegistry replaces the file by what it
\* read under the lock, with its own mapping changed.
THEOREM OthersAreKeptAlways == Spec => OthersAreKept
<1> DEFINE Writes(h, r) ==
      \/ h \in legacy
      \/ \E p \in live : /\ pc[p] = "write" /\ repoLock[r] = p
                         /\ call[p].host = h /\ call[p].repo = r
<1>1. ASSUME IInv, NEW p \in live, Step(p), NEW h \in Host, NEW r \in Repo,
             registry'[h][r] # registry[h][r]
      PROVE  Writes(h, r)
  <2>1. p \in Proc /\ Held(p) /\ TypeInv /\ registry \in [Host -> [Repo -> Mapping]]
    BY <1>1 DEF IInv, TypeInv, FilesOK
  <2>2. CASE WriteRegistry(p)
    <3>1. /\ pc[p] = "write"
          /\ \A k \in Host, s \in Repo : k # call[p].host \/ s # call[p].repo =>
                /\ registry'[k][s] = None <=> registry[k][s] = None
                /\ k \notin legacy => registry'[k][s] = registry[k][s]
                /\ <<k, s>> \in inherited' <=> <<k, s>> \in inherited
      <4>1. IInv /\ p \in live
        BY <1>1
      <4>2. QED
        BY <2>2, <4>1, WriteKeeps
    <3>2. repoLock[call[p].repo] = p
      BY <2>1, <3>1 DEF Held, Working
    <3>3. QED
      BY <1>1, <3>1, <3>2
  <2>3. CASE Resolve(p)
    <3>1. registry' = registry \/
             registry' = [registry EXCEPT ![call[p].host] = Current(call[p].host)]
      BY <2>3 DEF Resolve
    <3>2. h = call[p].host /\ registry'[h] = Current(h)
      BY <1>1, <2>1, <3>1
    <3>3. h \in legacy
      BY <1>1, <3>2 DEF Current
    <3>4. QED
      BY <3>3
  <2>4. CASE registry' = registry
    BY <1>1, <2>4
  <2>5. Step(p) => WriteRegistry(p) \/ Resolve(p) \/ registry' = registry
    BY DEF Step, Register, Unregister, Cycle, Wake, Bind, Calls, LockRepo, Release,
           ReadRegistry, Check, Point, Undo, Unlink, Repoint, Discover,
           ReadBinding, HashBinding, SwapBinding, Status, Die, mapping
  <2>6. QED
    BY <1>1, <2>2, <2>3, <2>4, <2>5
<1>2. IInv /\ [Next]_vars =>
        [\A h \in Host, r \in Repo :
            registry'[h][r] # registry[h][r] => Writes(h, r)]_vars
  BY <1>1 DEF Next
<1>3. QED
  BY <1>2, OwnershipInvariance, PTL DEF Spec, OthersAreKept

-----------------------------------------------------------------------------
(***************************************************************************)
(* The archive of session bindings                                         *)
(***************************************************************************)
\* What is bound is in the archive, and so is what a refresh is about to bind,
\* whichever refresh wins and whatever it compares with.
Kept ==
    /\ \A r \in Repo : {binding[r]} \ {None} \subseteq archive[r]
    /\ \A p \in Proc : pc[p] = "swap" =>
          NewBinding(call[p].prior, call[p].herdr) \in archive[call[p].repo]

\* Only two steps touch bindings and archives, and nobody is about to swap
\* after any other step but those that were before it.
LEMMA BindingKept ==
  ASSUME TypeInv, NEW p \in Proc, Step(p)
  PROVE  \/ HashBinding(p) \/ SwapBinding(p)
         \/ UNCHANGED session /\ pc'[p] # "swap"
<1> USE DEF TypeInv, Goes, Returns
<1>1. CASE Register(p) \/ Unregister(p) \/ Cycle(p) \/ Wake(p) \/ Bind(p)
  BY <1>1 DEF Register, Unregister, Cycle, Wake, Bind, Calls
<1>2. CASE LockRepo(p) \/ Release(p)
  BY <1>2 DEF LockRepo, Release
<1>3. CASE Resolve(p)
  BY <1>3 DEF Resolve
<1>4. CASE ReadRegistry(p)
  BY <1>4 DEF ReadRegistry, Fails
<1>5. CASE WriteRegistry(p)
  <2>1. UNCHANGED session
    BY <1>5 DEF WriteRegistry
  <2>2. \E l \in {"release", "settle", "undo"} : pc' = [pc EXCEPT ![p] = l]
    BY <1>5, Alternatives DEF RefreshMapping, Replaces, Fails
  <2>3. QED
    BY <2>1, <2>2
<1>6. CASE Check(p)
  <2>1. UNCHANGED session
    BY <1>6 DEF Check
  <2>2. \E l \in {"release", "settle", "point", "update"} : pc' = [pc EXCEPT ![p] = l]
    BY <1>6, Alternatives DEF CheckRegister, CheckUnregister, Establish, CheckWake
  <2>3. QED
    BY <2>1, <2>2
<1>7. CASE Point(p) \/ Undo(p) \/ Unlink(p) \/ Repoint(p)
  BY <1>7 DEF Point, Undo, Unlink, Repoint
<1>8. CASE Discover(p) \/ ReadBinding(p) \/ Status(p) \/ Die(p)
  BY <1>8 DEF Discover, ReadBinding, Status, Die
<1>9. QED
  BY <1>1, <1>2, <1>3, <1>4, <1>5, <1>6, <1>7, <1>8 DEF Step

LEMMA KeptInit == Init => Kept
<1> SUFFICES ASSUME Init PROVE Kept
  OBVIOUS
<1>1. archive = [r \in Repo |-> IF binding[r] = None THEN {} ELSE {binding[r]}]
  BY DEF Init
<1>2. \A p \in Proc : pc[p] # "swap"
  BY DEF Init
<1>3. QED
  BY <1>1, <1>2 DEF Kept

\* Archives only grow.
LEMMA ArchivesGrow ==
  ASSUME TypeInv, NEW p \in Proc, Step(p)
  PROVE  \A r \in Repo : archive[r] \subseteq archive'[r]
<1>1. archive \in [Repo -> SUBSET Binding]
  BY DEF TypeInv, FilesOK
<1>2. CASE HashBinding(p)
  <2>1. archive' = archive \/
           \E x : archive' = [archive EXCEPT ![call[p].repo] = @ \cup x]
    <3>1. ASSUME NEW r, NEW x, NEW y, NEW z, Archives(r, x, y, z), r = call[p].repo
          PROVE  \E w : archive' = [archive EXCEPT ![call[p].repo] = @ \cup w]
      <4>1. archive' = [archive EXCEPT
                          ![call[p].repo] = @ \cup (Archived(r, x, y) \cup {z})]
        BY <3>1 DEF Archives
      <4>2. QED
        BY <4>1
    <3>2. QED
      BY <1>2, <3>1 DEF HashBinding
  <2>2. QED
    BY <1>1, <2>1
<1>3. CASE SwapBinding(p) \/ UNCHANGED session
  BY <1>3 DEF SwapBinding, session
<1>4. QED
  BY <1>2, <1>3, BindingKept

LEMMA KeptStep ==
  ASSUME TypeInv, TypeInv', Kept, NEW p \in Proc, Step(p)
  PROVE  Kept'
<1> DEFINE r == call[p].repo
           New(c) == NewBinding(c.prior, c.herdr)
<1>1. /\ pc \in [Proc -> PcLabel] /\ call \in [Proc -> Call] /\ call[p] \in Call
      /\ binding \in [Repo -> Binding \cup {None}]
      /\ archive \in [Repo -> SUBSET Binding]
  BY DEF TypeInv, FilesOK
<1>2. \A s \in Repo : archive[s] \subseteq archive'[s]
  BY ArchivesGrow
<1>3. ASSUME NEW q \in Proc \ {p}, pc'[q] = "swap"
      PROVE  New(call'[q]) \in archive'[call'[q].repo]
  <2>1. pc[q] = "swap" /\ call'[q] = call[q]
    BY <1>3, StepMoves
  <2>2. call[q].repo \in Repo
    BY <2>1 DEF TypeInv, Shape
  <2>3. New(call[q]) \in archive[call[q].repo]
    BY <2>1 DEF Kept
  <2>4. QED
    BY <1>2, <2>1, <2>2, <2>3
<1>4. CASE UNCHANGED session /\ pc'[p] # "swap"
  <2>1. \A s \in Repo : {binding'[s]} \ {None} \subseteq archive'[s]
    BY <1>4 DEF Kept, session
  <2>2. QED
    BY <1>3, <1>4, <2>1 DEF Kept
<1>5. CASE HashBinding(p)
  <2>1. Shape("hash", call[p]) /\ r \in Repo
    BY <1>5 DEF TypeInv, HashBinding, Shape
  <2>2. binding' = binding
    BY <1>5 DEF HashBinding
  <2>3. \A s \in Repo : {binding'[s]} \ {None} \subseteq archive'[s]
    BY <1>2, <2>2 DEF Kept
  <2>4. ASSUME pc'[p] = "swap"
        PROVE  New(call'[p]) \in archive'[call'[p].repo]
    <3>1. PICK compared :
            /\ Archives(r, call[p].prior, compared, New(call[p]))
            /\ call' = [call EXCEPT ![p].compared = compared]
      BY <1>1, <1>5, <2>4 DEF HashBinding, Goes
    <3>2. /\ call'[p].prior = call[p].prior /\ call'[p].herdr = call[p].herdr
          /\ call'[p].repo = r
      BY <1>1, <3>1 DEF Call
    <3>3. New(call[p]) \in archive'[r]
      <4> DEFINE new == New(call[p])
      <4> HIDE DEF new
      <4>1. QED
        BY <1>1, <2>1, <3>1 DEF Archives, new
    <3>4. QED
      BY <3>2, <3>3
  <2>5. QED
    BY <1>3, <2>3, <2>4 DEF Kept
<1>6. CASE SwapBinding(p)
  <2> DEFINE new == New(call[p])
  <2>1. pc[p] = "swap" /\ r \in Repo /\ archive' = archive
    BY <1>6 DEF TypeInv, SwapBinding, Shape
  <2>2. new \in archive[r]
    BY <2>1 DEF Kept
  <2>3. pc'[p] # "swap"
    BY <1>1, <1>6 DEF SwapBinding, Goes, Returns
  <2>4. binding' = binding \/ binding' = [binding EXCEPT ![r] = new]
    BY <1>6 DEF SwapBinding
  <2>5. \A s \in Repo : binding'[s] = binding[s] \/ (s = r /\ binding'[s] = new)
    <3> HIDE DEF new, r
    <3>1. QED
      BY <1>1, <2>4
  <2>6. \A s \in Repo : {binding'[s]} \ {None} \subseteq archive'[s]
    BY <2>1, <2>2, <2>5 DEF Kept
  <2>7. QED
    BY <1>3, <2>3, <2>6 DEF Kept
<1>7. QED
  BY <1>4, <1>5, <1>6, BindingKept

LEMMA KeptInvariance == Spec => [](TypeInv /\ Kept)
<1>1. TypeInv /\ Kept /\ [Next]_vars => Kept'
  <2> SUFFICES ASSUME TypeInv, Kept, [Next]_vars PROVE Kept'
    OBVIOUS
  <2>1. TypeInv'
    BY TypeStep
  <2>2. CASE UNCHANGED vars
    BY <2>2 DEF vars, session, Kept
  <2>3. ASSUME NEW p \in live, Step(p) PROVE Kept'
    <3>1. p \in Proc
      BY DEF TypeInv, FilesOK
    <3>2. QED
      BY <2>1, <2>3, <3>1, KeptStep
  <2>4. QED
    BY <2>2, <2>3 DEF Next
<1>2. QED
  BY <1>1, TypeInit, TypeStep, KeptInit, PTL DEF Spec

\* However many refreshes race, no session binding is replaced that is not in
\* the archive, though a refresh that read one binding and hashed the next files
\* what it read under the hash of what it replaces: replaceBindingPointer
\* archives every binding that it makes before it swaps it in.
THEOREM ReplacedIsArchivedAlways == Spec => ReplacedIsArchived
<1> DEFINE Safe(r) ==
      binding'[r] # binding[r] /\ binding[r] # None => binding[r] \in archive[r]
<1>1. Kept => \A r \in Repo : Safe(r)
  BY DEF Kept
<1>2. QED
  BY <1>1, KeptInvariance, PTL DEF Spec, ReplacedIsArchived

-----------------------------------------------------------------------------
(***************************************************************************)
(* A repository that is left unsettled                                     *)
(***************************************************************************)
Explained(r) == Settled(r) \/ torn[r] # {}

\* A registry that is yet to be migrated has no panes, and what it maps nobody
\* registered; so it agrees with no pointer that a migration could set it against.
Unmigrated ==
    \A h \in legacy, r \in Repo :
        /\ registry[h][r] \notin Herdr
        /\ registry[h][r] # None => <<h, r>> \in inherited

\* A call finds the repository explained under its lock, and must have it
\* explained again when it releases it.  A registration has written its pointer
\* when it comes to the registry; the other updates write the registry first.
Explains(p) ==
    LET r == call[p].repo
    IN /\ pc[p] \in {"check", "release"} => Explained(r)
       /\ pc[p] \in {"update", "write"} =>
             IF call[p].op = "register"
             THEN pointer[r] = [host |-> call[p].host, herdr |-> call[p].herdr]
             ELSE Explained(r)

UInv ==
    /\ Unmigrated
    /\ \A r \in Repo : Free(repoLock[r]) => Explained(r)
    /\ \A p \in Proc : Explains(p)

LEMMA UnmigratedStep ==
  ASSUME IInv, Unmigrated, NEW p \in live, Step(p)
  PROVE  Unmigrated'
<1>1. /\ p \in Proc /\ TypeInv /\ Shape(pc[p], call[p])
      /\ registry \in [Host -> [Repo -> Mapping]] /\ legacy \subseteq Host
  BY DEF IInv, TypeInv, FilesOK
<1>2. CASE UNCHANGED <<registry, legacy, inherited>>
  BY <1>2 DEF Unmigrated
<1>3. CASE Resolve(p)
  <2>1. /\ inherited' = inherited
        /\ \/ UNCHANGED <<registry, legacy>>
           \/ /\ registry' = [registry EXCEPT ![call[p].host] = Current(call[p].host)]
              /\ legacy' = legacy \ {call[p].host}
    BY <1>3 DEF Resolve, ghosts
  <2>2. \A h \in legacy' : h \in legacy /\ registry'[h] = registry[h]
    BY <1>1, <2>1
  <2>3. QED
    BY <2>1, <2>2 DEF Unmigrated
<1>4. CASE WriteRegistry(p)
  <2>1. \/ UNCHANGED <<registry, legacy, inherited>>
        \/ \E value :
              /\ registry' = [registry EXCEPT ![call[p].host] =
                                [call[p].before EXCEPT ![call[p].repo] = value]]
              /\ legacy' = legacy \ {call[p].host}
              /\ \/ inherited' = inherited
                 \/ inherited' = inherited \ {<<call[p].host, call[p].repo>>}
    BY <1>1, <1>4, Alternatives DEF RefreshMapping, Replaces
  <2>2. CASE UNCHANGED <<registry, legacy, inherited>>
    BY <1>2, <2>2
  <2>3. CASE ~UNCHANGED <<registry, legacy, inherited>>
    <3>1. /\ legacy' = legacy \ {call[p].host}
          /\ \/ inherited' = inherited
             \/ inherited' = inherited \ {<<call[p].host, call[p].repo>>}
      BY <2>1, <2>3
    <3>2. \A h \in legacy' : h \in legacy /\ registry'[h] = registry[h]
      BY <1>1, <2>1, <2>3
    <3>3. \A h \in legacy', r \in Repo :
             <<h, r>> \in inherited => <<h, r>> \in inherited'
      BY <3>1
    <3>4. QED
      BY <3>2, <3>3 DEF Unmigrated
  <2>4. QED
    BY <2>2, <2>3
<1>5. Step(p) => \/ Resolve(p) \/ WriteRegistry(p)
                 \/ UNCHANGED <<registry, legacy, inherited>>
  BY DEF Step, Register, Unregister, Cycle, Wake, Bind, Calls, LockRepo, Release,
         ReadRegistry, Check, Point, Undo, Unlink, Repoint, Discover,
         ReadBinding, HashBinding, SwapBinding, Status, Die, mapping, ghosts
<1>6. QED
  BY <1>2, <1>3, <1>4, <1>5

\* A reason stays until the call that works on the repository, with its lock,
\* finds it settled.
LEMMA TornKept ==
  ASSUME TypeInv, NEW p \in Proc, Step(p), NEW r \in Repo,
         ~(pc[p] \in Working /\ r = call[p].repo)
  PROVE  torn[r] \subseteq torn'[r]
<1>1. /\ torn \in [Repo -> SUBSET {"death", "refused", "stale"}]
      /\ pc[p] = "check" => call[p].op \in {"register", "unregister", "cycle", "wake"}
  BY DEF TypeInv, FilesOK, Shape, Operation
<1>2. CASE Register(p) \/ Unregister(p) \/ Cycle(p) \/ Wake(p) \/ Bind(p)
  BY <1>2 DEF Register, Unregister, Cycle, Wake, Bind, Calls, ghosts
<1>3. CASE Resolve(p) \/ ReadRegistry(p) \/ WriteRegistry(p) \/ LockRepo(p)
  BY <1>3 DEF Resolve, ReadRegistry, WriteRegistry, LockRepo, ghosts
<1>4. CASE \/ Discover(p) \/ ReadBinding(p) \/ HashBinding(p)
           \/ SwapBinding(p) \/ Status(p)
  BY <1>4 DEF Discover, ReadBinding, HashBinding, SwapBinding, Status, ghosts
<1>5. CASE Release(p) \/ Check(p) \/ Point(p) \/ Undo(p) \/ Unlink(p) \/ Repoint(p)
  <2>1. pc[p] \in Working
    BY <1>5 DEF Release, Check, Point, Undo, Unlink, Repoint, Working
  <2>2. r # call[p].repo
    BY <2>1
  <2>3. torn' = torn \/ \E x : torn' = [torn EXCEPT ![call[p].repo] = x]
    BY <1>5, Alternatives DEF Release, CheckRegister, CheckUnregister, Establish,
       CheckWake, Point, Undo, Unlink, Repoint, ghosts
  <2>4. QED
    BY <1>1, <2>2, <2>3
<1>6. CASE Die(p)
  BY <1>1, <1>6 DEF Die
<1>7. QED
  BY <1>2, <1>3, <1>4, <1>5, <1>6 DEF Step

\* Pointer and registry of a repository stay as they are about it, where they
\* can disagree.
LEMMA SettledKept ==
  ASSUME IInv, Unmigrated, NEW p \in live, Step(p), NEW r \in Repo, Untouched(r),
         ~(pc[p] \in Working /\ r = call[p].repo), Settled(r)
  PROVE  Settled(r)'
<1>1. /\ p \in Proc /\ TypeInv /\ Shape(pc[p], call[p])
      /\ registry \in [Host -> [Repo -> Mapping]]
      /\ pointer \in [Repo -> Pointer \cup {None}]
  BY DEF IInv, TypeInv, FilesOK
<1>2. CASE pointer[r] = None
  <2>1. \A h \in Host : ~Registered(h, r)
    BY <1>2 DEF Settled
  <2>2. pointer'[r] = None /\ \A h \in Host : ~Registered(h, r)'
    BY <1>2, <2>1 DEF Untouched, Registered
  <2>3. QED
    BY <2>2 DEF Settled
<1>3. CASE pointer[r] # None
  <2> DEFINE h == pointer[r].host
  <2>1. pointer[r] \in Pointer
    BY <1>1, <1>3
  <2>2. h \in Host /\ pointer[r].herdr \in Herdr
    BY <2>1 DEF Pointer
  <2>3. registry[h][r] = pointer[r].herdr
    BY <1>3 DEF Settled
  <2>4. h \notin legacy
    BY <2>2, <2>3 DEF Unmigrated
  <2>5. registry'[h][r] = registry[h][r]
    <3>1. CASE registry' = registry
      BY <3>1
    <3>2. CASE Resolve(p)
      <4>1. registry' = registry \/
               registry' = [registry EXCEPT ![call[p].host] = Current(call[p].host)]
        BY <3>2 DEF Resolve
      <4>2. Current(h) = registry[h]
        BY <2>4 DEF Current
      <4> HIDE DEF h
      <4>3. registry'[h] = registry[h]
        BY <1>1, <2>2, <4>1, <4>2
      <4>4. QED
        BY <4>3
    <3>3. CASE WriteRegistry(p)
      <4>1. r # call[p].repo
        BY <3>3 DEF WriteRegistry, Working
      <4>2. \A k \in Host, s \in Repo : k # call[p].host \/ s # call[p].repo =>
               /\ registry'[k][s] = None <=> registry[k][s] = None
               /\ k \notin legacy => registry'[k][s] = registry[k][s]
               /\ <<k, s>> \in inherited' <=> <<k, s>> \in inherited
        BY <3>3, WriteKeeps
      <4>3. QED
        BY <2>2, <2>4, <4>1, <4>2
    <3>4. Step(p) => \/ Resolve(p) \/ WriteRegistry(p) \/ registry' = registry
      BY DEF Step, Register, Unregister, Cycle, Wake, Bind, Calls, LockRepo, Release,
             ReadRegistry, Check, Point, Undo, Unlink, Repoint, Discover,
             ReadBinding, HashBinding, SwapBinding, Status, Die, mapping
    <3>5. QED
      BY <3>1, <3>2, <3>3, <3>4
  <2>6. pointer'[r] = pointer[r]
    BY DEF Untouched
  <2>7. QED
    BY <1>3, <2>3, <2>5, <2>6 DEF Settled
<1>4. QED
  BY <1>2, <1>3

\* So a repository stays explained while nobody works on it.
LEMMA ExplainedKept ==
  ASSUME IInv, Unmigrated, NEW p \in live, Step(p), NEW r \in Repo,
         ~(pc[p] \in Working /\ r = call[p].repo), Explained(r)
  PROVE  Explained(r)'
<1>1. p \in Proc /\ TypeInv
  BY DEF IInv, TypeInv, FilesOK
<1>2. Untouched(r)
  BY StepOthers DEF Others
<1>3. torn[r] \subseteq torn'[r]
  BY <1>1, TornKept
<1>4. Settled(r) => Settled(r)'
  BY <1>2, SettledKept
<1>5. QED
  BY <1>3, <1>4 DEF Explained

\* What the others must explain they still do.
LEMMA ExplainsOthers ==
  ASSUME IInv, UInv, NEW p \in live, Step(p), NEW q \in Proc \ {p}
  PROVE  Explains(q)'
<1>1. /\ p \in Proc /\ Held(p) /\ Held(q) /\ Shape(pc[q], call[q])
      /\ Explains(q) /\ Unmigrated
  BY DEF IInv, TypeInv, FilesOK, UInv
<1>2. Others(p)
  BY StepOthers
<1>3. pc'[q] = pc[q] /\ call'[q] = call[q]
  BY <1>2 DEF Others
<1>4. CASE pc[q] \notin Working
  BY <1>3, <1>4 DEF Explains, Working
<1>5. CASE pc[q] \in Working
  <2>1. PICK r \in Repo : r = call[q].repo /\ repoLock[r] = q
    BY <1>1, <1>5 DEF Held, Shape, Working
  <2>2. ~(pc[p] \in Working /\ r = call[p].repo)
    BY <1>1, <2>1 DEF Held
  <2>3. pointer'[r] = pointer[r]
    BY <1>2, <2>2 DEF Others, Untouched
  <2>4. Explained(r) => Explained(r)'
    BY <1>1, <2>2, ExplainedKept
  <2>5. QED
    BY <1>1, <1>3, <2>1, <2>3, <2>4 DEF Explains
<1>6. QED
  BY <1>4, <1>5

\* Whoever gives up a lock, by releasing it or by dying, has explained.
LEMMA FreeExplained ==
  ASSUME IInv, UInv, NEW p \in live, Step(p), NEW r \in Repo, Free(repoLock[r])'
  PROVE  Explained(r)'
<1>1. /\ p \in Proc /\ Held(p) /\ Explains(p) /\ Shape(pc[p], call[p])
      /\ repoLock \in [Repo -> Proc \cup {None}] /\ live \subseteq Proc
      /\ torn \in [Repo -> SUBSET {"death", "refused", "stale"}]
      /\ TypeInv /\ Unmigrated
  BY DEF IInv, TypeInv, FilesOK, UInv
<1>2. None \notin live
  BY <1>1, OwnershipAssumption
<1>3. CASE repoLock[r] = p
  <2>1. CASE Die(p)
    <3>1. UNCHANGED <<pointer, registry, inherited>>
      BY <2>1 DEF Die, mapping
    <3>2. Settled(r)' <=> Settled(r)
      BY <3>1 DEF Settled, Registered
    <3>3. ~Settled(r) => torn'[r] # {}
      BY <1>3, <2>1 DEF Die
    <3>4. QED
      BY <3>2, <3>3 DEF Explained
  <2>2. CASE Release(p)
    <3>1. pc[p] = "release" /\ call[p].repo \in Repo /\ live' = live
          /\ repoLock' = [repoLock EXCEPT ![call[p].repo] = None]
          /\ UNCHANGED <<pointer, registry, inherited>>
      BY <1>1, <2>2 DEF Release, Shape, mapping
    <3>2. r = call[p].repo
      BY <1>1, <1>2, <1>3, <3>1 DEF Free
    <3>3. Explained(r)
      BY <1>1, <3>1, <3>2 DEF Explains
    <3>4. torn'[r] = IF Settled(r) THEN {} ELSE torn[r]
      BY <1>1, <2>2, <3>2 DEF Release
    <3>5. Settled(r)' <=> Settled(r)
      BY <3>1 DEF Settled, Registered
    <3>6. QED
      BY <3>3, <3>4, <3>5 DEF Explained
  <2>3. CASE LockRepo(p)
    <3>1. repoLock'[r] = p /\ live' = live
      BY <1>1, <1>3, <2>3 DEF LockRepo
    <3>2. QED
      BY <1>2, <3>1 DEF Free
  <2>4. CASE UNCHANGED <<repoLock, live>>
    BY <1>2, <1>3, <2>4 DEF Free
  <2>5. Step(p) => \/ Die(p) \/ Release(p) \/ LockRepo(p)
                   \/ UNCHANGED <<repoLock, live>>
    BY DEF Step, Register, Unregister, Cycle, Wake, Bind, Calls, Resolve,
           ReadRegistry, WriteRegistry, Check, Point, Undo, Unlink, Repoint,
           Discover, ReadBinding, HashBinding, SwapBinding, Status, locks
  <2>6. QED
    BY <2>1, <2>2, <2>3, <2>4, <2>5
<1>4. CASE repoLock[r] # p
  <2>1. ~(pc[p] \in Working /\ r = call[p].repo)
    BY <1>1, <1>4 DEF Held
  <2>2. Others(p)
    BY StepOthers
  <2>3. Free(repoLock[r])
    <3>1. SUFFICES ASSUME repoLock[r] \in live \ {p} PROVE FALSE
      BY <1>4 DEF Free
    <3>2. repoLock'[r] = repoLock[r] /\ repoLock[r] \in live'
      BY <2>2, <3>1 DEF Others
    <3>3. repoLock[r] # None
      BY <1>2, <3>1
    <3>4. QED
      BY <3>2, <3>3 DEF Free
  <2>4. Explained(r)
    BY <2>3 DEF UInv
  <2>5. QED
    BY <1>1, <2>1, <2>4, ExplainedKept
<1>5. QED
  BY <1>3, <1>4

\* Nothing that the explanation of a repository is about changes.
LEMMA ExplainedSame ==
  ASSUME UNCHANGED <<pointer, registry, inherited, torn>>
  PROVE  \A r \in Repo : Explained(r)' <=> Explained(r)
  BY DEF Explained, Settled, Registered

\* A process at another label has nothing to explain.
LEMMA ExplainsElsewhere ==
  ASSUME NEW p \in Proc, pc'[p] \notin {"check", "release", "update", "write"}
  PROVE  Explains(p)'
  BY DEF Explains

LEMMA ExplainsFails ==
  ASSUME TypeInv, NEW p \in Proc, Explains(p), pc[p] \in {"update", "write"}, Fails(p),
         UNCHANGED <<pointer, registry, inherited, torn, call>>
  PROVE  Explains(p)'
<1>1. pc \in [Proc -> PcLabel] /\ call[p].repo \in Repo
  BY DEF TypeInv, Shape
<1>2. CASE call[p].op = "register"
  <2>1. pc'[p] = "undo"
    BY <1>1, <1>2 DEF Fails, Goes
  <2>2. QED
    BY <2>1, ExplainsElsewhere
<1>3. CASE call[p].op # "register"
  <2>1. pc'[p] = "release"
    BY <1>1, <1>3 DEF Fails, Goes
  <2>2. Explained(call[p].repo)
    BY <1>3 DEF Explains
  <2>3. \A r \in Repo : Explained(r)' <=> Explained(r)
    BY ExplainedSame
  <2>4. call'[p].repo = call[p].repo /\ call[p].repo \in Repo
    BY <1>1
  <2>5. Explained(call[p].repo)'
    BY <2>2, <2>3, <2>4
  <2>6. QED
    BY <2>1, <2>5 DEF Explains
<1>4. QED
  BY <1>2, <1>3

\* The pointer names the host and the pane that its registry has, or a reason
\* is left.
LEMMA PointedExplained ==
  ASSUME NEW r \in Repo, NEW h \in Host, NEW herdr \in Herdr,
         pointer'[r] = [host |-> h, herdr |-> herdr],
         registry'[h][r] = herdr \/ torn'[r] # {}
  PROVE  Explained(r)'
<1>1. pointer'[r] \in Pointer
  BY DEF Pointer
<1>2. pointer'[r] # None
  BY <1>1, OwnershipAssumption
<1>3. QED
  BY <1>2 DEF Explained, Settled

\* What a check finds explained the call has to explain.
LEMMA ExplainsCheck ==
  ASSUME IInv, UInv, NEW p \in live, Check(p)
  PROVE  Explains(p)'
<1> DEFINE h == call[p].host
<1>1. /\ p \in Proc /\ TypeInv /\ pc \in [Proc -> PcLabel] /\ call \in [Proc -> Call]
      /\ Shape("check", call[p]) /\ pc[p] = "check" /\ Explains(p)
      /\ pointer \in [Repo -> Pointer \cup {None}]
      /\ torn \in [Repo -> SUBSET {"death", "refused", "stale"}]
      /\ UNCHANGED <<registry, inherited>>
  BY DEF IInv, TypeInv, FilesOK, UInv, Check
<1>2. h \in Host
  BY <1>1 DEF Shape
<1>3. PICK r \in Repo : r = call[p].repo
  BY <1>1 DEF Shape
<1>4. Explained(r)
  BY <1>1, <1>3 DEF Explains
<1>5. ASSUME Explained(r)', Goes(p, "release"), UNCHANGED call PROVE Explains(p)'
  <2>1. pc'[p] = "release" /\ call'[p].repo = r
    BY <1>1, <1>3, <1>5 DEF Goes
  <2>2. QED
    BY <1>5, <2>1 DEF Explains
<1>6. ASSUME UNCHANGED <<pointer, torn>> PROVE Explained(r)'
  BY <1>1, <1>4, <1>6, ExplainedSame
<1>7. CASE Goes(p, "release") /\ UNCHANGED <<pointer, torn, call>>
  BY <1>5, <1>6, <1>7
<1>8. CASE call[p].op = "register" /\ CheckRegister(p)
  <2>1. CASE Goes(p, "point")
    <3>1. pc'[p] = "point"
      BY <1>1, <2>1 DEF Goes
    <3>2. QED
      BY <1>1, <3>1, ExplainsElsewhere
  <2>2. QED
    BY <1>7, <1>8, <2>1 DEF CheckRegister
<1>9. CASE call[p].op = "unregister" /\ CheckUnregister(p)
  <2>1. CASE /\ Goes(p, "update") /\ UNCHANGED <<pointer, torn>>
             /\ call' = [call EXCEPT ![p].pointer = pointer[call[p].repo]]
    <3>1. pc'[p] = "update" /\ call'[p].op = "unregister" /\ call'[p].repo = r
      BY <1>1, <1>3, <1>9, <2>1 DEF Goes, Call
    <3>2. Explained(r)'
      BY <1>6, <2>1
    <3>3. QED
      BY <3>1, <3>2 DEF Explains
  <2>2. QED
    BY <1>7, <1>9, <2>1 DEF CheckUnregister
<1>10. CASE call[p].op = "cycle" /\ Establish(p)
  <2>1. Explained(r)'
    <3>1. CASE pointer[r] = None
      <4>1. call[p].seen \in Herdr
        BY <1>1, <1>10 DEF Shape
      <4>2. pointer'[r] = [host |-> h, herdr |-> call[p].seen]
        BY <1>1, <1>3, <1>10, <3>1 DEF Establish
      <4>3. registry'[h][r] = call[p].seen \/ torn'[r] # {}
        <5>1. CASE registry[h][r] = call[p].seen
          BY <1>1, <5>1
        <5>2. CASE registry[h][r] # call[p].seen
          <6>1. torn' = [torn EXCEPT ![r] = @ \cup {"stale"}]
            BY <1>3, <1>10, <3>1, <5>2 DEF Establish
          <6>2. "stale" \in torn'[r]
            BY <1>1, <6>1
          <6>3. QED
            BY <6>2
        <5>3. QED
          BY <5>1, <5>2
      <4>4. QED
        BY <1>2, <4>1, <4>2, <4>3, PointedExplained
    <3>2. CASE pointer[r] # None
      BY <1>3, <1>6, <1>10, <3>2 DEF Establish
    <3>3. QED
      BY <3>1, <3>2
  <2>2. QED
    BY <1>5, <1>10, <2>1 DEF Establish
<1>11. CASE call[p].op = "wake" /\ CheckWake(p)
  <2>1. CASE /\ Goes(p, IF call[p].seen = call[p].herdr THEN "settle" ELSE "update")
             /\ UNCHANGED <<pointer, torn>>
             /\ call' = [call EXCEPT ![p].pointer = pointer[call[p].repo]]
    <3>1. call'[p].op = "wake" /\ call'[p].repo = r
      BY <1>1, <1>3, <1>11, <2>1 DEF Call
    <3>2. pc'[p] \in {"settle", "update"}
      BY <1>1, <2>1 DEF Goes
    <3>3. Explained(r)'
      BY <1>6, <2>1
    <3>4. QED
      BY <3>1, <3>2, <3>3 DEF Explains
  <2>2. QED
    BY <1>7, <1>11, <2>1 DEF CheckWake
<1>12. QED
  BY <1>1, <1>8, <1>9, <1>10, <1>11, Alternatives

\* The registry is written before the pointer, or after it.
LEMMA ExplainsRegistry ==
  ASSUME IInv, UInv, NEW p \in live, ReadRegistry(p) \/ WriteRegistry(p)
  PROVE  Explains(p)'
<1>1. /\ p \in Proc /\ TypeInv /\ pc \in [Proc -> PcLabel] /\ call \in [Proc -> Call]
      /\ registry \in [Host -> [Repo -> Mapping]]
      /\ Shape(pc[p], call[p]) /\ Explains(p) /\ UNCHANGED <<pointer, torn>>
      /\ pc[p] \in {"update", "write"}
  BY DEF IInv, TypeInv, FilesOK, UInv, ReadRegistry, WriteRegistry, mapping, ghosts
<1>2. CASE Fails(p) /\ UNCHANGED <<registry, inherited, call>>
  BY <1>1, <1>2, ExplainsFails
<1>3. CASE ReadRegistry(p)
  <2>1. CASE /\ Goes(p, "write")
             /\ call' = [call EXCEPT ![p].before = Current(call[p].host)]
    <3>1. /\ call'[p].op = call[p].op /\ call'[p].host = call[p].host
          /\ call'[p].repo = call[p].repo /\ call'[p].herdr = call[p].herdr
      BY <1>1, <2>1 DEF Call
    <3>2. pc'[p] = "write" /\ pc[p] = "update"
      BY <1>1, <1>3, <2>1 DEF Goes, ReadRegistry
    <3>3. \A r \in Repo : Explained(r)' <=> Explained(r)
      BY <1>1, <1>3, ExplainedSame DEF ReadRegistry, mapping, ghosts
    <3>4. PICK r \in Repo : r = call[p].repo
      BY <1>1 DEF Shape
    <3>5. Explained(r) => Explained(r)'
      BY <3>3
    <3>6. QED
      BY <1>1, <3>1, <3>2, <3>4, <3>5 DEF Explains
  <2>2. QED
    BY <1>2, <1>3, <2>1 DEF ReadRegistry, mapping, ghosts
<1>4. CASE WriteRegistry(p)
  <2>1. pc[p] = "write" /\ UNCHANGED call
    BY <1>4 DEF WriteRegistry
  <2>2. CASE Goes(p, "settle")
    <3>1. pc'[p] = "settle"
      BY <1>1, <2>2 DEF Goes
    <3>2. QED
      BY <1>1, <3>1, ExplainsElsewhere
  <2>3. CASE call[p].op = "register" /\ Replaces(p, call[p].herdr, "release")
    <3>1. CASE /\ Goes(p, "release")
               /\ registry' = [registry EXCEPT ![call[p].host] =
                     [call[p].before EXCEPT ![call[p].repo] = call[p].herdr]]
      <4>1. PICK r \in Repo, h \in Host, herdr \in Herdr :
               /\ r = call[p].repo /\ h = call[p].host /\ herdr = call[p].herdr
               /\ call[p].before \in [Repo -> Mapping]
        BY <1>1, <2>1, <2>3 DEF Shape
      <4>2. registry'[h][r] = herdr
        BY <1>1, <3>1, <4>1
      <4>3. pointer'[r] = [host |-> h, herdr |-> herdr]
        BY <1>1, <2>1, <2>3, <4>1 DEF Explains
      <4>4. Explained(r)'
        BY <4>2, <4>3, PointedExplained
      <4>5. pc'[p] = "release" /\ call'[p].repo = r
        BY <1>1, <2>1, <3>1, <4>1 DEF Goes
      <4>6. QED
        BY <4>4, <4>5 DEF Explains
    <3>2. QED
      BY <1>2, <2>1, <2>3, <3>1 DEF Replaces
  <2>4. CASE call[p].op = "unregister" /\ Replaces(p, None, "settle")
    BY <1>2, <2>1, <2>2, <2>4 DEF Replaces
  <2>5. CASE call[p].op = "wake" /\ RefreshMapping(p)
    BY <1>2, <2>1, <2>2, <2>5 DEF RefreshMapping, Replaces
  <2>6. QED
    BY <1>1, <1>4, <2>3, <2>4, <2>5, Alternatives
<1>5. QED
  BY <1>3, <1>4

\* A pointer is written with what the registry has, or a reason is left.
LEMMA ExplainsPointer ==
  ASSUME IInv, UInv, NEW p \in live, Point(p) \/ Undo(p) \/ Unlink(p) \/ Repoint(p)
  PROVE  Explains(p)'
<1>1. /\ p \in Proc /\ pc \in [Proc -> PcLabel] /\ Midway(p)
      /\ Shape(pc[p], call[p]) /\ Explains(p)
      /\ pointer \in [Repo -> Pointer \cup {None}]
      /\ torn \in [Repo -> SUBSET {"death", "refused", "stale"}]
      /\ \A r \in Repo : OwnedBy(r)
  BY DEF IInv, TypeInv, FilesOK, UInv, RegisteredIsOwned, OwnedBy
<1>2. UNCHANGED <<registry, inherited, call>> /\ pc[p] \in {"point", "undo", "settle"}
  BY DEF Point, Undo, Unlink, Repoint, ghosts
<1>3. PICK r \in Repo, h \in Host : r = call[p].repo /\ h = call[p].host
  BY <1>1, <1>2 DEF Shape
<1>4. ASSUME pointer'[r] = None, \A k \in Host : ~Registered(k, r)
      PROVE  Explained(r)'
  BY <1>2, <1>4 DEF Explained, Settled, Registered
<1>5. ASSUME Explained(r)', Goes(p, "release") PROVE Explains(p)'
  <2>1. pc'[p] = "release" /\ call'[p].repo = r
    BY <1>1, <1>2, <1>3, <1>5 DEF Goes
  <2>2. QED
    BY <1>5, <2>1 DEF Explains
<1>6. CASE Point(p)
  <2>1. pc[p] = "point" /\ pc'[p] = "update" /\ call[p].op = "register"
    BY <1>1, <1>6 DEF Point, Goes, Shape
  <2>2. pointer'[r] = [host |-> h, herdr |-> call[p].herdr]
    BY <1>1, <1>3, <1>6 DEF Point
  <2>3. QED
    BY <1>2, <1>3, <2>1, <2>2 DEF Explains
<1>7. CASE Undo(p)
  <2>1. pc[p] = "undo" /\ call[p].op = "register"
    BY <1>1, <1>7 DEF Undo, Shape
  <2>2. CASE call[p].pointer = None
    <3>1. pointer'[r] = None
      BY <1>1, <1>3, <1>7, <2>2 DEF Undo
    <3>2. \A k \in Host : ~Registered(k, r)
      BY <1>1, <1>3, <2>1, <2>2 DEF Midway
    <3>3. QED
      BY <1>4, <1>5, <1>7, <3>1, <3>2 DEF Undo
  <2>3. CASE call[p].pointer # None
    <3>1. "refused" \in torn'[r]
      BY <1>1, <1>3, <1>7, <2>3 DEF Undo
    <3>2. Explained(r)'
      BY <3>1 DEF Explained
    <3>3. QED
      BY <1>5, <1>7, <3>2 DEF Undo
  <2>4. QED
    BY <2>2, <2>3
<1>8. CASE Unlink(p)
  <2>1. /\ pc[p] = "settle" /\ Mine(p) /\ registry[h][r] = None
    BY <1>1, <1>3, <1>8 DEF Unlink, Midway
  <2>2. \A k \in Host : ~Registered(k, r)
    BY <1>1, <1>3, <2>1 DEF OwnedBy, Registered, Mine
  <2>3. pointer'[r] = None
    BY <1>1, <1>3, <1>8 DEF Unlink
  <2>4. QED
    BY <1>4, <1>5, <1>8, <2>2, <2>3 DEF Unlink
<1>9. CASE Repoint(p)
  <2>1. pc[p] = "settle" /\ call[p].op = "wake"
    BY <1>9 DEF Repoint
  <2>2. call[p].herdr \in Herdr /\ call[p].pointer.host = h
    BY <1>1, <1>3, <2>1 DEF Shape, Midway
  <2>3. pointer'[r] = [host |-> h, herdr |-> call[p].herdr]
    BY <1>1, <1>3, <1>9, <2>2 DEF Repoint
  <2>4. registry'[h][r] = call[p].herdr \/ torn'[r] # {}
    BY <1>1, <1>2, <1>3, <1>9 DEF Repoint
  <2>5. Explained(r)'
    BY <2>2, <2>3, <2>4, PointedExplained
  <2>6. QED
    BY <1>5, <1>9, <2>5 DEF Repoint
<1>10. QED
  BY <1>6, <1>7, <1>8, <1>9

LEMMA ExplainsLock ==
  ASSUME IInv, UInv, NEW p \in live, LockRepo(p)
  PROVE  Explains(p)'
<1>1. /\ p \in Proc /\ pc \in [Proc -> PcLabel] /\ Shape("lock", call[p])
      /\ UNCHANGED <<pointer, registry, inherited, torn>>
  BY DEF IInv, TypeInv, FilesOK, LockRepo, mapping, ghosts
<1>2. CASE Returns(p)
  <2>1. pc'[p] = "idle"
    BY <1>1, <1>2 DEF Returns
  <2>2. QED
    BY <1>1, <2>1, ExplainsElsewhere
<1>3. CASE Free(repoLock[call[p].repo]) /\ Goes(p, "check") /\ UNCHANGED call
  <2>1. PICK r \in Repo : r = call[p].repo
    BY <1>1 DEF Shape
  <2>2. Explained(r)
    BY <1>3, <2>1 DEF UInv
  <2>3. Explained(r)'
    BY <1>1, <2>2, ExplainedSame
  <2>4. pc'[p] = "check" /\ call'[p].repo = r
    BY <1>1, <1>3, <2>1 DEF Goes
  <2>5. QED
    BY <2>3, <2>4 DEF Explains
<1>4. QED
  BY <1>2, <1>3 DEF LockRepo

\* The other steps leave a process where it has nothing to explain.
LEMMA ExplainsRest ==
  ASSUME IInv, NEW p \in live,
         \/ Register(p) \/ Unregister(p) \/ Cycle(p) \/ Wake(p) \/ Bind(p)
         \/ Release(p) \/ Resolve(p) \/ Discover(p) \/ ReadBinding(p)
         \/ HashBinding(p) \/ SwapBinding(p) \/ Status(p) \/ Die(p)
  PROVE  Explains(p)'
<1>1. p \in Proc /\ pc \in [Proc -> PcLabel]
  BY DEF IInv, TypeInv, FilesOK
<1>2. \E l \in {"lock", "resolve", "discover", "idle", "replace", "hash", "swap",
                "status", "reread", "dead"} : pc' = [pc EXCEPT ![p] = l]
  BY DEF Register, Unregister, Cycle, Wake, Bind, Calls, Release, Resolve, Discover,
         ReadBinding, HashBinding, SwapBinding, Status, Die, Goes, Returns
<1>3. pc'[p] \notin {"check", "release", "update", "write"}
  BY <1>1, <1>2
<1>4. QED
  BY <1>1, <1>3, ExplainsElsewhere

LEMMA ExplainedInit == Init => UInv
<1> SUFFICES ASSUME Init PROVE UInv
  OBVIOUS
<1>1. PICK owner \in [Repo -> Host \cup {None}] :
        /\ \A r \in Repo : owner[r] # None =>
              /\ binding[r] # None
              /\ \A s \in Repo : <<owner[r], s>> \notin Legacy
        /\ pointer = [r \in Repo |->
              IF owner[r] = None THEN None
              ELSE [host |-> owner[r], herdr |-> binding[r].herdr]]
        /\ registry = [h \in Host |-> [r \in Repo |->
              IF owner[r] = h THEN binding[r].herdr
              ELSE IF <<h, r>> \in Legacy THEN Unpaired ELSE None]]
  BY DEF Init
<1>2. TypeInv /\ inherited = Legacy /\ legacy = {s[1] : s \in Legacy}
  BY TypeInit DEF Init
<1>3. None \notin Herdr /\ Unpaired \notin Herdr /\ None \notin Host
  BY OwnershipAssumption
<1>4. Unmigrated
  <2>1. ASSUME NEW h \in legacy, NEW r \in Repo
        PROVE  /\ registry[h][r] \notin Herdr
               /\ registry[h][r] # None => <<h, r>> \in inherited
    <3>1. PICK s \in Legacy : h = s[1]
      BY <1>2
    <3>2. s \in Host \X Repo
      BY OwnershipAssumption
    <3>3. h \in Host /\ s[2] \in Repo /\ <<h, s[2]>> \in Legacy
      BY <3>1, <3>2
    <3>4. owner[r] # h
      BY <1>1, <1>3, <3>3
    <3>5. registry[h][r] = IF <<h, r>> \in Legacy THEN Unpaired ELSE None
      BY <1>1, <3>3, <3>4
    <3>6. QED
      BY <1>2, <1>3, <3>5
  <2>2. QED
    BY <2>1 DEF Unmigrated
<1>5. ASSUME NEW r \in Repo PROVE Settled(r)
  <2>1. CASE owner[r] = None
    <3>1. pointer[r] = None
      BY <1>1, <2>1
    <3>2. \A h \in Host : registry[h][r] = None \/ <<h, r>> \in Legacy
      BY <1>1, <1>3, <2>1
    <3>3. QED
      BY <1>2, <3>1, <3>2 DEF Settled, Registered
  <2>2. CASE owner[r] # None
    <3>1. pointer[r] = [host |-> owner[r], herdr |-> binding[r].herdr]
      BY <1>1, <2>2
    <3>2. registry[owner[r]][r] = binding[r].herdr
      BY <1>1, <2>2
    <3>3. pointer[r] \in Pointer
      BY <1>1, <1>2, <2>2, <3>1 DEF TypeInv, FilesOK, Binding, Pointer
    <3>4. pointer[r] # None
      BY <3>3, OwnershipAssumption
    <3>5. QED
      BY <3>1, <3>2, <3>4 DEF Settled
  <2>3. QED
    BY <2>1, <2>2
<1>6. \A p \in Proc : Explains(p)
  BY DEF Init, Explains
<1>7. QED
  BY <1>4, <1>5, <1>6 DEF UInv, Explained

LEMMA ExplainedStep == IInv /\ UInv /\ [Next]_vars => UInv'
<1> SUFFICES ASSUME IInv, UInv, [Next]_vars PROVE UInv'
  OBVIOUS
<1>1. CASE UNCHANGED vars
  <2>1. \A r \in Repo : Explained(r)' <=> Explained(r)
    BY <1>1, ExplainedSame DEF vars, mapping, ghosts
  <2>2. (\A r \in Repo : Free(repoLock[r]) => Explained(r))'
    BY <1>1, <2>1 DEF UInv, Free, vars, locks
  <2>3. Unmigrated'
    BY <1>1 DEF UInv, Unmigrated, vars, mapping, ghosts
  <2>4. \A p \in Proc : Explains(p)'
    BY <1>1 DEF UInv, Explains, Explained, Settled, Registered, vars, mapping, ghosts
  <2>5. QED
    BY <2>2, <2>3, <2>4 DEF UInv
<1>2. ASSUME NEW p \in live, Step(p) PROVE UInv'
  <2>1. Unmigrated'
    BY <1>2, UnmigratedStep DEF UInv
  <2>2. (\A r \in Repo : Free(repoLock[r]) => Explained(r))'
    BY <1>2, FreeExplained
  <2>3. Explains(p)'
    <3>1. CASE \/ Register(p) \/ Unregister(p) \/ Cycle(p) \/ Wake(p) \/ Bind(p)
               \/ Release(p) \/ Resolve(p) \/ Discover(p) \/ ReadBinding(p)
               \/ HashBinding(p) \/ SwapBinding(p) \/ Status(p) \/ Die(p)
      BY <1>2, <3>1, ExplainsRest
    <3>2. CASE LockRepo(p)
      BY <1>2, <3>2, ExplainsLock
    <3>3. CASE Check(p)
      BY <1>2, <3>3, ExplainsCheck
    <3>4. CASE ReadRegistry(p) \/ WriteRegistry(p)
      BY <1>2, <3>4, ExplainsRegistry
    <3>5. CASE Point(p) \/ Undo(p) \/ Unlink(p) \/ Repoint(p)
      BY <1>2, <3>5, ExplainsPointer
    <3>6. QED
      BY <1>2, <3>1, <3>2, <3>3, <3>4, <3>5 DEF Step
  <2>4. \A q \in Proc : Explains(q)'
    BY <1>2, <2>3, ExplainsOthers
  <2>5. QED
    BY <2>1, <2>2, <2>4 DEF UInv
<1>3. QED
  BY <1>1, <1>2 DEF Next

\* Pointer and registry agree about a repository that nobody works on, and
\* neither is without the other, unless a death, a refused registration or a
\* mapping read before the lock explains it: every call that ends normally, in
\* whichever order it writes the two files, leaves them settled or says why not.
THEOREM UnsettledIsExplainedAlways == Spec => []UnsettledIsExplained
<1>1. UInv => UnsettledIsExplained
  BY DEF UInv, Explained, UnsettledIsExplained
<1>2. QED
  BY <1>1, ExplainedInit, ExplainedStep, OwnershipInvariance, PTL DEF Spec

===============================================================================
