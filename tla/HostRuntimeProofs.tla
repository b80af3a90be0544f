--------------------------- MODULE HostRuntimeProofs ---------------------------
(***************************************************************************)
(* Proofs about HostRuntime for any number of start commands, service      *)
(* processes, releases, upgrades, deaths and faults.                       *)
(*                                                                         *)
(* Between the reading of the service record and its replacement a start   *)
(* command holds the lock and no recorded service lives (Starting), so the *)
(* service that works is always the recorded one (Serving).  A start that  *)
(* passed its check before the upgrade announced itself is early, no other *)
(* passes while the upgrade runs (Expected), and after an inventory that   *)
(* found no service only early ones come (Served).                         *)
(***************************************************************************)
EXTENDS HostRuntime, TLAPS

\* A start command that has passed its check and has not recorded its service.
Entering == {"lock", "read", "spawn", "record"}
\* The service has found itself in the record.
Working(p) == proc[p].pc \notin {"none", "boot"}
\* The recorded service is there.
Current(p) == Live(p) /\ service.pid = p

\* What a start command holds and relies on.
Starting(s) ==
    /\ start[s].pc \in {"read", "spawn", "record", "await"} => lock = s
    /\ start[s].pc \in {"record", "await"} => start[s].pid \in Slot
    /\ start[s].pc \notin {"record", "await"} => start[s].pid = None
    /\ start[s].pc \notin {"idle", "ended"} => start[s].rel \in Release
    /\ start[s].pc \in {"spawn", "record"} => ~Live(service.pid)
    /\ start[s].pc = "record" =>
          /\ service.pid # start[s].pid
          /\ Live(start[s].pid) =>
                /\ proc[start[s].pid].gen = start[s].gen
                /\ proc[start[s].pid].rel = start[s].rel

\* Only the recorded service works, and it knows the record.
Serving(p) ==
    /\ Working(p) => service.pid = p /\ service.status = "OWNED"
    /\ Current(p) => proc[p].gen = service.gen /\ service.status # "STOPPED"
    /\ proc[p].pc = "beat" => proc[p].seen = service

Frozen == {"INVENTORIED", "MIGRATING", "MIGRATED"}
PhaseAt(label) ==
    CASE label = "install" -> "LOCKED"
      [] label = "quiesce" -> "INSTALLED"
      [] label \in {"signal", "judge"} -> "QUIESCING"
      [] label = "migrate" -> "INVENTORIED"
      [] label = "migrating" -> "MIGRATING"
      [] label \in {"switch", "switched"} -> "MIGRATED"
      [] label \in {"start", "await"} -> "SWITCHED"

\* What an upgrade in progress has announced, and how far current may be.
Announcing ==
    /\ up.pc # "idle" =>
          /\ upgrade # None /\ upgrade.status = "RUNNING"
          /\ upgrade.phase = PhaseAt(up.pc)
          /\ up.target \in Release /\ upgrade.target = up.target
    /\ up.pc \notin {"idle", "install"} /\ current # None => current <= up.target

Announced ==
    /\ upgrade # None /\ upgrade.status = "RUNNING"
    /\ upgrade.phase # "SWITCHED"

\* A start command that may still bring a service is early, or of the current
\* release with no upgrade announced.
Expected(s) ==
    start[s].pc \in Entering =>
       /\ Announced => start[s].early
       /\ current # None => start[s].rel = current \/ start[s].early

\* The upgrade has seen that there is no service, or says so.
Emptied ==
    \/ Announced /\ upgrade.phase \in Frozen
    \/ up.pc \in {"signal", "judge"} /\ up.service = None

Served(p) ==
    Current(p) =>
       /\ Emptied => proc[p].early
       /\ current # None => proc[p].rel = current \/ proc[p].early

RInv ==
    /\ TypeOK /\ service # None
    /\ Announcing
    /\ \A s \in Caller : Starting(s) /\ Expected(s)
    /\ \A p \in Slot : Serving(p) /\ Served(p)

-------------------------------------------------------------------------------
(***************************************************************************)
(* Types                                                                   *)
(***************************************************************************)
Command == [pc : {"idle", "check", "lock", "read", "spawn", "record", "await",
                  "ended"},
            rel : Release \cup {None}, pid : Slot \cup {None}, gen : Nat,
            ok : BOOLEAN, early : BOOLEAN]
Service == [pc : {"none", "boot", "loop", "cycle", "launching", "beat", "stop"},
            rel : Release \cup {None}, gen : Nat, term : BOOLEAN,
            seen : Record \cup {None}, early : BOOLEAN]
Progress == [pc : {"idle", "install", "quiesce", "signal", "judge", "migrate",
                   "migrating", "switch", "switched", "start", "await"},
             target : Release \cup {None}, service : Slot \cup {None},
             runner : BOOLEAN]

Run == [request : {"none", "LAUNCHING", "settled"}, live : BOOLEAN, known : BOOLEAN]
Spent == [start : 0..MaxStarts, stop : 0..MaxStops, upgrade : 0..MaxUpgrades,
          crash : 0..MaxCrashes, fault : 0..MaxFaults]

LEMMA Shapes ==
  /\ NoStart \in Command /\ NoProcess \in Service /\ NoUpgrade \in Progress
  /\ TypeOK <=>
        /\ current \in Release \cup {None} /\ upgrade \in Upgrade \cup {None}
        /\ service \in Record \cup {None} /\ lock \in Caller \cup {None}
        /\ start \in [Caller -> Command] /\ proc \in [Slot -> Service]
        /\ runner \in Run
        /\ up \in Progress /\ spent \in Spent
<1>1. NoStart \in Command /\ NoProcess \in Service /\ NoUpgrade \in Progress
  BY DEF NoStart, Command, NoProcess, Service, NoUpgrade, Progress
<1>2. QED
  BY <1>1 DEF TypeOK, Command, Service, Progress, Run, Spent

LEMMA ShapesNext ==
  TypeOK' <=>
     /\ current' \in Release \cup {None} /\ upgrade' \in Upgrade \cup {None}
     /\ service' \in Record \cup {None} /\ lock' \in Caller \cup {None}
     /\ start' \in [Caller -> Command] /\ proc' \in [Slot -> Service]
     /\ runner' \in Run
     /\ up' \in Progress /\ spent' \in Spent
  BY DEF TypeOK, Command, Service, Progress, Run, Spent

\* What is spent stays within its bound.
LEMMA Spending ==
  ASSUME TypeOK,
         \/ Spend("start", MaxStarts) \/ Spend("stop", MaxStops)
         \/ Spend("upgrade", MaxUpgrades) \/ Spend("crash", MaxCrashes)
         \/ Spend("fault", MaxFaults)
  PROVE  spent' \in Spent
  BY HostAssumption DEF TypeOK, Spend, Spent

\* Replacing the state of one command or one process.
LEMMA Replacing ==
  ASSUME TypeOK
  PROVE  /\ \A s \in Caller, c \in Command :
               /\ [start EXCEPT ![s] = c] \in [Caller -> Command]
               /\ [start EXCEPT ![s] = c][s] = c
               /\ \A r \in Caller \ {s} : [start EXCEPT ![s] = c][r] = start[r]
         /\ \A p \in Slot, c \in Service :
               /\ [proc EXCEPT ![p] = c] \in [Slot -> Service]
               /\ [proc EXCEPT ![p] = c][p] = c
               /\ \A q \in Slot \ {p} : [proc EXCEPT ![p] = c][q] = proc[q]
  BY Shapes

\* A command that goes on keeps what it knows.
LEMMA GoesOn ==
  ASSUME TypeOK, NEW s \in Caller,
         NEW l \in {"idle", "check", "lock", "read", "spawn", "record", "await", "ended"},
         StartGo(s, l)
  PROVE  /\ start' \in [Caller -> Command]
         /\ \A r \in Caller \ {s} : start'[r] = start[r]
         /\ start'[s].pc = l /\ start'[s].rel = start[s].rel
         /\ start'[s].pid = start[s].pid /\ start'[s].gen = start[s].gen
         /\ start'[s].early = start[s].early
<1>1. start[s] \in Command /\ start \in [Caller -> Command]
  BY Shapes
<1>2. start' = [start EXCEPT ![s] = [start[s] EXCEPT !.pc = l]]
  BY DEF StartGo
<1>3. start'[s] = [start[s] EXCEPT !.pc = l]
  BY <1>1, <1>2
<1>4. [start[s] EXCEPT !.pc = l] \in Command
  BY <1>1 DEF Command
<1>5. QED
  BY <1>1, <1>2, <1>3, <1>4 DEF Command

\* A command that ends knows nothing and has no lock.
LEMMA EndEffect ==
  ASSUME TypeOK, NEW s \in Caller, NEW ok \in BOOLEAN, End(s, ok)
  PROVE  /\ start' \in [Caller -> Command] /\ lock' \in Caller \cup {None}
         /\ \A r \in Caller \ {s} : start'[r] = start[r]
         /\ start'[s].pc \in {"idle", "ended"} /\ start'[s].pid = None
         /\ \A r \in Caller \ {s} : lock = r => lock' = r
<1>1. \E c \in Command : /\ start' = [start EXCEPT ![s] = c]
                         /\ c.pc \in {"idle", "ended"} /\ c.pid = None
  <2>1. NoStart \in Command /\ [NoStart EXCEPT !.pc = "ended", !.ok = ok] \in Command
    BY DEF NoStart, Command
  <2>2. QED
    BY <2>1 DEF End, NoStart
<1>2. lock' \in Caller \cup {None} /\ \A r \in Caller \ {s} : lock = r => lock' = r
  BY DEF End, TypeOK
<1>3. QED
  BY <1>1, <1>2, Replacing

\* A service that goes on, is gone, or is signalled.
LEMMA ServiceGoes ==
  ASSUME TypeOK, NEW p \in Slot,
         NEW l \in {"boot", "loop", "cycle", "launching", "beat", "stop"}, Goes(p, l)
  PROVE  /\ proc' \in [Slot -> Service]
         /\ \A q \in Slot \ {p} : proc'[q] = proc[q]
         /\ proc'[p].pc = l /\ proc'[p].rel = proc[p].rel /\ proc'[p].gen = proc[p].gen
         /\ proc'[p].early = proc[p].early
<1>1. proc[p] \in Service /\ proc \in [Slot -> Service]
  BY Shapes
<1>2. proc' = [proc EXCEPT ![p] = [proc[p] EXCEPT !.pc = l]]
  BY DEF Goes
<1>3. proc'[p] = [proc[p] EXCEPT !.pc = l]
  BY <1>1, <1>2
<1>4. [proc[p] EXCEPT !.pc = l] \in Service
  BY <1>1 DEF Service
<1>5. QED
  BY <1>1, <1>2, <1>3, <1>4 DEF Service

LEMMA ServiceExits ==
  ASSUME TypeOK, NEW p \in Slot, Exits(p)
  PROVE  /\ proc' \in [Slot -> Service]
         /\ \A q \in Slot \ {p} : proc'[q] = proc[q]
         /\ proc'[p].pc = "none"
<1>1. NoProcess \in Service /\ NoProcess.pc = "none"
  BY DEF NoProcess, Service
<1>2. QED
  BY <1>1, Replacing DEF Exits

LEMMA ServiceSignalled ==
  ASSUME TypeOK, NEW p \in Slot, Signalled(p)
  PROVE  /\ proc' \in [Slot -> Service]
         /\ \A q \in Slot \ {p} : proc'[q] = proc[q]
         /\ \/ proc'[p].pc = "none"
            \/ /\ proc'[p].pc = proc[p].pc /\ proc'[p].rel = proc[p].rel
               /\ proc'[p].gen = proc[p].gen /\ proc'[p].early = proc[p].early
               /\ proc'[p].seen = proc[p].seen
<1>1. CASE Exits(p)
  BY <1>1, ServiceExits
<1>2. CASE proc' = [proc EXCEPT ![p].term = TRUE]
  <2>1. proc[p] \in Service /\ proc \in [Slot -> Service]
    BY Shapes
  <2>2. proc' = [proc EXCEPT ![p] = [proc[p] EXCEPT !.term = TRUE]]
    BY <1>2
  <2>3. proc'[p] = [proc[p] EXCEPT !.term = TRUE]
    BY <2>1, <2>2
  <2>4. [proc[p] EXCEPT !.term = TRUE] \in Service
    BY <2>1 DEF Service
  <2>5. QED
    BY <2>1, <2>2, <2>3, <2>4 DEF Service
<1>3. QED
  BY <1>1, <1>2 DEF Signalled

-------------------------------------------------------------------------------
(***************************************************************************)
(* Start commands                                                          *)
(***************************************************************************)
\* A step of one command that leaves record and processes alone.
LEMMA CommandKeeps ==
  ASSUME RInv, NEW s \in Caller,
         start' \in [Caller -> Command], lock' \in Caller \cup {None}, spent' \in Spent,
         UNCHANGED <<current, upgrade, service, proc, runner, up>>,
         \A r \in Caller \ {s} : start'[r] = start[r] /\ (lock = r => lock' = r),
         Starting(s)', Expected(s)'
  PROVE  RInv'
<1> USE DEF RInv
<1>1. TypeOK' /\ service' # None
  BY Shapes, ShapesNext
<1>2. Announcing'
  BY DEF Announcing
<1>3. ASSUME NEW r \in Caller, r # s
      PROVE  Starting(r)' /\ Expected(r)'
  <2>1. Starting(r) /\ Expected(r) /\ start'[r] = start[r] /\ (lock = r => lock' = r)
    BY <1>3
  <2>2. Starting(r)'
    BY <2>1 DEF Starting, Live
  <2>3. Expected(r)'
    BY <2>1 DEF Expected, Announced
  <2>4. QED
    BY <2>2, <2>3
<1>4. ASSUME NEW p \in Slot
      PROVE  Serving(p)' /\ Served(p)'
  <2>1. Serving(p) /\ Served(p)
    OBVIOUS
  <2>2. QED
    BY <2>1 DEF Serving, Served, Working, Current, Live, Emptied, Announced
<1>5. QED
  BY <1>1, <1>2, <1>3, <1>4

LEMMA EndKeeps ==
  ASSUME RInv, NEW s \in Caller, NEW ok \in BOOLEAN, End(s, ok), spent' \in Spent,
         UNCHANGED <<current, upgrade, service, proc, runner, up>>
  PROVE  RInv'
<1>1. /\ start' \in [Caller -> Command] /\ lock' \in Caller \cup {None}
      /\ \A r \in Caller \ {s} : start'[r] = start[r] /\ (lock = r => lock' = r)
      /\ start'[s].pc \in {"idle", "ended"} /\ start'[s].pid = None
  BY EndEffect DEF RInv
<1>2. Starting(s)' /\ Expected(s)'
  BY <1>1 DEF Starting, Expected, Entering
<1>3. QED
  BY <1>1, <1>2, CommandKeeps

LEMMA BeginsKeeps ==
  ASSUME RInv, NEW s \in Caller, StartBegins(s)
  PROVE  RInv'
<1>1. start[s] \in Command /\ start[s].pid = None /\ start[s].pc = "idle"
  BY Shapes DEF RInv, Starting, StartBegins
<1>2. PICK rel \in Release :
         start' = [start EXCEPT ![s] = [start[s] EXCEPT !.pc = "check", !.rel = rel]]
  BY DEF StartBegins
<1>3. LET c == [start[s] EXCEPT !.pc = "check", !.rel = rel]
      IN  c \in Command /\ c.pc = "check" /\ c.rel = rel /\ c.pid = None
  BY <1>1 DEF Command
<1>4. /\ start' \in [Caller -> Command]
      /\ \A r \in Caller \ {s} : start'[r] = start[r]
      /\ start'[s].pc = "check" /\ start'[s].rel = rel /\ start'[s].pid = None
  BY <1>2, <1>3, Replacing DEF RInv
<1>5. Starting(s)' /\ Expected(s)'
  BY <1>4 DEF Starting, Expected, Entering
<1>6. QED
  BY <1>4, <1>5, CommandKeeps, Spending DEF StartBegins, RInv, TypeOK

LEMMA ChecksKeeps ==
  ASSUME RInv, NEW s \in Caller, StartChecks(s)
  PROVE  RInv'
<1>1. spent' \in Spent /\ UNCHANGED <<current, upgrade, service, proc, runner, up>>
  BY Shapes DEF RInv, StartChecks
<1>2. CASE Allowed(start[s].rel)
  <2>1. StartGo(s, "lock") /\ UNCHANGED lock /\ start[s].pc = "check"
    BY <1>2 DEF StartChecks
  <2>2. /\ start' \in [Caller -> Command]
        /\ \A r \in Caller \ {s} : start'[r] = start[r]
        /\ start'[s].pc = "lock" /\ start'[s].rel = start[s].rel
        /\ start'[s].pid = start[s].pid
    BY <2>1, GoesOn DEF RInv
  <2>3. Starting(s)'
    BY <2>1, <2>2 DEF RInv, Starting
  <2>4. ~Announced /\ (current # None => start[s].rel = current)
    BY <1>2 DEF Allowed, Announced
  <2>5. Expected(s)'
    BY <1>1, <2>2, <2>4 DEF Expected, Announced
  <2>6. QED
    BY <1>1, <2>1, <2>2, <2>3, <2>5, CommandKeeps DEF RInv, TypeOK
<1>3. CASE ~Allowed(start[s].rel)
  BY <1>1, <1>3, EndKeeps DEF StartChecks
<1>4. QED
  BY <1>2, <1>3

LEMMA LocksKeeps ==
  ASSUME RInv, NEW s \in Caller, StartLocks(s)
  PROVE  RInv'
<1>1. spent' \in Spent /\ UNCHANGED <<current, upgrade, service, proc, runner, up>>
  BY Shapes DEF RInv, StartLocks
<1>2. CASE lock = None
  <2>1. StartGo(s, "read") /\ lock' = s /\ start[s].pc = "lock"
    BY <1>2 DEF StartLocks
  <2>2. /\ start' \in [Caller -> Command]
        /\ \A r \in Caller \ {s} : start'[r] = start[r]
        /\ start'[s].pc = "read" /\ start'[s].rel = start[s].rel
        /\ start'[s].pid = start[s].pid /\ start'[s].early = start[s].early
    BY <2>1, GoesOn DEF RInv
  <2>3. Starting(s)'
    BY <2>1, <2>2 DEF RInv, Starting
  <2>4. Expected(s)'
    BY <1>1, <2>1, <2>2 DEF RInv, Expected, Announced, Entering
  <2>5. \A r \in Caller \ {s} : lock # r
    BY <1>2, HostAssumption
  <2>6. QED
    BY <1>1, <2>1, <2>2, <2>3, <2>4, <2>5, CommandKeeps
<1>3. CASE lock # None
  BY <1>1, <1>3, EndKeeps DEF StartLocks
<1>4. QED
  BY <1>2, <1>3

\* A start goes on to spawn only if no recorded service lives.
LEMMA ReadsKeeps ==
  ASSUME RInv, NEW s \in Caller, StartReads(s)
  PROVE  RInv'
<1>1. spent' \in Spent /\ UNCHANGED <<current, upgrade, service, proc, runner, up>>
      /\ start[s].pc = "read"
  BY Shapes DEF RInv, StartReads
<1>2. CASE ServiceLive /\ (\/ service.rel # start[s].rel
                           \/ service.status \in {"LAUNCHED", "OWNED"})
  <2>1. (service.rel = start[s].rel) \in BOOLEAN
    OBVIOUS
  <2>2. QED
    BY <1>1, <1>2, <2>1, EndKeeps DEF StartReads
<1>3. CASE ~(ServiceLive /\ (\/ service.rel # start[s].rel
                             \/ service.status \in {"LAUNCHED", "OWNED"}))
  <2>1. service \in Record /\ service.pid \in Slot /\ service.gen \in Nat
    BY DEF RInv, TypeOK, Record
  <2>2. ~Live(service.pid)
    <3>1. ASSUME Live(service.pid)
          PROVE  FALSE
      <4>1. proc[service.pid].gen = service.gen /\ service.status # "STOPPED"
        BY <2>1, <3>1 DEF RInv, Serving, Current
      <4>2. ServiceLive
        BY <3>1, <4>1 DEF ServiceLive, Recorded, RInv
      <4>3. service.status \in {"LAUNCHED", "OWNED"}
        BY <2>1, <4>1 DEF Record
      <4>4. QED
        BY <1>3, <4>2, <4>3
    <3>2. QED
      BY <3>1
  <2>3. PICK n \in Nat : UNCHANGED lock
           /\ start' = [start EXCEPT ![s] = [start[s] EXCEPT !.pc = "spawn", !.gen = n]]
    <3>1. service.gen + 1 \in Nat
      BY <2>1
    <3>2. UNCHANGED lock /\ start' = [start EXCEPT ![s] =
             [start[s] EXCEPT !.pc = "spawn", !.gen = service.gen + 1]]
      BY <1>3 DEF StartReads, RInv
    <3>3. QED
      BY <3>1, <3>2
  <2>4. start[s] \in Command
    BY Shapes DEF RInv
  <2>5. LET c == [start[s] EXCEPT !.pc = "spawn", !.gen = n]
        IN  /\ c \in Command /\ c.pc = "spawn" /\ c.rel = start[s].rel
            /\ c.pid = start[s].pid /\ c.early = start[s].early
    BY <2>4 DEF Command
  <2>6. /\ start' \in [Caller -> Command]
        /\ \A r \in Caller \ {s} : start'[r] = start[r]
        /\ start'[s].pc = "spawn" /\ start'[s].rel = start[s].rel
        /\ start'[s].pid = start[s].pid /\ start'[s].early = start[s].early
    BY <2>3, <2>5, Replacing DEF RInv
  <2>7. Starting(s)'
    BY <1>1, <2>2, <2>3, <2>6 DEF RInv, Starting, Live
  <2>8. Expected(s)'
    BY <1>1, <2>6 DEF RInv, Expected, Announced, Entering
  <2>9. lock' \in Caller \cup {None}
    BY <2>3 DEF RInv, TypeOK
  <2>10. QED
    BY <1>1, <2>3, <2>6, <2>7, <2>8, <2>9, CommandKeeps
<1>4. QED
  BY <1>2, <1>3

LEMMA AwaitsKeeps ==
  ASSUME RInv, NEW s \in Caller, StartAwaits(s)
  PROVE  RInv'
<1>1. UNCHANGED <<current, upgrade, service, proc, runner, up>>
  BY DEF StartAwaits
<1>2. spent' \in Spent
  BY Shapes, Spending DEF RInv, StartAwaits
<1>3. End(s, TRUE) \/ End(s, FALSE)
  BY DEF StartAwaits
<1>4. QED
  BY <1>1, <1>2, <1>3, EndKeeps

LEMMA StartDiesKeeps ==
  ASSUME RInv, NEW s \in Caller, StartDies(s)
  PROVE  RInv'
<1>1. spent' \in Spent
  BY Spending DEF RInv, StartDies
<1>2. QED
  BY <1>1, EndKeeps DEF StartDies

\* The new process takes a slot that nothing refers to.
LEMMA SpawnsKeeps ==
  ASSUME RInv, NEW s \in Caller, StartSpawns(s)
  PROVE  RInv'
<1>1. PICK p \in Slot :
         /\ FreeSlot(p)
         /\ proc' = [proc EXCEPT ![p] = [NoProcess EXCEPT !.pc = "boot",
                        !.rel = start[s].rel, !.gen = start[s].gen]]
         /\ start' = [start EXCEPT ![s] = [start[s] EXCEPT !.pc = "record", !.pid = p]]
  BY DEF StartSpawns
<1>2. UNCHANGED <<current, upgrade, service, lock, runner, up, spent>>
      /\ start[s].pc = "spawn"
  BY DEF StartSpawns
<1>3. start[s] \in Command
  BY Shapes DEF RInv
<1>4. LET c == [NoProcess EXCEPT !.pc = "boot", !.rel = start[s].rel,
                                 !.gen = start[s].gen]
      IN  c \in Service /\ c.pc = "boot" /\ c.rel = start[s].rel /\ c.gen = start[s].gen
  BY <1>3 DEF NoProcess, Command, Service
<1>5. /\ proc' \in [Slot -> Service]
      /\ \A q \in Slot \ {p} : proc'[q] = proc[q]
      /\ proc'[p].pc = "boot" /\ proc'[p].rel = start[s].rel
      /\ proc'[p].gen = start[s].gen
  BY <1>1, <1>4, Replacing DEF RInv
<1>6. LET c == [start[s] EXCEPT !.pc = "record", !.pid = p]
      IN  /\ c \in Command /\ c.pc = "record" /\ c.pid = p /\ c.rel = start[s].rel
          /\ c.gen = start[s].gen /\ c.early = start[s].early
  BY <1>3 DEF Command
<1>7. /\ start' \in [Caller -> Command]
      /\ \A r \in Caller \ {s} : start'[r] = start[r]
      /\ start'[s].pc = "record" /\ start'[s].pid = p /\ start'[s].rel = start[s].rel
      /\ start'[s].gen = start[s].gen /\ start'[s].early = start[s].early
  BY <1>1, <1>6, Replacing DEF RInv
<1>8. service \in Record /\ service.pid \in Slot /\ service.pid # p
      /\ \A r \in Caller : start[r].pid # p
  BY <1>1 DEF RInv, TypeOK, Record, FreeSlot
<1>9. TypeOK' /\ service' # None
  BY <1>2, <1>5, <1>7, Shapes, ShapesNext DEF RInv
<1>10. Announcing'
  BY <1>2 DEF RInv, Announcing
<1>11. ASSUME NEW r \in Caller, r # s
       PROVE  Starting(r)' /\ Expected(r)'
  <2>1. Starting(r) /\ Expected(r) /\ start'[r] = start[r] /\ start[r].pid # p
    BY <1>7, <1>8, <1>11 DEF RInv
  <2>2. Starting(r)'
    BY <1>2, <1>5, <1>8, <2>1 DEF Starting, Live
  <2>3. Expected(r)'
    BY <1>2, <2>1 DEF Expected, Announced
  <2>4. QED
    BY <2>2, <2>3
<1>12. Starting(s)' /\ Expected(s)'
  <2>1. Starting(s) /\ Expected(s)
    BY DEF RInv
  <2>2. Starting(s)'
    BY <1>2, <1>5, <1>7, <1>8, <2>1 DEF Starting, Live
  <2>3. Expected(s)'
    BY <1>2, <1>7, <2>1 DEF Expected, Announced, Entering
  <2>4. QED
    BY <2>2, <2>3
<1>13. ASSUME NEW q \in Slot
       PROVE  Serving(q)' /\ Served(q)'
  <2>1. CASE q = p
    BY <1>2, <1>5, <1>8, <2>1 DEF Serving, Served, Working, Current
  <2>2. CASE q # p
    <3>1. Serving(q) /\ Served(q) /\ proc'[q] = proc[q]
      BY <1>5, <2>2 DEF RInv
    <3>2. QED
      BY <1>2, <3>1 DEF Serving, Served, Working, Current, Live, Emptied, Announced
  <2>3. QED
    BY <2>1, <2>2
<1>14. QED
  BY <1>9, <1>10, <1>11, <1>12, <1>13 DEF RInv

\* A record replaces one whose service is gone; the new service is as early as
\* the command that brought it.
LEMMA RecordsKeeps ==
  ASSUME RInv, NEW s \in Caller, StartRecords(s)
  PROVE  RInv'
<1>1. UNCHANGED <<current, upgrade, runner, up, spent>> /\ start[s].pc = "record"
  BY DEF StartRecords
<1>2. CASE End(s, FALSE) /\ UNCHANGED <<service, proc>>
  BY <1>1, <1>2, Shapes, EndKeeps DEF RInv
<1>3. CASE /\ service' = [gen |-> start[s].gen, pid |-> start[s].pid,
                          rel |-> start[s].rel, status |-> "LAUNCHED"]
           /\ proc' = [proc EXCEPT ![start[s].pid].early =
                          Live(start[s].pid) /\ start[s].early]
           /\ StartGo(s, "await") /\ UNCHANGED lock
  <2>1. /\ start[s] \in Command /\ start[s].pid \in Slot /\ start[s].rel \in Release
        /\ start[s].gen \in Nat /\ lock = s /\ ~Live(service.pid)
    <3>1. Starting(s) /\ start[s] \in Command
      BY Shapes DEF RInv
    <3>2. QED
      BY <1>1, <3>1 DEF Starting, Command
  <2> DEFINE p == start[s].pid
  <2>2. /\ service' \in Record /\ service' # None /\ service'.pid = p
        /\ service'.gen = start[s].gen /\ service'.status = "LAUNCHED"
    <3>1. service' \in Record
      BY <1>3, <2>1 DEF Record
    <3>2. QED
      BY <1>3, <3>1, HostAssumption
  <2>3. /\ proc' \in [Slot -> Service]
        /\ \A q \in Slot \ {p} : proc'[q] = proc[q]
        /\ proc'[p].pc = proc[p].pc /\ proc'[p].rel = proc[p].rel
        /\ proc'[p].gen = proc[p].gen
        /\ proc'[p].early = (Live(p) /\ start[s].early)
    <3>1. proc[p] \in Service /\ proc \in [Slot -> Service]
      BY <2>1, Shapes DEF RInv
    <3>2. PICK b \in BOOLEAN : b = (Live(p) /\ start[s].early)
      OBVIOUS
    <3>3. proc' = [proc EXCEPT ![p] = [proc[p] EXCEPT !.early = b]]
      BY <1>3, <3>2
    <3>4. LET c == [proc[p] EXCEPT !.early = b]
          IN  c \in Service /\ c.pc = proc[p].pc /\ c.rel = proc[p].rel
              /\ c.gen = proc[p].gen /\ c.early = b
      BY <3>1 DEF Service
    <3>5. QED
      BY <2>1, <3>2, <3>3, <3>4, Replacing DEF RInv
  <2>4. /\ start' \in [Caller -> Command]
        /\ \A r \in Caller \ {s} : start'[r] = start[r]
        /\ start'[s].pc = "await" /\ start'[s].rel = start[s].rel
        /\ start'[s].pid = start[s].pid
    BY <1>3, GoesOn DEF RInv
  <2>5. TypeOK'
    BY <1>1, <1>3, <2>2, <2>3, <2>4, Shapes, ShapesNext DEF RInv
  <2>6. Announcing'
    BY <1>1 DEF RInv, Announcing
  <2>7. ASSUME NEW r \in Caller, r # s
        PROVE  Starting(r)' /\ Expected(r)'
    <3>1. Starting(r) /\ Expected(r) /\ start'[r] = start[r]
      BY <2>4, <2>7 DEF RInv
    <3>2. start[r].pc \notin {"read", "spawn", "record", "await"}
      BY <2>1, <2>7, <3>1 DEF Starting
    <3>3. Starting(r)'
      BY <3>1, <3>2 DEF Starting
    <3>4. Expected(r)'
      BY <1>1, <3>1 DEF Expected, Announced
    <3>5. QED
      BY <3>3, <3>4
  <2>8. Starting(s)' /\ Expected(s)'
    BY <1>3, <2>1, <2>4 DEF Starting, Expected, Entering
  <2>9. ASSUME NEW q \in Slot
        PROVE  Serving(q)' /\ Served(q)'
    <3>1. ~Working(q)
      BY <2>1 DEF RInv, Serving, Working, Live
    <3>2. ~Working(q)' /\ (Live(q)' <=> Live(q))
      BY <2>3, <3>1 DEF Working, Live
    <3>3. ASSUME Current(q)'
          PROVE  /\ q = p /\ proc'[q].gen = start[s].gen /\ proc'[q].rel = start[s].rel
                 /\ proc'[q].early = start[s].early
      <4>1. q = p /\ Live(p)
        BY <2>2, <3>2, <3>3 DEF Current
      <4>2. proc[p].gen = start[s].gen /\ proc[p].rel = start[s].rel
        BY <1>1, <4>1 DEF RInv, Starting
      <4>3. start[s].early \in BOOLEAN
        BY <2>1 DEF Command
      <4>4. QED
        BY <2>3, <4>1, <4>2, <4>3
    <3>4. Serving(q)'
      BY <2>2, <3>2, <3>3 DEF Serving, Working
    <3>5. Served(q)'
      <4>1. Emptied => Announced
        BY DEF RInv, Announcing, Emptied, Announced, PhaseAt
      <4>2. Expected(s)
        BY DEF RInv
      <4>3. /\ Emptied => start[s].early
            /\ current # None => start[s].rel = current \/ start[s].early
        BY <1>1, <4>1, <4>2 DEF Expected, Entering
      <4>4. (Emptied' <=> Emptied) /\ current' = current
        BY <1>1 DEF Emptied, Announced
      <4>5. QED
        BY <3>3, <4>3, <4>4 DEF Served
    <3>6. QED
      BY <3>4, <3>5
  <2>10. QED
    BY <2>2, <2>5, <2>6, <2>7, <2>8, <2>9 DEF RInv
<1>4. QED
  BY <1>2, <1>3 DEF StartRecords

-------------------------------------------------------------------------------
(***************************************************************************)
(* Services and signals                                                    *)
(***************************************************************************)
\* A step that no process survives but with its generation and release, and by
\* which only the recorded service changes its record.
LEMMA ProcessKeeps ==
  ASSUME RInv, NEW p \in Slot,
         proc' \in [Slot -> Service], service' \in Record, spent' \in Spent,
         runner' \in Run,
         up' \in Progress, Announcing', Emptied' => Emptied,
         UNCHANGED <<current, upgrade, lock, start>>,
         \A q \in Slot \ {p} : proc'[q] = proc[q],
         Live(p)' => /\ Live(p) /\ proc'[p].gen = proc[p].gen
                     /\ proc'[p].rel = proc[p].rel /\ proc'[p].early = proc[p].early,
         service'.pid = service.pid, service'.gen = service.gen,
         service' = service \/ Current(p),
         Serving(p)'
  PROVE  RInv'
<1> USE DEF RInv
<1>1. service \in Record /\ service.pid \in Slot
  BY DEF TypeOK, Record
<1>2. TypeOK' /\ service' # None
  BY HostAssumption, Shapes, ShapesNext
<1>3. ASSUME NEW q \in Slot, Live(q)'
      PROVE  /\ Live(q) /\ proc'[q].gen = proc[q].gen
             /\ proc'[q].rel = proc[q].rel /\ proc'[q].early = proc[q].early
  <2>1. CASE q = p
    BY <1>3, <2>1
  <2>2. CASE q # p
    <3>1. proc'[q] = proc[q]
      BY <2>2
    <3>2. QED
      BY <1>3, <3>1 DEF Live
  <2>3. QED
    BY <2>1, <2>2
<1>4. ASSUME NEW r \in Caller
      PROVE  Starting(r)' /\ Expected(r)'
  <2>1. Starting(r) /\ Expected(r) /\ start' = start /\ lock' = lock
    OBVIOUS
  <2>2. start[r].pc \in {"spawn", "record"} => ~Live(service.pid)'
    BY <1>1, <1>3, <2>1 DEF Starting
  <2>3. start[r].pc = "record" =>
          /\ service'.pid # start[r].pid
          /\ Live(start[r].pid)' =>
                /\ proc'[start[r].pid].gen = start[r].gen
                /\ proc'[start[r].pid].rel = start[r].rel
    BY <1>3, <2>1 DEF Starting
  <2>4. Starting(r)'
    BY <2>1, <2>2, <2>3 DEF Starting
  <2>5. Expected(r)'
    BY <2>1 DEF Expected, Announced
  <2>6. QED
    BY <2>4, <2>5
<1>5. ASSUME NEW q \in Slot
      PROVE  Served(q)'
  <2>1. Served(q) /\ (Current(q)' => Current(q) /\ Live(q)')
    BY <1>3, <1>5 DEF Current
  <2>2. QED
    BY <1>3, <2>1 DEF Served
<1>6. ASSUME NEW q \in Slot, q # p
      PROVE  Serving(q)'
  <2>1. Serving(q) /\ proc'[q] = proc[q]
    BY <1>6
  <2>2. CASE service' = service
    BY <2>1, <2>2 DEF Serving, Working, Current, Live
  <2>3. CASE service.pid = p
    BY <1>6, <2>1, <2>3 DEF Serving, Working, Current
  <2>4. QED
    BY <2>2, <2>3 DEF Current
<1>7. QED
  BY <1>2, <1>4, <1>5, <1>6

\* What is left of a step in which only p changes, and the service keeps its record.
LEMMA OwnKeeps ==
  ASSUME RInv, NEW p \in Slot,
         proc' \in [Slot -> Service], spent' \in Spent,
         runner' \in Run,
         UNCHANGED <<current, upgrade, service, lock, start, up>>,
         \A q \in Slot \ {p} : proc'[q] = proc[q],
         \/ proc'[p].pc = "none"
         \/ /\ Live(p) /\ proc'[p].gen = proc[p].gen
            /\ proc'[p].rel = proc[p].rel /\ proc'[p].early = proc[p].early
            /\ Working(p)' => Working(p)
            /\ proc'[p].pc = "beat" => proc'[p].seen = service
  PROVE  RInv'
<1> USE DEF RInv
<1>1. service' \in Record /\ up' \in Progress
  BY Shapes
<1>2. Announcing' /\ (Emptied' => Emptied)
  BY DEF Announcing, Emptied, Announced
<1>3. Live(p)' => /\ Live(p) /\ proc'[p].gen = proc[p].gen
                  /\ proc'[p].rel = proc[p].rel /\ proc'[p].early = proc[p].early
  BY DEF Live
<1>4. Serving(p)'
  <2>1. Serving(p)
    OBVIOUS
  <2>2. CASE proc'[p].pc = "none"
    BY <2>2 DEF Serving, Working, Current, Live
  <2>3. CASE proc'[p].pc # "none"
    BY <2>1, <2>3 DEF Serving, Current
  <2>4. QED
    BY <2>2, <2>3
<1>5. QED
  BY <1>1, <1>2, <1>3, <1>4, ProcessKeeps

\* The service owns the record that names it.
LEMMA OwnsKeeps ==
  ASSUME RInv, NEW p \in Slot, Own(p)
  PROVE  RInv'
<1>1. UNCHANGED <<current, upgrade, lock, start, runner, up, spent>> /\ proc[p].pc = "boot"
  BY DEF Own
<1>2. CASE Exits(p) /\ UNCHANGED service
  BY <1>1, <1>2, ServiceExits, Shapes, OwnKeeps DEF RInv
<1>3. CASE /\ Recorded(p) /\ service' = [service EXCEPT !.status = "OWNED"]
           /\ Goes(p, "loop")
  <2>1. service \in Record /\ service.pid = p /\ service.gen = proc[p].gen
    BY <1>3 DEF Recorded, RInv, TypeOK
  <2>2. /\ service' \in Record /\ service'.pid = p /\ service'.gen = service.gen
        /\ service'.status = "OWNED"
    BY <1>3, <2>1 DEF Record
  <2>3. /\ proc' \in [Slot -> Service]
        /\ \A q \in Slot \ {p} : proc'[q] = proc[q]
        /\ proc'[p].pc = "loop" /\ proc'[p].rel = proc[p].rel
        /\ proc'[p].gen = proc[p].gen /\ proc'[p].early = proc[p].early
    BY <1>3, ServiceGoes DEF RInv
  <2>4. Serving(p)'
    BY <2>1, <2>2, <2>3 DEF Serving
  <2>5. Announcing' /\ (Emptied' => Emptied)
    BY <1>1 DEF RInv, Announcing, Emptied, Announced
  <2>6. Current(p) /\ Live(p)
    BY <1>1, <2>1 DEF Current, Live
  <2>7. QED
    BY <1>1, <2>1, <2>2, <2>3, <2>4, <2>5, <2>6, Shapes, ProcessKeeps DEF RInv
<1>4. QED
  BY <1>2, <1>3 DEF Own

\* The label of a working service changes, with or without the Runner's state.
LEMMA CyclesKeeps ==
  ASSUME RInv, NEW p \in Slot,
         BeginCycle(p) \/ LaunchRunner(p) \/ PublishRunner(p) \/ AdoptRunner(p)
  PROVE  RInv'
<1>1. UNCHANGED <<current, upgrade, service, lock, start, up>>
      /\ proc[p].pc \in {"loop", "cycle", "launching"}
  BY DEF BeginCycle, LaunchRunner, PublishRunner, AdoptRunner
<1>2. spent' \in Spent /\ runner' \in Run
  <2>1. spent' \in Spent
    BY Shapes, Spending DEF RInv, BeginCycle, LaunchRunner, PublishRunner, AdoptRunner
  <2>2. runner \in Run
    BY Shapes DEF RInv
  <2>3. \/ UNCHANGED runner
        \/ runner' = [request |-> "LAUNCHING", live |-> TRUE, known |-> FALSE]
        \/ runner' = [runner EXCEPT !.request = "settled"]
        \/ \E known \in BOOLEAN :
              runner' = [runner EXCEPT !.request = "settled", !.known = known]
    BY DEF BeginCycle, LaunchRunner, PublishRunner, AdoptRunner
  <2>4. ASSUME NEW known \in BOOLEAN
        PROVE  /\ [runner EXCEPT !.request = "settled", !.known = known] \in Run
               /\ [runner EXCEPT !.request = "settled"] \in Run
               /\ [request |-> "LAUNCHING", live |-> TRUE, known |-> FALSE] \in Run
    BY <2>2 DEF Run
  <2>5. runner' \in Run
    BY <2>2, <2>3, <2>4
  <2>6. QED
    BY <2>1, <2>5
<1>3. \/ Exits(p) \/ UNCHANGED proc
      \/ \E l \in {"cycle", "launching", "stop"} : Goes(p, l)
  BY DEF BeginCycle, LaunchRunner, PublishRunner, AdoptRunner
<1>4. CASE Exits(p)
  BY <1>1, <1>2, <1>4, ServiceExits, OwnKeeps DEF RInv
<1>5. CASE UNCHANGED proc
  BY <1>1, <1>2, <1>5, Shapes, OwnKeeps DEF RInv, Working, Live
<1>6. ASSUME NEW l \in {"cycle", "launching", "stop"}, Goes(p, l)
      PROVE  RInv'
  <2>1. /\ proc' \in [Slot -> Service]
        /\ \A q \in Slot \ {p} : proc'[q] = proc[q]
        /\ proc'[p].pc = l /\ proc'[p].rel = proc[p].rel
        /\ proc'[p].gen = proc[p].gen /\ proc'[p].early = proc[p].early
    BY <1>6, ServiceGoes DEF RInv
  <2>2. Live(p) /\ Working(p) /\ proc'[p].pc # "beat"
    BY <1>1, <1>6, <2>1 DEF Live, Working
  <2>3. QED
    BY <1>1, <1>2, <2>1, <2>2, OwnKeeps
<1>7. QED
  BY <1>3, <1>4, <1>5, <1>6

LEMMA EndsKeeps ==
  ASSUME RInv, NEW p \in Slot, EndCycle(p)
  PROVE  RInv'
<1>1. UNCHANGED <<current, upgrade, service, lock, start, runner, up, spent>>
      /\ proc[p].pc = "cycle"
  BY DEF EndCycle
<1>2. CASE Exits(p)
  BY <1>1, <1>2, ServiceExits, Shapes, OwnKeeps DEF RInv
<1>3. CASE proc' = [proc EXCEPT ![p] = [proc[p] EXCEPT !.pc = "beat", !.seen = service]]
  <2>1. proc[p] \in Service /\ service \in Record
    BY Shapes DEF RInv
  <2>2. LET c == [proc[p] EXCEPT !.pc = "beat", !.seen = service]
        IN  /\ c \in Service /\ c.pc = "beat" /\ c.seen = service
            /\ c.rel = proc[p].rel /\ c.gen = proc[p].gen /\ c.early = proc[p].early
    BY <2>1 DEF Service
  <2>3. /\ proc' \in [Slot -> Service]
        /\ \A q \in Slot \ {p} : proc'[q] = proc[q]
        /\ proc'[p].pc = "beat" /\ proc'[p].seen = service
        /\ proc'[p].rel = proc[p].rel /\ proc'[p].gen = proc[p].gen
        /\ proc'[p].early = proc[p].early
    BY <1>3, <2>2, Replacing DEF RInv
  <2>4. Live(p) /\ Working(p)
    BY <1>1 DEF Live, Working
  <2>5. QED
    BY <1>1, <2>3, <2>4, Shapes, OwnKeeps DEF RInv
<1>4. QED
  BY <1>2, <1>3 DEF EndCycle

\* The heartbeat writes back the record that is there.
LEMMA BeatsKeeps ==
  ASSUME RInv, NEW p \in Slot, Heartbeat(p)
  PROVE  RInv'
<1>1. UNCHANGED <<current, upgrade, lock, start, runner, up, spent>>
      /\ proc[p].pc = "beat" /\ service' = proc[p].seen
      /\ proc' = [proc EXCEPT ![p] = [proc[p] EXCEPT !.pc = "loop", !.seen = None]]
  BY DEF Heartbeat
<1>2. UNCHANGED service
  BY <1>1 DEF RInv, Serving
<1>3. proc[p] \in Service
  BY Shapes DEF RInv
<1>4. LET c == [proc[p] EXCEPT !.pc = "loop", !.seen = None]
      IN  /\ c \in Service /\ c.pc = "loop" /\ c.rel = proc[p].rel
          /\ c.gen = proc[p].gen /\ c.early = proc[p].early
  BY <1>3 DEF Service
<1>5. /\ proc' \in [Slot -> Service]
      /\ \A q \in Slot \ {p} : proc'[q] = proc[q]
      /\ proc'[p].pc = "loop" /\ proc'[p].rel = proc[p].rel
      /\ proc'[p].gen = proc[p].gen /\ proc'[p].early = proc[p].early
  BY <1>1, <1>4, Replacing DEF RInv
<1>6. Live(p) /\ Working(p)
  BY <1>1 DEF Live, Working
<1>7. QED
  BY <1>1, <1>2, <1>5, <1>6, Shapes, OwnKeeps DEF RInv

LEMMA StopsKeeps ==
  ASSUME RInv, NEW p \in Slot, StopService(p)
  PROVE  RInv'
<1>1. UNCHANGED <<current, upgrade, lock, start, runner, up, spent>> /\ Exits(p)
      /\ proc[p].pc = "stop"
  BY DEF StopService
<1>2. /\ proc' \in [Slot -> Service] /\ proc'[p].pc = "none"
      /\ \A q \in Slot \ {p} : proc'[q] = proc[q]
  BY <1>1, ServiceExits DEF RInv
<1>3. Current(p) /\ service \in Record
  BY <1>1, Shapes DEF RInv, Serving, Working, Current, Live
<1>4. /\ service' \in Record /\ service'.pid = service.pid
      /\ service'.gen = service.gen
  BY <1>3 DEF StopService, Record
<1>5. ~Live(p)' /\ Serving(p)'
  BY <1>2 DEF Serving, Working, Current, Live
<1>6. Announcing' /\ (Emptied' => Emptied)
  BY <1>1 DEF RInv, Announcing, Emptied, Announced
<1>7. QED
  BY <1>1, <1>2, <1>3, <1>4, <1>5, <1>6, Shapes, ProcessKeeps DEF RInv

\* A signal leaves a process as it is, or ends it.
LEMMA SignalEffect ==
  ASSUME RInv, NEW p \in Slot, Live(p), Signalled(p)
  PROVE  /\ proc' \in [Slot -> Service]
         /\ \A q \in Slot \ {p} : proc'[q] = proc[q]
         /\ \/ proc'[p].pc = "none"
            \/ /\ Live(p) /\ proc'[p].gen = proc[p].gen
               /\ proc'[p].rel = proc[p].rel /\ proc'[p].early = proc[p].early
               /\ proc'[p].pc = proc[p].pc /\ proc'[p].seen = proc[p].seen
  BY ServiceSignalled DEF RInv

LEMMA StopCommandKeeps ==
  ASSUME RInv, Stop
  PROVE  RInv'
<1>1. UNCHANGED <<current, upgrade, service, lock, start, runner, up>>
      /\ ServiceLive /\ Signalled(service.pid)
  BY DEF Stop
<1>2. PICK p \in Slot : p = service.pid
  BY DEF RInv, TypeOK, Record
<1>3. Live(p) /\ Signalled(p)
  BY <1>1, <1>2 DEF ServiceLive, RInv
<1>4. spent' \in Spent
  BY Spending DEF RInv, Stop
<1>5. proc'[p].pc = "beat" /\ proc'[p].pc = proc[p].pc /\ proc'[p].seen = proc[p].seen
         => proc'[p].seen = service
  BY DEF RInv, Serving
<1>6. proc'[p].pc = proc[p].pc => (Working(p)' => Working(p))
  BY DEF Working
<1>7. QED
  BY <1>1, <1>3, <1>4, <1>5, <1>6, SignalEffect, Shapes, OwnKeeps DEF RInv

LEMMA ServiceDiesKeeps ==
  ASSUME RInv, NEW p \in Slot, ServiceDies(p)
  PROVE  RInv'
  BY ServiceExits, Spending, Shapes, OwnKeeps DEF RInv, ServiceDies

-------------------------------------------------------------------------------
(***************************************************************************)
(* The upgrade                                                             *)
(***************************************************************************)
\* A step of the upgrade that leaves services and their record alone.
LEMMA UpgradeStepKeeps ==
  ASSUME RInv, UNCHANGED <<service, lock, proc>>,
         current' \in Release \cup {None}, upgrade' \in Upgrade \cup {None},
         up' \in Progress, spent' \in Spent, runner' \in Run, Announcing',
         start' \in [Caller -> Command],
         \A s \in Caller : Starting(s)' /\ Expected(s)',
         Emptied' => Emptied \/ \A p \in Slot : Current(p) => proc[p].early,
         current' # current => \A p \in Slot : Current(p) => proc[p].early
  PROVE  RInv'
<1> USE DEF RInv
<1>1. TypeOK' /\ service' # None
  BY Shapes, ShapesNext
<1>2. ASSUME NEW p \in Slot
      PROVE  Serving(p)' /\ Served(p)'
  <2>1. Serving(p) /\ Served(p)
    OBVIOUS
  <2>2. Serving(p)'
    BY <2>1 DEF Serving, Working, Current, Live
  <2>3. Current(p)' <=> Current(p)
    BY DEF Current, Live
  <2>4. Served(p)'
    <3>1. Current(p) /\ Emptied' => proc[p].early
      BY <2>1 DEF Served
    <3>2. Current(p) /\ current' # None => proc[p].rel = current' \/ proc[p].early
      BY <2>1 DEF Served
    <3>3. QED
      BY <2>3, <3>1, <3>2 DEF Served
  <2>5. QED
    BY <2>2, <2>4
<1>3. QED
  BY <1>1, <1>2

\* ... and the start commands as well.
LEMMA UpgradeKeeps ==
  ASSUME RInv, UNCHANGED <<service, lock, start, proc>>,
         current' \in Release \cup {None}, upgrade' \in Upgrade \cup {None},
         runner' \in Run, spent' \in Spent, up' \in Progress, Announcing',
         Announced' => Announced,
         Emptied' => Emptied \/ \A p \in Slot : Current(p) => proc[p].early,
         current' # current =>
            /\ \A p \in Slot : Current(p) => proc[p].early
            /\ \A s \in Caller : start[s].pc \in Entering => start[s].early
  PROVE  RInv'
<1> USE DEF RInv
<1>1. ASSUME NEW s \in Caller
      PROVE  Starting(s)' /\ Expected(s)'
  <2>1. Starting(s) /\ Expected(s)
    OBVIOUS
  <2>2. Starting(s)'
    BY <2>1 DEF Starting, Live
  <2>3. start[s].pc \in Entering /\ Announced' => start[s].early
    BY <2>1 DEF Expected
  <2>4. start[s].pc \in Entering /\ current' # None =>
           start[s].rel = current' \/ start[s].early
    BY <2>1 DEF Expected
  <2>5. Expected(s)'
    BY <2>3, <2>4 DEF Expected
  <2>6. QED
    BY <2>2, <2>5
<1>2. start' \in [Caller -> Command]
  BY Shapes
<1>3. QED
  BY <1>1, <1>2, UpgradeStepKeeps

\* The status file and the state of the upgrade after one of its steps.
LEMMA PersistEffect ==
  ASSUME TypeOK, upgrade # None, NEW phase \in Phase, Persist(phase)
  PROVE  /\ upgrade' \in Upgrade /\ upgrade' # None
         /\ upgrade'.status = upgrade.status /\ upgrade'.target = upgrade.target
         /\ upgrade'.phase = phase
<1>1. upgrade \in Upgrade
  BY DEF TypeOK
<1>2. upgrade' \in Upgrade /\ upgrade'.status = upgrade.status
      /\ upgrade'.target = upgrade.target /\ upgrade'.phase = phase
  BY <1>1 DEF Persist, Upgrade
<1>3. QED
  BY <1>2, HostAssumption

LEMMA FailKeeps ==
  ASSUME RInv, Fail, up.pc # "idle", spent' \in Spent,
         UNCHANGED <<current, service, lock, start, proc, runner>>
  PROVE  RInv'
<1>1. upgrade \in Upgrade
  BY DEF RInv, Announcing, TypeOK
<1>2. upgrade' \in Upgrade /\ upgrade'.status = "FAILED"
  BY <1>1 DEF Fail, Upgrade
<1>3. up' \in Progress /\ up'.pc = "idle"
  BY Shapes DEF Fail, NoUpgrade
<1>4. Announcing' /\ ~Announced' /\ ~Emptied'
  BY <1>2, <1>3 DEF Announcing, Announced, Emptied
<1>5. QED
  BY <1>2, <1>3, <1>4, Shapes, UpgradeKeeps DEF RInv

\* From now on whoever has passed its check is early.
LEMMA UpgradeBeginsKeeps ==
  ASSUME RInv, UpgradeBegins
  PROVE  RInv'
<1> USE DEF RInv
<1>1. PICK target \in Release :
         /\ upgrade' = [status |-> "RUNNING", phase |-> "LOCKED", target |-> target]
         /\ up' = [NoUpgrade EXCEPT !.pc = "install", !.target = target]
  BY DEF UpgradeBegins
<1>2. UNCHANGED <<current, service, lock, proc, runner>> /\ spent' \in Spent
  BY Spending DEF UpgradeBegins
<1>3. upgrade' \in Upgrade /\ upgrade' # None
  <2>1. upgrade' \in Upgrade
    BY <1>1 DEF Upgrade, Phase
  <2>2. QED
    BY <2>1, HostAssumption
<1>4. up' \in Progress /\ up'.pc = "install" /\ up'.target = target
  BY <1>1 DEF NoUpgrade, Progress
<1>5. Announcing' /\ ~Emptied'
  BY <1>1, <1>3, <1>4 DEF Announcing, PhaseAt, Emptied, Frozen
<1>6. ASSUME NEW s \in Caller
      PROVE  LET c == [start[s] EXCEPT !.early = start[s].early \/
                         start[s].pc \in {"lock", "read", "spawn", "record"}]
             IN  /\ c \in Command /\ c.pc = start[s].pc /\ c.rel = start[s].rel
                 /\ c.pid = start[s].pid /\ c.gen = start[s].gen
                 /\ c.early = (start[s].early \/ start[s].pc \in Entering)
  <2>1. start[s] \in Command
    BY Shapes
  <2>2. PICK b \in BOOLEAN : b = (start[s].early \/
           start[s].pc \in {"lock", "read", "spawn", "record"})
    OBVIOUS
  <2>3. [start[s] EXCEPT !.early = b] \in Command
    BY <2>1 DEF Command
  <2>4. QED
    BY <2>1, <2>2, <2>3 DEF Command, Entering
<1>7. start' \in [Caller -> Command]
  BY <1>6 DEF UpgradeBegins
<1>8. ASSUME NEW s \in Caller
      PROVE  Starting(s)' /\ Expected(s)'
  <2>1. /\ start'[s].pc = start[s].pc /\ start'[s].rel = start[s].rel
        /\ start'[s].pid = start[s].pid /\ start'[s].gen = start[s].gen
        /\ start'[s].pc \in Entering => start'[s].early
    BY <1>6 DEF UpgradeBegins
  <2>2. Starting(s)
    OBVIOUS
  <2>3. Starting(s)'
    BY <1>2, <2>1, <2>2 DEF Starting, Live
  <2>4. Expected(s)'
    BY <2>1 DEF Expected
  <2>5. QED
    BY <2>3, <2>4
<1>9. current' \in Release \cup {None} /\ runner' \in Run
  BY <1>2, Shapes
<1>10. QED
  BY <1>2, <1>3, <1>4, <1>5, <1>7, <1>8, <1>9, UpgradeStepKeeps

LEMMA InstallKeeps ==
  ASSUME RInv, Install
  PROVE  RInv'
<1> USE DEF RInv
<1>1. UNCHANGED <<current, service, lock, start, proc, runner, spent>> /\ up.pc = "install"
  BY DEF Install
<1>2. CASE current # None /\ current > up.target
  BY <1>1, <1>2, Shapes, FailKeeps DEF Install
<1>3. CASE ~(current # None /\ current > up.target)
  <2>1. Persist("INSTALLED") /\ UpGo("quiesce")
    BY <1>3 DEF Install
  <2>2. up' \in Progress /\ up'.pc = "quiesce" /\ up'.target = up.target
    BY <2>1, Shapes DEF UpGo, Progress
  <2>3. /\ upgrade # None /\ upgrade.status = "RUNNING" /\ upgrade.phase = "LOCKED"
        /\ up.target \in Release /\ upgrade.target = up.target
    BY <1>1 DEF Announcing, PhaseAt
  <2>4. /\ upgrade' \in Upgrade /\ upgrade' # None
        /\ upgrade'.status = upgrade.status /\ upgrade'.target = upgrade.target
        /\ upgrade'.phase = "INSTALLED"
    BY <2>1, <2>3, PersistEffect DEF Phase
  <2>5. current # None => current <= up.target
    <3>1. current # None => current \in Nat /\ up.target \in Nat
      BY <2>3, HostAssumption DEF TypeOK
    <3>2. QED
      BY <1>3, <3>1
  <2>6. Announcing'
    BY <1>1, <2>2, <2>3, <2>4, <2>5 DEF Announcing, PhaseAt
  <2>7. Announced /\ ~Emptied'
    BY <2>2, <2>3, <2>4 DEF Announced, Emptied, Frozen
  <2>8. current' \in Release \cup {None} /\ runner' \in Run /\ spent' \in Spent
    BY <1>1, Shapes
  <2>9. QED
    BY <1>1, <2>2, <2>4, <2>6, <2>7, <2>8, UpgradeKeeps
<1>4. QED
  BY <1>2, <1>3

\* The upgrade goes from one phase to the next; nothing else changes.
LEMMA PhaseKeeps ==
  ASSUME RInv, NEW from \in {"quiesce", "signal", "judge", "migrate", "migrating",
                             "switched"},
         NEW to \in {"signal", "judge", "migrate", "migrating", "switch", "start"},
         up.pc = from, up' \in Progress, up'.pc = to, up'.target = up.target,
         upgrade' = upgrade \/ Persist(PhaseAt(to)), upgrade'.phase = PhaseAt(to),
         UNCHANGED <<current, service, lock, start, proc, runner, spent>>,
         Emptied' => Emptied \/ \A p \in Slot : Current(p) => proc[p].early
  PROVE  RInv'
<1> USE DEF RInv
<1>1. /\ upgrade # None /\ upgrade.status = "RUNNING" /\ upgrade.phase = PhaseAt(from)
      /\ up.target \in Release /\ upgrade.target = up.target
      /\ current # None => current <= up.target
  BY DEF Announcing
<1>2. PhaseAt(to) \in Phase
  BY DEF PhaseAt, Phase
<1>3. /\ upgrade' \in Upgrade /\ upgrade' # None
      /\ upgrade'.status = upgrade.status /\ upgrade'.target = upgrade.target
  BY <1>1, <1>2, PersistEffect, Shapes
<1>4. Announcing'
  BY <1>1, <1>3 DEF Announcing
<1>5. Announced' => Announced
  BY <1>1, <1>3 DEF Announced, PhaseAt
<1>6. current' \in Release \cup {None} /\ runner' \in Run /\ spent' \in Spent
  BY Shapes
<1>7. QED
  BY <1>3, <1>4, <1>5, <1>6, UpgradeKeeps

LEMMA RunnerEndsKeeps ==
  ASSUME RInv, RunnerEnds
  PROVE  RInv'
<1>1. runner' \in Run
  BY DEF RInv, TypeOK, RunnerEnds, Run
<1>2. Announcing'
  BY DEF RInv, RunnerEnds, Announcing
<1>3. (Announced' => Announced) /\ (Emptied' => Emptied)
  BY DEF RunnerEnds, Announced, Emptied
<1>4. QED
  BY <1>1, <1>2, <1>3, Shapes, UpgradeKeeps DEF RInv, RunnerEnds

\* An inventory that finds no service finds no recorded one that lives.
LEMMA InventoryEffect ==
  ASSUME RInv, Inventory("signal")
  PROVE  /\ up' \in Progress /\ up'.pc = "signal" /\ up'.target = up.target
         /\ up'.service = None => \A p \in Slot : ~Current(p)
<1> USE DEF RInv
<1>1. PICK sv \in Slot \cup {None} : sv = IF ServiceLive THEN service.pid ELSE None
  BY DEF TypeOK, Record
<1>2. PICK rn \in BOOLEAN : rn = (runner.known /\ runner.live)
  OBVIOUS
<1>3. up' = [up EXCEPT !.pc = "signal", !.service = sv, !.runner = rn]
  BY <1>1, <1>2 DEF Inventory
<1>4. up' \in Progress /\ up'.pc = "signal" /\ up'.target = up.target /\ up'.service = sv
  BY <1>3, Shapes DEF Progress
<1>5. ASSUME sv = None, NEW p \in Slot, Current(p)
      PROVE  FALSE
  <2>1. service.pid = p /\ proc[p].gen = service.gen /\ Live(p)
    BY <1>5 DEF Current, Serving
  <2>2. ServiceLive
    BY <2>1 DEF ServiceLive, Recorded
  <2>3. QED
    BY <1>1, <1>5, <2>1, <2>2, HostAssumption
<1>6. QED
  BY <1>4, <1>5

LEMMA QuiesceKeeps ==
  ASSUME RInv, Quiesce
  PROVE  RInv'
<1>1. /\ up.pc = "quiesce" /\ Persist("QUIESCING")
      /\ UNCHANGED <<current, service, lock, start, proc, runner, spent>>
  BY DEF Quiesce
<1>2. up' \in Progress /\ up'.pc = "signal" /\ up'.target = up.target
      /\ (up'.service = None => \A p \in Slot : ~Current(p))
  BY InventoryEffect DEF Quiesce
<1>3. upgrade'.phase = "QUIESCING"
  BY <1>1, PersistEffect DEF RInv, Announcing, Phase
<1>4. Emptied' => \A p \in Slot : ~Current(p)
  BY <1>2, <1>3 DEF Emptied, Frozen
<1>5. PhaseAt("signal") = "QUIESCING"
  BY DEF PhaseAt
<1>6. QED
  BY <1>1, <1>2, <1>3, <1>4, <1>5, PhaseKeeps

LEMMA SignalKeeps ==
  ASSUME RInv, SignalService
  PROVE  RInv'
<1> USE DEF RInv
<1>1. /\ up.pc = "signal" /\ UpGo("judge")
      /\ UNCHANGED <<current, upgrade, service, lock, start, runner, spent>>
  BY DEF SignalService
<1>2. /\ up' \in Progress /\ up'.pc = "judge" /\ up'.target = up.target
      /\ up'.service = up.service
  BY <1>1, Shapes DEF UpGo, Progress
<1>3. Announcing'
  BY <1>1, <1>2 DEF Announcing, PhaseAt
<1>4. Emptied' => Emptied
  BY <1>1, <1>2 DEF Emptied, Announced
<1>5. CASE UNCHANGED proc
  <2>1. upgrade'.phase = PhaseAt("judge")
    BY <1>1, <1>2, <1>3 DEF Announcing
  <2>2. QED
    BY <1>1, <1>2, <1>4, <1>5, <2>1, PhaseKeeps
<1>6. ASSUME NEW p \in Slot, Live(p), Signalled(p)
      PROVE  RInv'
  <2>1. service' \in Record /\ spent' \in Spent /\ runner' \in Run
    BY <1>1, HostAssumption, Shapes
  <2>2. /\ proc' \in [Slot -> Service]
        /\ \A q \in Slot \ {p} : proc'[q] = proc[q]
        /\ \/ proc'[p].pc = "none"
           \/ /\ Live(p) /\ proc'[p].gen = proc[p].gen
              /\ proc'[p].rel = proc[p].rel /\ proc'[p].early = proc[p].early
              /\ proc'[p].pc = proc[p].pc /\ proc'[p].seen = proc[p].seen
    BY <1>6, SignalEffect
  <2>3. Serving(p)'
    <3>1. Serving(p)
      OBVIOUS
    <3>2. CASE proc'[p].pc = "none"
      BY <3>2 DEF Serving, Working, Current, Live
    <3>3. CASE proc'[p].pc # "none"
      BY <1>1, <2>2, <3>1, <3>3 DEF Serving, Working, Current, Live
    <3>4. QED
      BY <3>2, <3>3
  <2>4. Live(p)' => /\ Live(p) /\ proc'[p].gen = proc[p].gen
                    /\ proc'[p].rel = proc[p].rel /\ proc'[p].early = proc[p].early
    BY <2>2 DEF Live
  <2>5. QED
    BY <1>1, <1>2, <1>3, <1>4, <2>1, <2>2, <2>3, <2>4, ProcessKeeps
<1>7. QED
  BY <1>5, <1>6 DEF SignalService, TypeOK

LEMMA JudgeKeeps ==
  ASSUME RInv, JudgeInventory
  PROVE  RInv'
<1>1. /\ up.pc = "judge"
      /\ UNCHANGED <<current, service, lock, start, proc, runner, spent>>
  BY DEF JudgeInventory
<1>2. CASE up.service = None /\ ~up.runner
  <2>1. UpGo("migrate") /\ Persist("INVENTORIED")
    BY <1>2 DEF JudgeInventory
  <2>2. up' \in Progress /\ up'.pc = "migrate" /\ up'.target = up.target
    BY <2>1, Shapes DEF RInv, UpGo, Progress
  <2>3. upgrade'.phase = "INVENTORIED"
    BY <1>1, <2>1, PersistEffect DEF RInv, Announcing, Phase
  <2>4. Emptied
    BY <1>1, <1>2 DEF Emptied
  <2>5. PhaseAt("migrate") = "INVENTORIED"
    BY DEF PhaseAt
  <2>6. QED
    BY <1>1, <2>1, <2>2, <2>3, <2>4, <2>5, PhaseKeeps
<1>3. CASE ~(up.service = None /\ ~up.runner)
  <2>1. Inventory("signal") /\ UNCHANGED upgrade
    BY <1>3 DEF JudgeInventory
  <2>2. up' \in Progress /\ up'.pc = "signal" /\ up'.target = up.target
        /\ (up'.service = None => \A p \in Slot : ~Current(p))
    BY <2>1, InventoryEffect
  <2>3. upgrade'.phase = "QUIESCING" /\ PhaseAt("signal") = "QUIESCING"
    BY <1>1, <2>1 DEF RInv, Announcing, PhaseAt
  <2>4. Emptied' => \A p \in Slot : ~Current(p)
    BY <2>2, <2>3 DEF Emptied, Frozen
  <2>5. QED
    BY <1>1, <2>1, <2>2, <2>3, <2>4, PhaseKeeps
<1>4. QED
  BY <1>2, <1>3

LEMMA MigrateKeeps ==
  ASSUME RInv, Migrate \/ Migrated
  PROVE  RInv'
<1>1. PICK from \in {"migrate", "migrating"}, to \in {"migrating", "switch"} :
        /\ up.pc = from /\ Persist(PhaseAt(to)) /\ UpGo(to)
        /\ UNCHANGED <<current, service, lock, start, proc, runner, spent>>
  BY DEF Migrate, Migrated, PhaseAt
<1>2. up' \in Progress /\ up'.pc = to /\ up'.target = up.target
  BY <1>1, Shapes DEF RInv, UpGo, Progress
<1>3. upgrade # None /\ upgrade.status = "RUNNING" /\ upgrade.phase = PhaseAt(from)
  BY <1>1 DEF RInv, Announcing
<1>4. PhaseAt(to) \in Phase /\ PhaseAt(from) \in Frozen
  BY DEF PhaseAt, Phase, Frozen
<1>5. upgrade'.phase = PhaseAt(to)
  BY <1>1, <1>3, <1>4, PersistEffect DEF RInv
<1>6. Emptied
  BY <1>3, <1>4 DEF Emptied, Announced, Frozen
<1>7. QED
  BY <1>1, <1>2, <1>5, <1>6, PhaseKeeps

\* The release changes when whoever is or comes is early.
LEMMA SwitchKeeps ==
  ASSUME RInv, Switch
  PROVE  RInv'
<1> USE DEF RInv
<1>1. /\ up.pc = "switch" /\ current' = up.target /\ UpGo("switched")
      /\ UNCHANGED <<upgrade, service, lock, start, proc, runner, spent>>
  BY DEF Switch
<1>2. /\ up' \in Progress /\ up'.pc = "switched" /\ up'.target = up.target
  BY <1>1, Shapes DEF UpGo, Progress
<1>3. /\ upgrade # None /\ upgrade.status = "RUNNING" /\ upgrade.phase = "MIGRATED"
      /\ up.target \in Release /\ upgrade.target = up.target
  BY <1>1 DEF Announcing, PhaseAt
<1>4. Announced /\ Emptied
  BY <1>3 DEF Announced, Emptied, Frozen
<1>5. \A p \in Slot : Current(p) => proc[p].early
  BY <1>4 DEF Served
<1>6. \A s \in Caller : start[s].pc \in Entering => start[s].early
  BY <1>4 DEF Expected
<1>7. Announcing'
  <2>1. \A n \in Release : n <= n
    BY HostAssumption
  <2>2. current' <= up'.target
    BY <1>1, <1>2, <1>3, <2>1
  <2>3. QED
    BY <1>1, <1>2, <1>3, <2>2 DEF Announcing, PhaseAt
<1>8. current' \in Release \cup {None} /\ upgrade' \in Upgrade \cup {None}
      /\ runner' \in Run /\ spent' \in Spent
  BY <1>1, <1>3, Shapes
<1>9. QED
  BY <1>1, <1>2, <1>4, <1>5, <1>6, <1>7, <1>8, UpgradeKeeps

LEMMA SwitchedKeeps ==
  ASSUME RInv, Switched
  PROVE  RInv'
<1>1. /\ up.pc = "switched" /\ Persist("SWITCHED") /\ UpGo("start")
      /\ UNCHANGED <<current, service, lock, start, proc, runner, spent>>
  BY DEF Switched
<1>2. up' \in Progress /\ up'.pc = "start" /\ up'.target = up.target
  BY <1>1, Shapes DEF RInv, UpGo, Progress
<1>3. upgrade'.phase = "SWITCHED"
  BY <1>1, PersistEffect DEF RInv, Announcing, Phase
<1>4. ~Emptied'
  BY <1>2, <1>3 DEF Emptied, Announced
<1>5. PhaseAt("start") = "SWITCHED"
  BY DEF PhaseAt
<1>6. QED
  BY <1>1, <1>2, <1>3, <1>4, <1>5, PhaseKeeps

\* A step of the upgrade that sets its start command going, or takes it back.
LEMMA TakeoverKeeps ==
  ASSUME RInv, NEW c \in Command, start' = [start EXCEPT ![Takeover] = c],
         c.pc \in {"idle", "check"}, c.pid = None, c.pc = "check" => c.rel \in Release,
         start[Takeover].pc \in {"idle", "ended"},
         UNCHANGED <<current, service, lock, proc, runner>>,
         upgrade' \in Upgrade \cup {None}, up' \in Progress, spent' \in Spent,
         Announcing', Announced' => Announced, Emptied' => Emptied
  PROVE  RInv'
<1> USE DEF RInv
<1>1. Takeover \in Caller
  BY DEF Caller
<1>2. /\ start' \in [Caller -> Command] /\ start'[Takeover] = c
      /\ \A s \in Caller \ {Takeover} : start'[s] = start[s]
  BY <1>1, Replacing
<1>3. ASSUME NEW s \in Caller
      PROVE  Starting(s)' /\ Expected(s)'
  <2>1. CASE s = Takeover
    BY <1>2, <2>1 DEF Starting, Expected, Entering
  <2>2. CASE s # Takeover
    <3>1. Starting(s) /\ Expected(s) /\ start'[s] = start[s]
      BY <1>2, <2>2
    <3>2. Starting(s)'
      BY <3>1 DEF Starting, Live
    <3>3. Expected(s)'
      BY <3>1 DEF Expected
    <3>4. QED
      BY <3>2, <3>3
  <2>3. QED
    BY <2>1, <2>2
<1>4. current' \in Release \cup {None} /\ runner' \in Run
  BY Shapes
<1>5. QED
  BY <1>2, <1>3, <1>4, UpgradeStepKeeps

LEMMA StartTargetKeeps ==
  ASSUME RInv, StartTarget
  PROVE  RInv'
<1> USE DEF RInv
<1>1. /\ up.pc = "start" /\ start[Takeover].pc = "idle" /\ UpGo("await")
      /\ UNCHANGED <<current, upgrade, service, lock, proc, runner, spent>>
  BY DEF StartTarget
<1>2. PICK c : c = [start[Takeover] EXCEPT !.pc = "check", !.rel = up.target]
  OBVIOUS
<1>3. start' = [start EXCEPT ![Takeover] = c]
  BY <1>2 DEF StartTarget
<1>4. start[Takeover] \in Command /\ start[Takeover].pid = None /\ up.target \in Release
  BY <1>1, Shapes DEF Caller, Starting, Announcing
<1>5. c \in Command /\ c.pc = "check" /\ c.pid = None /\ c.rel \in Release
  BY <1>2, <1>4 DEF Command
<1>6. up' \in Progress /\ up'.pc = "await" /\ up'.target = up.target
  BY <1>1, Shapes DEF UpGo, Progress
<1>7. Announcing'
  BY <1>1, <1>6 DEF Announcing, PhaseAt
<1>8. (Announced' => Announced) /\ (Emptied' => Emptied)
  BY <1>1, <1>6 DEF Announced, Emptied
<1>9. upgrade' \in Upgrade \cup {None} /\ spent' \in Spent
  BY <1>1, Shapes
<1>10. QED
  BY <1>1, <1>3, <1>5, <1>6, <1>7, <1>8, <1>9, TakeoverKeeps

LEMMA CompleteKeeps ==
  ASSUME RInv, Complete
  PROVE  RInv'
<1> USE DEF RInv
<1>1. /\ up.pc = "await" /\ start[Takeover].pc = "ended"
      /\ start' = [start EXCEPT ![Takeover] = NoStart]
      /\ UNCHANGED <<current, service, lock, proc, runner, spent>>
  BY DEF Complete
<1>2. upgrade # None /\ upgrade \in Upgrade
  BY <1>1 DEF Announcing, TypeOK
<1>3. upgrade' \in Upgrade /\ upgrade'.status \in {"COMPLETED", "FAILED"} /\ up' = NoUpgrade
  <2>1. PICK st \in {"COMPLETED", "FAILED"} :
           upgrade' = [upgrade EXCEPT !.status = st] /\ up' = NoUpgrade
    BY DEF Complete, Fail
  <2>2. QED
    BY <1>2, <2>1 DEF Upgrade
<1>4. up' \in Progress /\ up'.pc = "idle"
  BY <1>3, Shapes DEF NoUpgrade
<1>5. Announcing' /\ ~Announced' /\ ~Emptied'
  BY <1>3, <1>4 DEF Announcing, Announced, Emptied
<1>6. NoStart \in Command /\ NoStart.pc = "idle" /\ NoStart.pid = None
  BY Shapes DEF NoStart
<1>7. spent' \in Spent
  BY <1>1, Shapes
<1>8. QED
  BY <1>1, <1>3, <1>4, <1>5, <1>6, <1>7, TakeoverKeeps

LEMMA UpgradeFailsKeeps ==
  ASSUME RInv, UpgradeFails
  PROVE  RInv'
<1>1. spent' \in Spent /\ up.pc # "idle"
  BY Spending DEF RInv, UpgradeFails
<1>2. QED
  BY <1>1, FailKeeps DEF UpgradeFails

LEMMA UpgradeDiesKeeps ==
  ASSUME RInv, UpgradeDies
  PROVE  RInv'
<1> USE DEF RInv
<1>1. /\ up.pc # "idle" /\ up' = NoUpgrade
      /\ UNCHANGED <<current, upgrade, service, lock, proc, runner>>
  BY DEF UpgradeDies
<1>2. spent' \in Spent /\ upgrade' \in Upgrade \cup {None}
  BY <1>1, Spending, Shapes DEF UpgradeDies
<1>3. up' \in Progress /\ up'.pc = "idle"
  BY <1>1, Shapes DEF NoUpgrade
<1>4. Announcing' /\ (Announced' => Announced) /\ (Emptied' => Emptied)
  BY <1>1, <1>3 DEF Announcing, Announced, Emptied
<1>5. CASE start[Takeover].pc = "ended"
  <2>1. NoStart \in Command /\ NoStart.pc = "idle" /\ NoStart.pid = None
    BY Shapes DEF NoStart
  <2>2. start' = [start EXCEPT ![Takeover] = NoStart]
    BY <1>5 DEF UpgradeDies
  <2>3. QED
    BY <1>1, <1>2, <1>3, <1>4, <1>5, <2>1, <2>2, TakeoverKeeps
<1>6. CASE start[Takeover].pc # "ended"
  <2>1. start' = start
    BY <1>6 DEF UpgradeDies
  <2>2. current' \in Release \cup {None} /\ runner' \in Run
    BY <1>1, Shapes
  <2>3. QED
    BY <1>1, <1>2, <1>3, <1>4, <2>1, <2>2, UpgradeKeeps
<1>7. QED
  BY <1>5, <1>6

-------------------------------------------------------------------------------
(***************************************************************************)
(* The service, its record and the release, in every behaviour             *)
(***************************************************************************)
LEMMA InitInvariant == Init => RInv
<1> SUFFICES ASSUME Init
             PROVE  RInv
  OBVIOUS
<1>1. PICK rel \in Release, p \in {CHOOSE q \in Slot : TRUE} :
        /\ current \in {None, rel}
        /\ service = [gen |-> 1, pid |-> p, rel |-> rel, status |-> "OWNED"]
        /\ proc = [q \in Slot |->
              IF q = p THEN [NoProcess EXCEPT !.pc = "loop", !.rel = rel, !.gen = 1]
              ELSE NoProcess]
  BY DEF Init
<1>2. p \in Slot
  BY HostAssumption
<1>3. /\ upgrade = None /\ lock = None /\ start = [s \in Caller |-> NoStart]
      /\ runner = [request |-> "none", live |-> FALSE, known |-> FALSE]
      /\ up = NoUpgrade
      /\ spent = [start |-> 0, stop |-> 0, upgrade |-> 0, crash |-> 0, fault |-> 0]
  BY DEF Init
<1>4. /\ proc \in [Slot -> Service]
      /\ proc[p].pc = "loop" /\ proc[p].rel = rel /\ proc[p].gen = 1
      /\ \A q \in Slot \ {p} : proc[q].pc = "none"
  <2>1. PICK c : c = [NoProcess EXCEPT !.pc = "loop", !.rel = rel, !.gen = 1]
    OBVIOUS
  <2>2. c \in Service /\ c.pc = "loop" /\ c.rel = rel /\ c.gen = 1
    BY <2>1 DEF NoProcess, Service
  <2>3. NoProcess \in Service /\ NoProcess.pc = "none"
    BY Shapes DEF NoProcess
  <2>4. QED
    BY <1>1, <1>2, <2>1, <2>2, <2>3
<1>5. service \in Record /\ service # None
  <2>1. service \in Record
    BY <1>1, <1>2 DEF Record
  <2>2. QED
    BY <2>1, HostAssumption
<1>6. up.pc = "idle" /\ Announcing /\ ~Announced /\ ~Emptied
  BY <1>3 DEF NoUpgrade, Announcing, Announced, Emptied
<1>7. TypeOK
  <2>1. start \in [Caller -> Command] /\ up \in Progress
    BY <1>3, Shapes
  <2>2. runner \in Run
    BY <1>3 DEF Run
  <2>3. spent \in Spent
    BY <1>3, HostAssumption DEF Spent
  <2>4. current \in Release \cup {None}
    BY <1>1
  <2>5. QED
    BY <1>3, <1>4, <1>5, <2>1, <2>2, <2>3, <2>4, Shapes
<1>8. ASSUME NEW s \in Caller
      PROVE  Starting(s) /\ Expected(s)
  <2>1. start[s].pc = "idle" /\ start[s].pid = None
    BY <1>3 DEF NoStart
  <2>2. QED
    BY <2>1 DEF Starting, Expected, Entering
<1>9. ASSUME NEW q \in Slot
      PROVE  Serving(q) /\ Served(q)
  <2>1. CASE q = p
    <3>1. service.pid = p /\ service.gen = 1 /\ service.status = "OWNED"
      BY <1>1
    <3>2. current # None => proc[p].rel = current
      BY <1>1, <1>4
    <3>3. Serving(q)
      BY <1>4, <2>1, <3>1 DEF Serving
    <3>4. Served(q)
      BY <1>6, <2>1, <3>2 DEF Served
    <3>5. QED
      BY <3>3, <3>4
  <2>2. CASE q # p
    BY <1>4, <2>2 DEF Serving, Served, Working, Current, Live
  <2>3. QED
    BY <2>1, <2>2
<1>10. QED
  BY <1>5, <1>6, <1>7, <1>8, <1>9 DEF RInv

LEMMA NextInvariant == RInv /\ [Next]_vars => RInv'
<1> SUFFICES ASSUME RInv, [Next]_vars
             PROVE  RInv'
  OBVIOUS
<1>1. CASE UNCHANGED vars
  <2>1. UNCHANGED <<current, upgrade, service, lock, start, proc, runner, up, spent>>
    BY <1>1 DEF vars
  <2>2. Announcing'
    BY <2>1 DEF RInv, Announcing
  <2>3. (Announced' => Announced) /\ (Emptied' => Emptied)
    BY <2>1 DEF Announced, Emptied
  <2>4. /\ current' \in Release \cup {None} /\ upgrade' \in Upgrade \cup {None}
        /\ runner' \in Run /\ spent' \in Spent /\ up' \in Progress
    BY <2>1, Shapes DEF RInv
  <2>5. QED
    BY <2>1, <2>2, <2>3, <2>4, UpgradeKeeps
<1>2. ASSUME NEW s \in Caller, StartBegins(s) \/ StartStep(s) \/ StartDies(s)
      PROVE  RInv'
  BY <1>2, BeginsKeeps, ChecksKeeps, LocksKeeps, ReadsKeeps, SpawnsKeeps,
     RecordsKeeps, AwaitsKeeps, StartDiesKeeps DEF StartStep
<1>3. ASSUME NEW p \in Slot, ServiceStep(p) \/ ServiceDies(p)
      PROVE  RInv'
  BY <1>3, OwnsKeeps, CyclesKeeps, EndsKeeps, BeatsKeeps, StopsKeeps, ServiceDiesKeeps
     DEF ServiceStep
<1>4. CASE UpgradeStep
  BY <1>4, InstallKeeps, QuiesceKeeps, SignalKeeps, JudgeKeeps, MigrateKeeps,
     SwitchKeeps, SwitchedKeeps, StartTargetKeeps, CompleteKeeps DEF UpgradeStep
<1>5. QED
  BY <1>1, <1>2, <1>3, <1>4, RunnerEndsKeeps, StopCommandKeeps, UpgradeBeginsKeeps,
     UpgradeFailsKeeps, UpgradeDiesKeeps DEF Next

\* However start commands, services, signals, deaths and upgrades interleave,
\* a start command that replaces the record has the lock and no recorded
\* service lives, only the recorded service works, and a service that comes
\* after an inventory without one was let through before the announcement.
THEOREM RuntimeInvariance == Spec => []RInv
<1>1. QED
  BY InitInvariant, NextInvariant, PTL DEF Spec

\* Every variable has its type: in particular the record of a service always
\* names a generation, a process and a release.
THEOREM TypeCorrect == Spec => []TypeOK
<1>1. RInv => TypeOK
  BY DEF RInv
<1>2. QED
  BY <1>1, RuntimeInvariance, PTL

\* A service that works (runOpsledService between its claim of the record and
\* its end) is the one that opsled.json names, so there is never a second, and
\* a heartbeat never writes back the record of an earlier generation.
THEOREM TheRecordedServiceWorks == Spec => []ServiceIsRecorded
<1>1. RInv => ServiceIsRecorded
  <2> SUFFICES ASSUME RInv, NEW p \in Slot, Cycling(p)
               PROVE  Recorded(p)
    BY DEF ServiceIsRecorded
  <2>1. Working(p) /\ Live(p) /\ Serving(p) /\ service # None
    BY DEF Cycling, Working, Live, RInv
  <2>2. QED
    BY <2>1 DEF Serving, Current, Recorded
<1>2. QED
  BY <1>1, RuntimeInvariance, PTL

\* From the inventory of upgradeHostRuntime that found no service until the
\* release is switched, only a service works whose start command had passed
\* assertRuntimeStartAllowed before the upgrade wrote its status.
THEOREM MigrationAlone == Spec => []MigrationIsAlone
<1>1. RInv => MigrationIsAlone
  <2> SUFFICES ASSUME RInv, upgrade # None, upgrade.status = "RUNNING",
                      upgrade.phase \in Frozen, NEW p \in Slot, Cycling(p)
               PROVE  proc[p].early
    BY DEF MigrationIsAlone, Frozen
  <2>1. Emptied
    BY DEF Emptied, Announced, Frozen
  <2>2. Working(p) /\ Live(p) /\ Serving(p) /\ Served(p)
    BY DEF Cycling, Working, Live, RInv
  <2>3. QED
    BY <2>1, <2>2 DEF Serving, Served, Current
<1>2. QED
  BY <1>1, RuntimeInvariance, PTL

\* On a managed host the service that works is of the current release, or its
\* start command had passed its check before an upgrade announced itself.
THEOREM TheCurrentReleaseServes == Spec => []CurrentServes
<1>1. RInv => CurrentServes
  <2> SUFFICES ASSUME RInv, NEW p \in Slot, Cycling(p), current # None
               PROVE  proc[p].rel = current \/ proc[p].early
    BY DEF CurrentServes
  <2>1. Working(p) /\ Live(p) /\ Serving(p) /\ Served(p)
    BY DEF Cycling, Working, Live, RInv
  <2>2. QED
    BY <2>1 DEF Serving, Served, Current
<1>2. QED
  BY <1>1, RuntimeInvariance, PTL

\* Only the switch of an upgrade changes the current release, and it never goes
\* back, whatever upgrades fail, die or are repeated with another target.
THEOREM NoDowngrade == Spec => NeverDowngraded
<1>1. RInv /\ [Next]_vars =>
        [current # None => current' # None /\ current' >= current]_current
  <2> SUFFICES ASSUME RInv, [Next]_vars, current' # current, current # None
               PROVE  current' # None /\ current' >= current
    OBVIOUS
  <2>1. Switch
    <3>1. ASSUME NEW s \in Caller, StartBegins(s) \/ StartStep(s) \/ StartDies(s)
          PROVE  FALSE
      BY <3>1 DEF StartBegins, StartStep, StartDies, StartChecks, StartLocks,
                  StartReads, StartSpawns, StartRecords, StartAwaits
    <3>2. ASSUME NEW p \in Slot, ServiceStep(p) \/ ServiceDies(p)
          PROVE  FALSE
      BY <3>2 DEF ServiceStep, ServiceDies, Own, BeginCycle, LaunchRunner,
                  PublishRunner, AdoptRunner, EndCycle, Heartbeat, StopService
    <3>3. ~(RunnerEnds \/ Stop \/ UpgradeBegins \/ UpgradeFails \/ UpgradeDies)
      BY DEF RunnerEnds, Stop, UpgradeBegins, UpgradeFails, UpgradeDies
    <3>4. UpgradeStep => Switch
      BY DEF UpgradeStep, Install, Quiesce, SignalService, JudgeInventory, Migrate,
             Migrated, Switched, StartTarget, Complete
    <3>5. QED
      BY <3>1, <3>2, <3>3, <3>4 DEF Next, vars
  <2>2. current' = up.target /\ up.pc = "switch"
    BY <2>1 DEF Switch
  <2>3. current <= up.target /\ up.target \in Release /\ current \in Release
    BY <2>2 DEF RInv, Announcing, TypeOK
  <2>4. QED
    BY <2>2, <2>3, HostAssumption
<1>2. QED
  BY <1>1, RuntimeInvariance, PTL DEF Spec, NeverDowngraded

===============================================================================
