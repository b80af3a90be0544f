------------------------------ MODULE HostRuntime ------------------------------
(***************************************************************************)
(* The opsled service of a host and the upgrade of its runtime:            *)
(*                                                                         *)
(*   opsled start      startOpsled of src/opsled.js                        *)
(*   opsled stop       stopOpsled                                          *)
(*   the service       runOpsledService and bin/opsled-worker.js           *)
(*   opsled upgrade    upgradeHostRuntime of src/runtime-upgrade.js, which *)
(*                     stops the service, migrates the repositories,       *)
(*                     switches the current release and starts it          *)
(*                                                                         *)
(* A release is its version number.  The host lock around a start and that *)
(* around an upgrade are taken to exclude and to go with their owner, which *)
(* HostLock examines.  Of the work in a service cycle the launch of one    *)
(* Runner is kept, since an upgrade must wait for it.  Left out: artifacts *)
(* and digests, quarantined repositories, wake transports, and historical  *)
(* dispatchers.                                                            *)
(***************************************************************************)
EXTENDS Naturals

CONSTANTS
    None,
    Starter,      \* start commands of the operator
    Takeover,     \* the start command of the upgrade
    Release,      \* versions
    Slot,         \* service processes that exist at a time
    MaxStarts,    \* bound on starts by the operator
    MaxStops,     \* bound on stops by the operator
    MaxUpgrades,  \* bound on upgrades
    MaxCrashes,   \* bound on deaths of any process
    MaxFaults     \* bound on thrown errors and expired deadlines

Caller == Starter \cup {Takeover}

Record == [gen : Nat, pid : Slot, rel : Release,
           status : {"LAUNCHED", "OWNED", "STOPPED"}]
Phase == {"LOCKED", "INSTALLED", "QUIESCING", "INVENTORIED", "MIGRATING",
          "MIGRATED", "SWITCHED"}
Upgrade == [status : {"RUNNING", "FAILED", "COMPLETED"}, phase : Phase,
            target : Release]

ASSUME HostAssumption ==
    /\ Release \subseteq Nat \ {0} /\ Slot # {}
    /\ Takeover \notin Starter
    /\ None \notin Nat \cup Slot \cup Caller
    /\ None \notin Record \cup Upgrade
    /\ MaxStarts \in Nat /\ MaxStops \in Nat /\ MaxUpgrades \in Nat
    /\ MaxCrashes \in Nat /\ MaxFaults \in Nat

VARIABLES
    current,  \* runtime/current.json: the managed release, or None
    upgrade,  \* runtime/upgrade-status.json; phase is the one that failed
    service,  \* opsled.json, the service record
    lock,     \* opsled.lock: the start command that holds it
    start,    \* start commands: where they are, and what they know
    proc,     \* service processes
    runner,   \* the Runner of one request, and the request
    up,       \* the upgrade: where it is, and its last inventory
    spent     \* how much of each bound is used up

vars == <<current, upgrade, service, lock, start, proc, runner, up, spent>>

Spend(bound, max) ==
    /\ spent[bound] < max
    /\ spent' = [spent EXCEPT ![bound] = spent[bound] + 1]

\* early: it passed the check before an upgrade announced itself (history).
NoStart == [pc |-> "idle", rel |-> None, pid |-> None, gen |-> 0,
            ok |-> FALSE, early |-> FALSE]
NoProcess == [pc |-> "none", rel |-> None, gen |-> 0, term |-> FALSE,
              seen |-> None, early |-> FALSE]
NoUpgrade == [pc |-> "idle", target |-> None, service |-> None,
              runner |-> FALSE]

Live(p) == proc[p].pc # "none"
Recorded(p) ==
    IF service = None THEN FALSE
    ELSE service.pid = p /\ service.gen = proc[p].gen
ServiceLive ==
    IF service = None THEN FALSE
    ELSE Live(service.pid) /\ Recorded(service.pid)
Cycling(p) == proc[p].pc \in {"loop", "cycle", "launching", "beat"}

\* A service of a release runs, managed or not.
Init ==
    /\ upgrade = None
    /\ lock = None
    /\ start = [s \in Caller |-> NoStart]
    /\ \E rel \in Release, p \in {CHOOSE q \in Slot : TRUE} :
          /\ current \in {None, rel}
          /\ service = [gen |-> 1, pid |-> p, rel |-> rel, status |-> "OWNED"]
          /\ proc = [q \in Slot |->
                IF q = p THEN [NoProcess EXCEPT !.pc = "loop", !.rel = rel,
                                                !.gen = 1]
                ELSE NoProcess]
    /\ runner = [request |-> "none", live |-> FALSE, known |-> FALSE]
    /\ up = NoUpgrade
    /\ spent = [start |-> 0, stop |-> 0, upgrade |-> 0, crash |-> 0,
                fault |-> 0]

(***************************************************************************)
(* opsled start: startOpsled                                               *)
(***************************************************************************)
StartGo(s, label) == start' = [start EXCEPT ![s].pc = label]

\* The command ends and releases the lock if it has it.  Only the upgrade
\* waits for the outcome of its start.
End(s, ok) ==
    /\ lock' = IF lock = s THEN None ELSE lock
    /\ start' = [start EXCEPT ![s] =
          IF s = Takeover /\ up.pc = "await"
          THEN [NoStart EXCEPT !.pc = "ended", !.ok = ok] ELSE NoStart]

StartBegins(s) ==
    /\ s # Takeover /\ start[s].pc = "idle"
    /\ Spend("start", MaxStarts)
    /\ \E rel \in Release :
          start' = [start EXCEPT ![s].pc = "check", ![s].rel = rel]
    /\ UNCHANGED <<current, upgrade, service, lock, proc, runner, up>>

\* Fault: the upgrade is not looked at.
AllowedDuringUpgrade(rel) == current # None => rel = current

\* Fault: the current release is not looked at.
AllowedToAnyRelease(rel) ==
    upgrade # None => upgrade.status # "RUNNING"

\* assertRuntimeStartAllowed
Allowed(rel) ==
    /\ IF upgrade = None THEN TRUE
       ELSE CASE upgrade.status = "RUNNING" ->
                   upgrade.phase = "SWITCHED" /\ upgrade.target = rel
              [] upgrade.status = "FAILED" ->
                   upgrade.phase \notin {"MIGRATING", "MIGRATED"}
              [] upgrade.status = "COMPLETED" -> TRUE
    /\ current # None => rel = current

StartChecks(s) ==
    /\ start[s].pc = "check"
    /\ IF Allowed(start[s].rel) THEN StartGo(s, "lock") /\ UNCHANGED lock
       ELSE End(s, FALSE)
    /\ UNCHANGED <<current, upgrade, service, proc, runner, up, spent>>

\* acquireHostLock, which gives up after some time.
StartLocks(s) ==
    /\ start[s].pc = "lock"
    /\ IF lock = None THEN lock' = s /\ StartGo(s, "read")
       ELSE End(s, FALSE)
    /\ UNCHANGED <<current, upgrade, service, proc, runner, up, spent>>

\* Fault: only an owned service is current.
ReadOwnedOnly(s) ==
    /\ start[s].pc = "read"
    /\ IF ServiceLive /\ service.status = "OWNED"
       THEN End(s, service.rel = start[s].rel)
       ELSE /\ start' = [start EXCEPT ![s].pc = "spawn",
                  ![s].gen = IF service = None THEN 1 ELSE service.gen + 1]
            /\ UNCHANGED lock
    /\ UNCHANGED <<current, upgrade, service, proc, runner, up, spent>>

\* A live service of another release is refused, a current one is kept, and
\* one that is gone or has stopped is replaced.
StartReads(s) ==
    /\ start[s].pc = "read"
    /\ IF ServiceLive /\ (\/ service.rel # start[s].rel
                          \/ service.status \in {"LAUNCHED", "OWNED"})
       THEN End(s, service.rel = start[s].rel)
       ELSE /\ start' = [start EXCEPT ![s].pc = "spawn",
                  ![s].gen = IF service = None THEN 1 ELSE service.gen + 1]
            /\ UNCHANGED lock
    /\ UNCHANGED <<current, upgrade, service, proc, runner, up, spent>>

\* The process gets a slot that no record and no command refers to.
FreeSlot(p) ==
    /\ ~Live(p)
    /\ IF service = None THEN TRUE ELSE service.pid # p
    /\ \A s \in Caller : start[s].pid # p
    /\ up.service # p

StartSpawns(s) ==
    /\ start[s].pc = "spawn"
    /\ \E p \in Slot :
          /\ FreeSlot(p)
          /\ proc' = [proc EXCEPT ![p] = [NoProcess EXCEPT !.pc = "boot",
                        !.rel = start[s].rel, !.gen = start[s].gen]]
          /\ start' = [start EXCEPT ![s].pc = "record", ![s].pid = p]
    /\ UNCHANGED <<current, upgrade, service, lock, runner, up, spent>>

\* Fault: the record is written without the identity of the process.
RecordWithoutIdentity(s) ==
    /\ start[s].pc = "record"
    /\ service' = [gen |-> start[s].gen, pid |-> None,
                   rel |-> start[s].rel, status |-> "LAUNCHED"]
    /\ StartGo(s, "await")
    /\ UNCHANGED <<current, upgrade, lock, proc, runner, up, spent>>

\* Only now does the new service find itself in the record.  The command fails
\* if the process has gone before its identity could be read.
StartRecords(s) ==
    /\ start[s].pc = "record"
    /\ \/ /\ service' = [gen |-> start[s].gen, pid |-> start[s].pid,
                         rel |-> start[s].rel, status |-> "LAUNCHED"]
          /\ proc' = [proc EXCEPT ![start[s].pid].early =
                         Live(start[s].pid) /\ start[s].early]
          /\ StartGo(s, "await")
          /\ UNCHANGED lock
       \/ /\ ~Live(start[s].pid)
          /\ End(s, FALSE)
          /\ UNCHANGED <<service, proc>>
    /\ UNCHANGED <<current, upgrade, runner, up, spent>>

\* Until the service owns the record, or its process is gone, or the deadline.
StartAwaits(s) ==
    /\ start[s].pc = "await"
    /\ LET mine == service.gen = start[s].gen
           gone == ~(Live(start[s].pid) /\ proc[start[s].pid].gen = start[s].gen)
       IN \/ mine /\ service.status = "OWNED" /\ End(s, TRUE)
             /\ UNCHANGED spent
          \/ (~mine \/ (service.status # "OWNED" /\ gone)) /\ End(s, FALSE)
             /\ UNCHANGED spent
          \/ mine /\ service.status # "OWNED" /\ ~gone
             /\ End(s, FALSE) /\ Spend("fault", MaxFaults)
    /\ UNCHANGED <<current, upgrade, service, proc, runner, up>>

StartDies(s) ==
    /\ start[s].pc \notin {"idle", "ended"}
    /\ Spend("crash", MaxCrashes)
    /\ End(s, FALSE)
    /\ UNCHANGED <<current, upgrade, service, proc, runner, up>>

(***************************************************************************)
(* The service: runOpsledService                                           *)
(***************************************************************************)
Goes(p, label) == proc' = [proc EXCEPT ![p].pc = label]
Exits(p) == proc' = [proc EXCEPT ![p] = NoProcess]

\* SIGTERM.  The handler is installed for one signal: a second one kills, as
\* does one before the handler is there.
Signalled(p) ==
    IF proc[p].term THEN Exits(p)
    ELSE \/ proc' = [proc EXCEPT ![p].term = TRUE]
         \/ proc[p].pc = "boot" /\ Exits(p)

Own(p) ==
    /\ proc[p].pc = "boot"
    /\ IF Recorded(p) /\ service.status = "LAUNCHED"
       THEN service' = [service EXCEPT !.status = "OWNED"] /\ Goes(p, "loop")
       ELSE Exits(p) /\ UNCHANGED service
    /\ UNCHANGED <<current, upgrade, lock, start, runner, up, spent>>

\* assertCurrentOpsledService before a cycle.
BeginCycle(p) ==
    /\ proc[p].pc = "loop"
    /\ IF proc[p].term THEN Goes(p, "stop")
       ELSE IF Recorded(p) THEN Goes(p, "cycle") ELSE Exits(p)
    /\ UNCHANGED <<current, upgrade, service, lock, start, runner, up, spent>>

\* executeRunnerRequest: the Runner process is there before the record that
\* names it to the host.
LaunchRunner(p) ==
    /\ proc[p].pc = "cycle" /\ runner.request = "none"
    /\ runner' = [request |-> "LAUNCHING", live |-> TRUE, known |-> FALSE]
    /\ Goes(p, "launching")
    /\ UNCHANGED <<current, upgrade, service, lock, start, up, spent>>

\* The record is written, unless the Runner did not own its attempt in time.
PublishRunner(p) ==
    /\ proc[p].pc = "launching"
    /\ \/ /\ runner' = [runner EXCEPT !.request = "settled", !.known = TRUE]
          /\ UNCHANGED spent
       \/ /\ runner' = [runner EXCEPT !.request = "settled"]
          /\ Spend("fault", MaxFaults)
    /\ Goes(p, "cycle")
    /\ UNCHANGED <<current, upgrade, service, lock, start, up>>

\* The launch of an earlier service is adopted or given up.
AdoptRunner(p) ==
    /\ proc[p].pc = "cycle" /\ runner.request = "LAUNCHING"
    /\ \E known \in BOOLEAN :
          runner' = [runner EXCEPT !.request = "settled", !.known = known]
    /\ UNCHANGED <<current, upgrade, service, lock, start, proc, up, spent>>

\* After the cycle the record is read and checked once more ...
EndCycle(p) ==
    /\ proc[p].pc = "cycle"
    /\ IF Recorded(p)
       THEN proc' = [proc EXCEPT ![p].pc = "beat", ![p].seen = service]
       ELSE Exits(p)
    /\ UNCHANGED <<current, upgrade, service, lock, start, runner, up, spent>>

\* ... and written back with the heartbeat.
Heartbeat(p) ==
    /\ proc[p].pc = "beat"
    /\ service' = proc[p].seen
    /\ proc' = [proc EXCEPT ![p].pc = "loop", ![p].seen = None]
    /\ UNCHANGED <<current, upgrade, lock, start, runner, up, spent>>

\* bin/opsled-worker.js
StopService(p) ==
    /\ proc[p].pc = "stop"
    /\ service' = IF Recorded(p) THEN [service EXCEPT !.status = "STOPPED"]
                  ELSE service
    /\ Exits(p)
    /\ UNCHANGED <<current, upgrade, lock, start, runner, up, spent>>

ServiceDies(p) ==
    /\ Live(p)
    /\ Spend("crash", MaxCrashes)
    /\ Exits(p)
    /\ UNCHANGED <<current, upgrade, service, lock, start, runner, up>>

RunnerEnds ==
    /\ runner.live
    /\ runner' = [runner EXCEPT !.live = FALSE]
    /\ UNCHANGED <<current, upgrade, service, lock, start, proc, up, spent>>

\* opsled stop
Stop ==
    /\ ServiceLive /\ service.status \in {"LAUNCHED", "OWNED"}
    /\ Spend("stop", MaxStops)
    /\ Signalled(service.pid)
    /\ UNCHANGED <<current, upgrade, service, lock, start, runner, up>>

(***************************************************************************)
(* opsled upgrade: upgradeHostRuntime                                      *)
(***************************************************************************)
Persist(phase) == upgrade' = [upgrade EXCEPT !.phase = phase]
UpGo(label) == up' = [up EXCEPT !.pc = label]

\* The lock of the upgrade excludes other upgrades.  Start commands that have
\* passed their check do not hear of it.
UpgradeBegins ==
    /\ up.pc = "idle"
    /\ Spend("upgrade", MaxUpgrades)
    /\ \E target \in Release :
          /\ upgrade' = [status |-> "RUNNING", phase |-> "LOCKED",
                         target |-> target]
          /\ up' = [NoUpgrade EXCEPT !.pc = "install", !.target = target]
    /\ start' = [s \in Caller |->
          [start[s] EXCEPT !.early = start[s].early \/
             start[s].pc \in {"lock", "read", "spawn", "record"}]]
    /\ UNCHANGED <<current, service, lock, proc, runner>>

Fail ==
    /\ upgrade' = [upgrade EXCEPT !.status = "FAILED"]
    /\ up' = NoUpgrade

\* Fault: any version is installed.
InstallAnyVersion ==
    /\ up.pc = "install"
    /\ Persist("INSTALLED") /\ UpGo("quiesce")
    /\ UNCHANGED <<current, service, lock, start, proc, runner, spent>>

Install ==
    /\ up.pc = "install"
    /\ IF current # None /\ current > up.target THEN Fail
       ELSE Persist("INSTALLED") /\ UpGo("quiesce")
    /\ UNCHANGED <<current, service, lock, start, proc, runner, spent>>

\* inventoryManagedRuntime: the recorded service and the recorded Runner, if
\* their processes live.
Inventory(label) ==
    up' = [up EXCEPT !.pc = label,
                     !.service = IF ServiceLive THEN service.pid ELSE None,
                     !.runner = runner.known /\ runner.live]

Quiesce ==
    /\ up.pc = "quiesce"
    /\ Persist("QUIESCING")
    /\ Inventory("signal")
    /\ UNCHANGED <<current, service, lock, start, proc, runner, spent>>


\* Every round signals the service again.
SignalService ==
    /\ up.pc = "signal"
    /\ IF up.service # None
       THEN IF Live(up.service) THEN Signalled(up.service) ELSE UNCHANGED proc
       ELSE UNCHANGED proc
    /\ UpGo("judge")
    /\ UNCHANGED <<current, upgrade, service, lock, start, runner, spent>>

JudgeInventory ==
    /\ up.pc = "judge"
    /\ IF up.service = None /\ ~up.runner
       THEN UpGo("migrate") /\ Persist("INVENTORIED")
       ELSE Inventory("signal") /\ UNCHANGED upgrade
    /\ UNCHANGED <<current, service, lock, start, proc, runner, spent>>

Migrate ==
    /\ up.pc = "migrate"
    /\ Persist("MIGRATING")
    /\ UpGo("migrating")
    /\ UNCHANGED <<current, service, lock, start, proc, runner, spent>>

Migrated ==
    /\ up.pc = "migrating"
    /\ Persist("MIGRATED")
    /\ UpGo("switch")
    /\ UNCHANGED <<current, service, lock, start, proc, runner, spent>>

Switch ==
    /\ up.pc = "switch"
    /\ current' = up.target
    /\ UpGo("switched")
    /\ UNCHANGED <<upgrade, service, lock, start, proc, runner, spent>>

Switched ==
    /\ up.pc = "switched"
    /\ Persist("SWITCHED")
    /\ UpGo("start")
    /\ UNCHANGED <<current, service, lock, start, proc, runner, spent>>

\* startTarget
StartTarget ==
    /\ up.pc = "start" /\ start[Takeover].pc = "idle"
    /\ start' = [start EXCEPT ![Takeover].pc = "check",
                              ![Takeover].rel = up.target]
    /\ UpGo("await")
    /\ UNCHANGED <<current, upgrade, service, lock, proc, runner, spent>>

Complete ==
    /\ up.pc = "await" /\ start[Takeover].pc = "ended"
    /\ IF start[Takeover].ok
       THEN /\ upgrade' = [upgrade EXCEPT !.status = "COMPLETED"]
            /\ up' = NoUpgrade
       ELSE Fail
    /\ start' = [start EXCEPT ![Takeover] = NoStart]
    /\ UNCHANGED <<current, service, lock, proc, runner, spent>>

\* An error, or the deadline for the processes to go.
UpgradeFails ==
    /\ up.pc \notin {"idle", "start", "await"}
    /\ Spend("fault", MaxFaults)
    /\ Fail
    /\ UNCHANGED <<current, service, lock, start, proc, runner>>

\* The status stays as it is; a start command goes on without its upgrade.
UpgradeDies ==
    /\ up.pc # "idle"
    /\ Spend("crash", MaxCrashes)
    /\ up' = NoUpgrade
    /\ start' = IF start[Takeover].pc = "ended"
                THEN [start EXCEPT ![Takeover] = NoStart] ELSE start
    /\ UNCHANGED <<current, upgrade, service, lock, proc, runner>>

-------------------------------------------------------------------------------

StartStep(s) ==
    \/ StartChecks(s) \/ StartLocks(s) \/ StartReads(s) \/ StartSpawns(s)
    \/ StartRecords(s) \/ StartAwaits(s)

ServiceStep(p) ==
    \/ Own(p) \/ BeginCycle(p) \/ LaunchRunner(p) \/ PublishRunner(p)
    \/ AdoptRunner(p) \/ EndCycle(p) \/ Heartbeat(p) \/ StopService(p)

UpgradeStep ==
    \/ Install \/ Quiesce \/ SignalService \/ JudgeInventory \/ Migrate
    \/ Migrated \/ Switch \/ Switched \/ StartTarget \/ Complete

Next ==
    \/ \E s \in Caller : StartBegins(s) \/ StartStep(s) \/ StartDies(s)
    \/ \E p \in Slot : ServiceStep(p) \/ ServiceDies(p)
    \/ RunnerEnds \/ Stop
    \/ UpgradeBegins \/ UpgradeStep \/ UpgradeFails \/ UpgradeDies

Spec == Init /\ [][Next]_vars

\* Running processes run on, and a Runner ends: its child has a timeout.
FairSpec ==
    /\ Spec
    /\ \A s \in Caller : WF_vars(StartStep(s))
    /\ \A p \in Slot : WF_vars(ServiceStep(p))
    /\ WF_vars(UpgradeStep) /\ WF_vars(RunnerEnds)

-------------------------------------------------------------------------------

\* Every variable has its type.
TypeOK ==
    /\ current \in Release \cup {None}
    /\ upgrade \in Upgrade \cup {None}
    /\ service \in Record \cup {None}
    /\ lock \in Caller \cup {None}
    /\ start \in [Caller -> [pc : {"idle", "check", "lock", "read", "spawn",
                                   "record", "await", "ended"},
                             rel : Release \cup {None},
                             pid : Slot \cup {None}, gen : Nat, ok : BOOLEAN,
                             early : BOOLEAN]]
    /\ proc \in [Slot -> [pc : {"none", "boot", "loop", "cycle", "launching",
                                "beat", "stop"},
                          rel : Release \cup {None}, gen : Nat,
                          term : BOOLEAN, seen : Record \cup {None},
                          early : BOOLEAN]]
    /\ runner \in [request : {"none", "LAUNCHING", "settled"}, live : BOOLEAN,
                   known : BOOLEAN]
    /\ up \in [pc : {"idle", "install", "quiesce", "signal", "judge",
                     "migrate", "migrating", "switch", "switched", "start",
                     "await"},
               target : Release \cup {None}, service : Slot \cup {None},
               runner : BOOLEAN]
    /\ spent \in [start : 0..MaxStarts, stop : 0..MaxStops,
                  upgrade : 0..MaxUpgrades, crash : 0..MaxCrashes,
                  fault : 0..MaxFaults]

\* The service that works is the recorded one, so there is never a second, and
\* no heartbeat of an earlier service overwrites the record of a later one.
ServiceIsRecorded == \A p \in Slot : Cycling(p) => Recorded(p)

\* While repositories are migrated no service works on them, unless its start
\* command had passed its check before the upgrade announced itself.
MigrationIsAlone ==
    IF upgrade = None THEN TRUE
    ELSE /\ upgrade.status = "RUNNING"
         /\ upgrade.phase \in {"INVENTORIED", "MIGRATING", "MIGRATED"}
         => \A p \in Slot : Cycling(p) => proc[p].early

\* A service of a managed host is of the current release, with the same
\* exception.
CurrentServes ==
    \A p \in Slot :
        Cycling(p) /\ current # None => proc[p].rel = current \/ proc[p].early

\* No upgrade, however started, repeated or interrupted, goes back to an earlier
\* release.
NeverDowngraded ==
    [][current # None => current' # None /\ current' >= current]_current


\* No Runner works while the repositories are migrated (SPEC: "Runtime upgrade
\* MUST ... stop the exact current opsled process, reject live transient
\* workers, run the target release's real migrations").
NoRunnerDuringMigration ==
    up.pc = "migrating" => ~runner.live
===============================================================================
