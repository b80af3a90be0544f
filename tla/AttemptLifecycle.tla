---------------------------- MODULE AttemptLifecycle ----------------------------
(***************************************************************************)
(* One attempt of one task, from its Runner request to its wake request:   *)
(*                                                                         *)
(*   opsled      executes the request (src/opsled-runner.js), launches a   *)
(*               detached worker and supervises it, may die and restart;   *)
(*   the worker  owns the attempt, runs the child and publishes its result *)
(*               (runDetachedWorker and runAttempt of src/runner.js), or   *)
(*               records its failure;                                      *)
(*   the CLI     recovers, pauses and resumes at any moment (src/cli.js).  *)
(*                                                                         *)
(* They share the files of the repository and nothing else.  Every step is *)
(* one file that another process reads or writes; records are kept in      *)
(* memory between steps and written back whole, as the code does.          *)
(*                                                                         *)
(* `task run' has just created the attempt, its active claim and its       *)
(* request, in generation 1.  Release and reading of the claim are single  *)
(* steps, which ClaimIndex justifies.  Left out: evidence other than the   *)
(* completion handoff, release identities, the evaluation that follows     *)
(* the wake, and foreground attempts.                                      *)
(***************************************************************************)
EXTENDS Naturals

CONSTANTS
    None,
    MaxGen,       \* bound on supervisor generations, so on recoveries
    MaxCommands,  \* bound on pause and resume commands
    MaxCrashes,   \* bound on deaths of opsled and of the worker
    MaxFaults     \* bound on thrown errors and expired deadlines

ASSUME AttemptAssumption ==
    /\ MaxGen \in Nat \ {0}
    /\ MaxCommands \in Nat /\ MaxCrashes \in Nat /\ MaxFaults \in Nat

Outcome == {"COMPLETED", "FAILED"}

VARIABLES
    gen,           \* supervisor.json: the generation
    state,         \* state.json: supervisor_state and pause
    attempt,       \* attempts/<attempt>.json
    claim,         \* the claim's status
    task,          \* the task's state
    record,        \* workers/<attempt>.json
    handoff,       \* execution status of the completion handoff, or None
    event,         \* has CHILD_COMPLETION been emitted?
    intervention,  \* has INTERVENTION_REQUIRED been emitted?
    wake,          \* has a wake been requested?
    result,        \* status of the request's result file, or None
    host,          \* does opsled's Runner record exist?
    ops,           \* opsled: where it is, and the attempt it has read
    worker,        \* the worker: where it is, and what it has in memory
    cli,           \* the recover command: where it is, and what it has read
    spent          \* how much of each bound is used up

published == <<claim, task, handoff, event, wake>>
vars == <<gen, state, attempt, published, record, intervention, result, host,
          ops, worker, cli, spent>>

Queued == [state |-> "QUEUED", wait |-> "none", result |-> FALSE]

\* Processes with nothing in memory.
OpsIdle == [pc |-> "idle", seen |-> Queued]
WorkerAt(label) == [pc |-> label, attempt |-> Queued, record |-> None,
                    outcome |-> None, pause |-> "no"]
CliIdle == [pc |-> "idle", state |-> [sup |-> "ACTIVE", pause |-> "no"],
            attempt |-> Queued]

Init ==
    /\ gen = 1
    /\ state \in [sup : {"ACTIVE"}, pause : {"no", "after"}]
    /\ attempt = Queued
    /\ claim = "ACTIVE"
    /\ task = "QUEUED"
    /\ record = None
    /\ handoff = None
    /\ event = FALSE
    /\ intervention = FALSE
    /\ wake = FALSE
    /\ result = None
    /\ host = FALSE
    /\ ops = OpsIdle
    /\ worker = WorkerAt("none")
    /\ cli = CliIdle
    /\ spent = [command |-> 0, crash |-> 0, fault |-> 0]

Spend(bound, max) ==
    /\ spent[bound] < max
    /\ spent' = [spent EXCEPT ![bound] = spent[bound] + 1]

Status == IF record = None THEN None ELSE record.status
HasPid == IF record = None THEN FALSE ELSE record.pid
Terminal(a) == a.state \in Outcome
WorkerLive == worker.pc \notin {"none", "done", "dead"}

\* applyWakeEvent with a terminal event.
Woken(a) == [a EXCEPT !.wait = IF a.wait = "WAITING" THEN "READY" ELSE a.wait]

Paused == [sup |-> "PAUSED", pause |-> "now"]

(***************************************************************************)
(* opsled: executeRunnerRequest                                            *)
(***************************************************************************)
OpsGo(label) == ops' = [ops EXCEPT !.pc = label]

\* validateRequestAuthority.  Without authority it throws, and this cycle of
\* the repository ends.
OpsAuthorise ==
    /\ ops.pc = "idle" /\ result = None
    /\ state.pause # "now" /\ claim = "ACTIVE"
    /\ ops' = [pc |-> "create", seen |-> attempt]
    /\ UNCHANGED <<gen, state, attempt, published, record, intervention,
                   result, host, worker, cli, spent>>

OpsCreate ==
    /\ ops.pc = "create"
    /\ result' = "LAUNCHING"
    /\ OpsGo("prepare")
    /\ UNCHANGED <<gen, state, attempt, published, record, intervention,
                   host, worker, cli, spent>>

\* prepareAttemptLaunch, on the attempt read before.
OpsPrepare ==
    /\ ops.pc = "prepare"
    /\ IF ops.seen = Queued
       THEN /\ attempt' = [state |-> "LAUNCHING", wait |-> "WAITING",
                           result |-> FALSE]
            /\ ops' = [pc |-> "sleep", seen |-> attempt']
       ELSE OpsGo("fail") /\ UNCHANGED attempt
    /\ UNCHANGED <<gen, state, published, record, intervention, result, host,
                   worker, cli, spent>>

OpsSleep ==
    /\ ops.pc = "sleep"
    /\ state' = [state EXCEPT !.sup = "DORMANT"]
    /\ OpsGo("record")
    /\ UNCHANGED <<gen, attempt, published, record, intervention, result,
                   host, worker, cli, spent>>

\* launchDetachedAttempt: the worker record, the process, and then its pid.
OpsRecord ==
    /\ ops.pc = "record"
    /\ record' = [status |-> "SPAWNING", gen |-> gen, pid |-> FALSE]
    /\ OpsGo("spawn")
    /\ UNCHANGED <<gen, state, attempt, published, intervention, result, host,
                   worker, cli, spent>>

OpsSpawn ==
    /\ ops.pc = "spawn"
    /\ worker' = [worker EXCEPT !.pc = "await"]
    /\ OpsGo("launched")
    /\ UNCHANGED <<gen, state, attempt, published, record, intervention,
                   result, host, cli, spent>>

OpsLaunched ==
    /\ ops.pc = "launched" /\ WorkerLive
    /\ record' = [status |-> "LAUNCHED", gen |-> record.gen, pid |-> TRUE]
    /\ OpsGo("handshake")
    /\ UNCHANGED <<gen, state, attempt, published, intervention, result, host,
                   worker, cli, spent>>

\* The process was not started, or is gone already.  Three files in a row; the
\* worker writes none of them any more.
OpsSpawnFails ==
    /\ \/ ops.pc = "spawn" /\ Spend("fault", MaxFaults)
       \/ ops.pc = "launched" /\ ~WorkerLive /\ UNCHANGED spent
    /\ record' = [record EXCEPT !.status = "FAILED"]
    /\ attempt' = [ops.seen EXCEPT !.state = "UNKNOWN"]
    /\ state' = Paused
    /\ OpsGo("fail")
    /\ UNCHANGED <<gen, published, intervention, result, host, worker, cli>>

OpsHandshake ==
    /\ ops.pc = "handshake"
    /\ Status \in {"OWNED", "TERMINAL"}
    /\ OpsGo("publish")
    /\ UNCHANGED <<gen, state, attempt, published, record, intervention,
                   result, host, worker, cli, spent>>

\* Fault: the attempt is marked as the launch error marks it.
OpsHandshakeMarks ==
    /\ ops.pc = "handshake"
    /\ Status = "FAILED" \/ ~WorkerLive
    /\ attempt' = [ops.seen EXCEPT !.state = "UNKNOWN"]
    /\ OpsGo("fail")
    /\ UNCHANGED <<gen, state, published, record, intervention, result, host,
                   worker, cli, spent>>

\* The worker failed, is gone, or does not answer in time; in the last case it
\* goes on by itself.
OpsHandshakeFails ==
    /\ ops.pc = "handshake"
    /\ Status \notin {"OWNED", "TERMINAL"}
    /\ \/ (Status = "FAILED" \/ ~WorkerLive) /\ UNCHANGED spent
       \/ Spend("fault", MaxFaults)
    /\ OpsGo("fail")
    /\ UNCHANGED <<gen, state, attempt, published, record, intervention,
                   result, host, worker, cli>>

OpsPublish ==
    /\ ops.pc = "publish"
    /\ host' = TRUE
    /\ OpsGo("running")
    /\ UNCHANGED <<gen, state, attempt, published, record, intervention,
                   result, worker, cli, spent>>

\* The result of the launch, from memory.
OpsConclude ==
    /\ ops.pc \in {"running", "fail"}
    /\ result' = IF ops.pc = "running" THEN "RUNNING" ELSE "FAILED"
    /\ ops' = OpsIdle
    /\ UNCHANGED <<gen, state, attempt, published, record, intervention, host,
                   worker, cli, spent>>

\* A launch that an earlier opsled began and whose worker has a pid is adopted.
OpsAdopt ==
    /\ ops.pc = "idle" /\ result = "LAUNCHING" /\ ~host
    /\ HasPid
    /\ host' = TRUE
    /\ UNCHANGED <<gen, state, attempt, published, record, intervention,
                   result, ops, worker, cli, spent>>

\* Fault: a launch whose worker has no pid yet is taken up where it was left.
OpsLaunchAgain ==
    /\ ops.pc = "idle" /\ result = "LAUNCHING" /\ ~host
    /\ ~HasPid
    /\ ops' = [pc |-> "record", seen |-> attempt]
    /\ UNCHANGED <<gen, state, attempt, published, record, intervention, result,
                   host, worker, cli, spent>>

\* Fault: only a launch with a worker record is given up.
OpsAbandonSpawned ==
    /\ ops.pc = "idle" /\ result = "LAUNCHING" /\ ~host
    /\ record # None /\ ~HasPid
    /\ result' = "FAILED"
    /\ UNCHANGED <<gen, state, attempt, published, record, intervention, host,
                   ops, worker, cli, spent>>

\* ... and one whose worker never had one has failed.
OpsAbandon ==
    /\ ops.pc = "idle" /\ result = "LAUNCHING" /\ ~host
    /\ ~HasPid
    /\ result' = "FAILED"
    /\ UNCHANGED <<gen, state, attempt, published, record, intervention, host,
                   ops, worker, cli, spent>>

\* Fault: a terminal attempt is enough.
RunnerDoneByAttempt == Terminal(attempt)

RunnerDone == Terminal(attempt) /\ record.status = "TERMINAL"

\* superviseOpsledRunner, whose status becomes that of the result; it throws if
\* the worker record has lost the pid.  The wait's deadline may have passed.  The
\* worker record, the attempt and the process are looked at in one step, although a
\* worker that ends in between can make the status UNKNOWN.
OpsSupervise ==
    /\ ops.pc = "idle" /\ result \in {"LAUNCHING", "RUNNING"} /\ host
    /\ HasPid
    /\ \/ /\ result' = CASE RunnerDone -> "TERMINAL"
                         [] ~RunnerDone /\ record.status = "FAILED" -> "FAILED"
                         [] ~RunnerDone /\ record.status # "FAILED" ->
                              IF ~WorkerLive THEN "UNKNOWN"
                              ELSE IF record.status = "OWNED" THEN "RUNNING"
                              ELSE record.status
          /\ UNCHANGED spent
       \/ /\ ~RunnerDone /\ record.status # "FAILED" /\ attempt.wait # "none"
          /\ result' = "TIMED_OUT"
          /\ Spend("fault", MaxFaults)
    /\ UNCHANGED <<gen, state, attempt, published, record, intervention, host,
                   ops, worker, cli>>

\* opsled dies; the next one starts from the files.
OpsDies ==
    /\ ops.pc # "idle"
    /\ Spend("crash", MaxCrashes)
    /\ ops' = OpsIdle
    /\ UNCHANGED <<gen, state, attempt, published, record, intervention,
                   result, host, worker, cli>>

(***************************************************************************)
(* The worker: runDetachedWorker                                           *)
(***************************************************************************)
WorkerGo(label) == worker' = [worker EXCEPT !.pc = label]

\* It waits for its own pid to appear in the worker record ...
Await ==
    /\ worker.pc = "await"
    /\ HasPid
    /\ worker' = [worker EXCEPT !.pc = "fence", !.record = record]
    /\ UNCHANGED <<gen, state, attempt, published, record, intervention,
                   result, host, ops, cli, spent>>

\* ... but not for ever.
AwaitFails ==
    /\ worker.pc = "await"
    /\ ~HasPid
    /\ IF ops.pc = "launched" THEN Spend("fault", MaxFaults) ELSE UNCHANGED spent
    /\ worker' = [worker EXCEPT !.pc = "failRecord", !.record = record]
    /\ UNCHANGED <<gen, state, attempt, published, record, intervention,
                   result, host, ops, cli>>

FenceGeneration ==
    /\ worker.pc = "fence"
    /\ WorkerGo(IF worker.record.gen = gen THEN "load" ELSE "failRecord")
    /\ UNCHANGED <<gen, state, attempt, published, record, intervention,
                   result, host, ops, cli, spent>>

\* Attempt and claim are read; the wait must have been registered.
Load ==
    /\ worker.pc = "load"
    /\ worker' = [worker EXCEPT
          !.pc = IF claim = "ACTIVE" /\ attempt.wait # "none"
                 THEN "own" ELSE "failRecord",
          !.attempt = attempt]
    /\ UNCHANGED <<gen, state, attempt, published, record, intervention,
                   result, host, ops, cli, spent>>

OwnedRecord == [worker.record EXCEPT !.status = "OWNED"]

Own ==
    /\ worker.pc = "own"
    /\ record' = OwnedRecord
    /\ worker' = [worker EXCEPT !.pc = "start", !.record = OwnedRecord]
    /\ UNCHANGED <<gen, state, attempt, published, intervention, result, host,
                   ops, cli, spent>>

(***************************************************************************)
(* The worker: runAttempt                                                  *)
(***************************************************************************)
WriteAttempt(a, label) ==
    /\ attempt' = a
    /\ worker' = [worker EXCEPT !.pc = label, !.attempt = a]
    /\ UNCHANGED <<gen, state, record, intervention, result, host, ops, cli,
                   spent>>

Start ==
    /\ worker.pc = "start"
    /\ WriteAttempt([worker.attempt EXCEPT !.state = "RUNNING"], "running")
    /\ UNCHANGED published

\* The attempt in memory is written again.
Heartbeat ==
    /\ worker.pc = "running"
    /\ attempt # worker.attempt
    /\ WriteAttempt(worker.attempt, "running")
    /\ UNCHANGED published

ChildEnds ==
    /\ worker.pc = "running"
    /\ \E outcome \in Outcome :
          worker' = [worker EXCEPT !.pc = "reduce", !.outcome = outcome]
    /\ UNCHANGED <<gen, state, attempt, published, record, intervention,
                   result, host, ops, cli, spent>>

Publish(label) ==
    /\ WorkerGo(label)
    /\ UNCHANGED <<gen, state, attempt, record, intervention, result, host,
                   ops, cli, spent>>

\* Evidence, compact packet and completion handoff.
Reduce ==
    /\ worker.pc = "reduce"
    /\ handoff' = worker.outcome
    /\ Publish("terminal")
    /\ UNCHANGED <<claim, task, event, wake>>

\* The attempt becomes terminal, with its result and acceptance.
Finish ==
    /\ worker.pc = "terminal"
    /\ WriteAttempt([worker.attempt EXCEPT !.state = worker.outcome,
                                           !.result = TRUE], "release")
    /\ UNCHANGED published

\* Fault: the claim is left to somebody else.
ReleaseNothing ==
    /\ worker.pc = "release"
    /\ Publish("task")
    /\ UNCHANGED published

ReleaseClaim ==
    /\ worker.pc = "release"
    /\ claim' = worker.outcome
    /\ Publish("task")
    /\ UNCHANGED <<task, handoff, event, wake>>

AwaitSupervisor ==
    /\ worker.pc = "task"
    /\ task' = "AWAITING_SUPERVISOR"
    /\ Publish("announce")
    /\ UNCHANGED <<claim, handoff, event, wake>>

Announce ==
    /\ worker.pc = "announce"
    /\ event' = TRUE
    /\ Publish("ready")
    /\ UNCHANGED <<claim, task, handoff, wake>>

Ready ==
    /\ worker.pc = "ready"
    /\ WriteAttempt(Woken(worker.attempt), "readPause")
    /\ UNCHANGED published

ReadPause ==
    /\ worker.pc = "readPause"
    /\ worker' = [worker EXCEPT !.pc = "settle", !.pause = state.pause]
    /\ UNCHANGED <<gen, state, attempt, published, record, intervention,
                   result, host, ops, cli, spent>>

\* The supervisor sleeps on or stays paused, with the pause read before.
Settle ==
    /\ worker.pc = "settle"
    /\ state' = [sup |-> IF worker.pause = "now" THEN "PAUSED" ELSE "DORMANT",
                 pause |-> worker.pause]
    /\ WorkerGo("enqueue")
    /\ UNCHANGED <<gen, attempt, published, record, intervention, result,
                   host, ops, cli, spent>>

\* enqueueTerminalWake
Enqueue ==
    /\ worker.pc = "enqueue"
    /\ wake' = TRUE
    /\ Publish("conclude")
    /\ UNCHANGED <<claim, task, handoff, event>>

Conclude ==
    /\ worker.pc = "conclude"
    /\ record' = [worker.record EXCEPT !.status = "TERMINAL"]
    /\ worker' = WorkerAt("done")
    /\ UNCHANGED <<gen, state, attempt, published, intervention, result, host,
                   ops, cli, spent>>

\* Any step of runAttempt may throw.
Throws ==
    /\ worker.pc \in {"start", "running", "reduce", "terminal", "release",
                      "task", "announce", "ready", "readPause", "settle",
                      "enqueue"}
    /\ Spend("fault", MaxFaults)
    /\ WorkerGo("failRecord")
    /\ UNCHANGED <<gen, state, attempt, published, record, intervention,
                   result, host, ops, cli>>

(***************************************************************************)
(* The worker: persistDetachedWorkerFailure                                *)
(***************************************************************************)
FailRecord ==
    /\ worker.pc = "failRecord"
    /\ record' = [worker.record EXCEPT !.status = "FAILED"]
    /\ WorkerGo("failAttempt")
    /\ UNCHANGED <<gen, state, attempt, published, intervention, result, host,
                   ops, cli, spent>>

\* An attempt that is not terminal becomes UNKNOWN.  The event is emitted and the
\* attempt written back in one step.  No wake is requested.
FailAttempt ==
    /\ worker.pc = "failAttempt"
    /\ attempt' = Woken(IF Terminal(attempt) THEN attempt
                        ELSE [attempt EXCEPT !.state = "UNKNOWN"])
    /\ intervention' = TRUE
    /\ WorkerGo("failPause")
    /\ UNCHANGED <<gen, state, published, record, result, host, ops, cli,
                   spent>>

FailPause ==
    /\ worker.pc = "failPause"
    /\ state' = Paused
    /\ worker' = WorkerAt("done")
    /\ UNCHANGED <<gen, attempt, published, record, intervention, result,
                   host, ops, cli, spent>>

WorkerDies ==
    /\ WorkerLive
    /\ Spend("crash", MaxCrashes)
    /\ worker' = WorkerAt("dead")
    /\ UNCHANGED <<gen, state, attempt, published, record, intervention,
                   result, host, ops, cli>>

(***************************************************************************)
(* The CLI                                                                 *)
(***************************************************************************)
CliGo(label) == cli' = [cli EXCEPT !.pc = label]

\* recover reads state and attempt ...
RecoverReads ==
    /\ cli.pc = "idle" /\ gen < MaxGen
    /\ cli' = [pc |-> "judge", state |-> state, attempt |-> attempt]
    /\ UNCHANGED <<gen, state, attempt, published, record, intervention,
                   result, host, ops, worker, spent>>

\* exactDetachedRunnerOwner; the attempt was created in generation 1.
RunnerOwns ==
    /\ claim = "ACTIVE"
    /\ Status = "OWNED" /\ record.gen = 1
    /\ WorkerLive

\* ... then worker record, claim and task.  Even when nothing is wrong it may
\* write state.json back, to correct the pending action.
RecoverJudges ==
    /\ cli.pc = "judge"
    /\ IF Terminal(cli.attempt) \/ cli.attempt.state = "UNKNOWN" \/ RunnerOwns
       THEN CliGo("bump") \/ CliGo("rewrite")
       ELSE CliGo("unknown")
    /\ UNCHANGED <<gen, state, attempt, published, record, intervention,
                   result, host, ops, worker, spent>>

RecoverRewrites ==
    /\ cli.pc = "rewrite"
    /\ state' = cli.state
    /\ CliGo("bump")
    /\ UNCHANGED <<gen, attempt, published, record, intervention, result,
                   host, ops, worker, spent>>

\* The attempt that was read is written back as UNKNOWN ...
RecoverMarks ==
    /\ cli.pc = "unknown"
    /\ attempt' = Woken([cli.attempt EXCEPT !.state = "UNKNOWN"])
    /\ intervention' = TRUE
    /\ CliGo("pause")
    /\ UNCHANGED <<gen, state, published, record, result, host, ops, worker,
                   spent>>

RecoverPauses ==
    /\ cli.pc = "pause"
    /\ state' = Paused
    /\ CliGo("bump")
    /\ UNCHANGED <<gen, attempt, published, record, intervention, result,
                   host, ops, worker, spent>>

\* Fault: the generation is advanced once too often.
RecoverAdvancesTwice ==
    /\ cli.pc = "bump"
    /\ gen' = gen + 2
    /\ cli' = CliIdle
    /\ UNCHANGED <<state, attempt, published, record, intervention, result,
                   host, ops, worker, spent>>

\* ... and the generation advances.
RecoverAdvances ==
    /\ cli.pc = "bump"
    /\ gen' = gen + 1
    /\ cli' = CliIdle
    /\ UNCHANGED <<state, attempt, published, record, intervention, result,
                   host, ops, worker, spent>>

Command(s) ==
    /\ Spend("command", MaxCommands)
    /\ state' = s
    /\ UNCHANGED <<gen, attempt, published, record, intervention, result,
                   host, ops, worker, cli>>

\* pause --after-current takes effect at once when no child runs.
Pause ==
    \/ Command(Paused)
    \/ /\ attempt.state \in {"LAUNCHING", "RUNNING"}
       /\ Command([state EXCEPT !.pause = "after"])

Resume == Command([sup |-> "ACTIVE", pause |-> "no"])

OpsStep ==
    \/ OpsAuthorise \/ OpsCreate \/ OpsPrepare \/ OpsSleep \/ OpsRecord
    \/ OpsSpawn \/ OpsLaunched \/ OpsSpawnFails \/ OpsHandshake
    \/ OpsHandshakeFails \/ OpsPublish \/ OpsConclude \/ OpsAdopt
    \/ OpsAbandon \/ OpsSupervise

WorkerStep ==
    \/ Await \/ AwaitFails \/ FenceGeneration \/ Load \/ Own
    \/ Start \/ Heartbeat \/ ChildEnds \/ Reduce \/ Finish \/ ReleaseClaim
    \/ AwaitSupervisor \/ Announce \/ Ready \/ ReadPause \/ Settle \/ Enqueue
    \/ Conclude \/ Throws \/ FailRecord \/ FailAttempt \/ FailPause

RecoverStep ==
    \/ RecoverReads \/ RecoverJudges \/ RecoverRewrites \/ RecoverMarks
    \/ RecoverPauses \/ RecoverAdvances

Next ==
    OpsStep \/ OpsDies \/ WorkerStep \/ WorkerDies \/ RecoverStep
    \/ Pause \/ Resume

Spec == Init /\ [][Next]_vars

\* Running processes keep running, and opsled, restarted if need be, looks at the
\* request again and again.  A child need not end: its timeout kills the direct
\* child, and whoever else holds its output open keeps the worker waiting.
FairSpec == Spec /\ WF_vars(OpsStep) /\ WF_vars(WorkerStep /\ worker.pc # "running")

-------------------------------------------------------------------------------

Pauses == {"no", "after", "now"}
State == [sup : {"ACTIVE", "DORMANT", "PAUSED"}, pause : Pauses]
Attempt == [state : Outcome \cup {"QUEUED", "LAUNCHING", "RUNNING", "UNKNOWN"},
            wait : {"none", "WAITING", "READY"}, result : BOOLEAN]
Record == [status : {"SPAWNING", "LAUNCHED", "OWNED", "TERMINAL", "FAILED"},
           gen : 1..MaxGen, pid : BOOLEAN]
\* LAUNCHED is not one of the statuses of validateRunnerRequestResult.
Result == {"LAUNCHING", "RUNNING", "TERMINAL", "FAILED", "UNKNOWN", "TIMED_OUT"}

OpsState ==
    [pc : {"idle", "create", "prepare", "sleep", "record", "spawn", "launched",
           "handshake", "publish", "running", "fail"},
     seen : Attempt]
WorkerState ==
    [pc : {"none", "await", "fence", "load", "own", "start", "running", "reduce",
           "terminal", "release", "task", "announce", "ready", "readPause",
           "settle", "enqueue", "conclude", "failRecord", "failAttempt",
           "failPause", "done", "dead"},
     attempt : Attempt, record : Record \cup {None},
     outcome : Outcome \cup {None}, pause : Pauses]
CliState == [pc : {"idle", "judge", "rewrite", "unknown", "pause", "bump"},
             state : State, attempt : Attempt]

\* Nothing that a file holds is confused with its absence.
ASSUME NoneAssumption == None \notin Record \cup Result \cup Outcome \cup {"LAUNCHED"}

\* Every variable has its type.
TypeOK ==
    /\ gen \in 1..MaxGen
    /\ state \in State
    /\ attempt \in Attempt
    /\ claim \in Outcome \cup {"ACTIVE"}
    /\ task \in {"QUEUED", "AWAITING_SUPERVISOR"}
    /\ record \in Record \cup {None}
    /\ handoff \in Outcome \cup {None}
    /\ event \in BOOLEAN /\ intervention \in BOOLEAN
    /\ wake \in BOOLEAN /\ host \in BOOLEAN
    /\ result \in Result \cup {"LAUNCHED", None}
    /\ ops \in OpsState /\ worker \in WorkerState /\ cli \in CliState
    /\ spent \in [command : 0..MaxCommands, crash : 0..MaxCrashes,
                  fault : 0..MaxFaults]

\* What a run publishes, it publishes in the order of ARCHITECTURE: handoff,
\* release of the claim, task, terminal event, wake.  Whoever sees one of them
\* finds the earlier ones, whoever died or failed or recovered in between, and
\* the claim ends with the outcome of the handoff.
PublishedInOrder ==
    /\ wake => event
    /\ event => task = "AWAITING_SUPERVISOR"
    /\ task = "AWAITING_SUPERVISOR" => claim # "ACTIVE"
    /\ claim # "ACTIVE" => claim = handoff

\* opsled reports a run as terminal only when all of it is published.
TerminalIsPublished ==
    result = "TERMINAL" => wake /\ claim # "ACTIVE"

\* Only a recovery ever takes the result away from an attempt that has one: no
\* heartbeat, failure or launch does.
ResultIsKept ==
    [][attempt.result /\ ~attempt'.result => cli.pc = "unknown"]_vars

\* A request does not stay in LAUNCHING, wherever opsled died.  The exception: a
\* worker that gave up has overwritten the pid with the record it had read
\* before, and opsled rejects that record from then on.
LaunchIsResolved ==
    result = "LAUNCHING" ~> result # "LAUNCHING" \/ (host /\ ~HasPid)

\* An attempt is launched at most once, wherever in a launch opsled died and however
\* often it was restarted: neither a worker record is made nor a worker started when
\* there has been a worker before.
LaunchedOnce ==
    [][ops.pc \in {"record", "spawn"} /\ ops'.pc \in {"spawn", "launched"}
          => worker.pc = "none"]_vars

\* A request result has a status that opsled accepts when it reads it again
\* (the check of validateRunnerRequestResult).
RequestStatusIsValid == result \in Result \cup {None}
===============================================================================
