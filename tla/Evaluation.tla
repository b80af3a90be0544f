------------------------------- MODULE Evaluation -------------------------------
(***************************************************************************)
(* The evaluation of an attempt by the supervisor: evaluateTask and        *)
(* reconcileEvaluation of src/cli.js.                                      *)
(*                                                                         *)
(* An evaluation first creates an immutable file that holds the decision,  *)
(* and then projects the decision onto the decision log, the attempt, the  *)
(* task, the requirements, the event log and state.json.  Whoever          *)
(* evaluates again, with whatever verdict, projects the first decision, so *)
(* the next evaluation finishes an interrupted one.                        *)
(*                                                                         *)
(* The projections compare and swap whole files.  Other writers of these   *)
(* files do not: the worker that ends the attempt or fails, and the        *)
(* commands pause, resume and events consume, read a file and write it     *)
(* later.  Worker and commands may also stop anywhere, as by a death.      *)
(*                                                                         *)
(* The lock around the projections excludes and goes with its owner        *)
(* (HostLock).  Left out: further attempts of the task, how a wake is      *)
(* delivered (WakeDelivery), the worker's record, claim and events         *)
(* (AttemptLifecycle), and the wording of decisions and events.            *)
(***************************************************************************)
EXTENDS Naturals, Sequences

CONSTANTS
    None,
    Proc,         \* processes that evaluate
    Accepting,    \* those of them that accept; the others reject
    Requirements, \* what the requirement may be before: bounds the runs
    FailsAt,      \* where the worker may fail: bounds the runs
    MaxCommands,  \* bound on commands other than evaluations
    MaxDeaths     \* bound on deaths of evaluating processes

ASSUME EvaluationAssumption ==
    /\ MaxCommands \in Nat /\ MaxDeaths \in Nat
    /\ Accepting \subseteq Proc /\ None \notin Proc
    /\ Requirements \subseteq {"UNSTARTED", "VERIFIED"}

\* A decision is named after the process that made it.
Accepts(d) == d \in Accepting
Ended(d) == IF Accepts(d) THEN "ACCEPTED" ELSE "REJECTED"

VARIABLES
    evaluation,   \* supervisor-evaluations/<attempt>.json
    decisionLog,  \* decisions.jsonl
    eventLog,     \* events.jsonl: the events of evaluations
    eventFile,    \* events/<event>.json: the same
    file,         \* the files that evaluations compare and swap
    requirement,  \* the requirement that the task implements
    locked,       \* is the projection lock held?
    casLock,      \* the files with a compare-and-swap lock
    proc,         \* evaluations in progress
    worker,       \* the worker: where it is, and what it knows
    wake,         \* the wake of the attempt, which has to be consumed
    op,           \* the command in progress, and what it has read
    spent         \* how much of each bound is used up

logs == <<decisionLog, eventLog, eventFile>>
vars == <<evaluation, logs, file, requirement, locked, casLock, proc, worker,
          wake, op, spent>>

\* attempts/<attempt>.json, tasks/<task>.json, and state.json: is the attempt
\* the active one, is the supervisor PAUSED, and its pause.
FileName == {"attempt", "task", "state"}
AttemptIn(label) == [state |-> label, satisfied |-> FALSE, evaluation |-> None]
TaskIn(label) == [state |-> label]
NoPause == [active |-> FALSE, after |-> FALSE, applied |-> None]

Idle == [pc |-> "idle", d |-> None, file |-> None, new |-> None]
WorkerAt(label) ==
    [pc |-> label, attempt |-> None, pause |-> None, state |-> None]
OpIdle == [pc |-> "idle", after |-> FALSE, paused |-> FALSE, state |-> None]

\* The attempt is running.
Init ==
    /\ evaluation = None
    /\ decisionLog = <<>> /\ eventLog = <<>> /\ eventFile = {}
    /\ file = [attempt |-> AttemptIn("running"), task |-> TaskIn("QUEUED"),
               state |-> [active |-> TRUE, paused |-> FALSE, pause |-> NoPause]]
    /\ requirement \in Requirements
    /\ locked = FALSE /\ casLock = {}
    /\ proc = [p \in Proc |-> Idle]
    /\ worker = WorkerAt("running")
    /\ wake = "none"
    /\ op = OpIdle
    /\ spent = [command |-> 0, death |-> 0]

(***************************************************************************)
(* task evaluate                                                           *)
(***************************************************************************)
Goes(p, label) == proc' = [proc EXCEPT ![p].pc = label]

GoesWith(p, label, d) ==
    proc' = [proc EXCEPT ![p] = [pc |-> label, d |-> d, file |-> None,
                                 new |-> None]]

\* A thrown error, or the end; the projection lock is released.
Returns(p) ==
    /\ proc' = [proc EXCEPT ![p] = Idle]
    /\ locked' = (locked /\ proc[p].pc \in {"commit", "lock"})

\* Fault: what is decided is not decided again, nor projected.
DecideOnce(p) ==
    /\ proc[p].pc = "idle"
    /\ wake # "delivered"
    /\ evaluation = None
    /\ Accepts(p) => file.attempt.satisfied
    /\ GoesWith(p, "commit", p)
    /\ UNCHANGED <<evaluation, logs, file, requirement, locked, casLock, worker,
                   wake, op, spent>>

\* A wake that was delivered must be consumed before.  An earlier decision is
\* taken over; only an attempt that its acceptance gate let through is accepted.
Decide(p) ==
    /\ proc[p].pc = "idle"
    /\ wake # "delivered"
    /\ evaluation = None =>
          /\ file.attempt.evaluation = None
          /\ Accepts(p) => file.attempt.satisfied
    /\ GoesWith(p, "commit", IF evaluation = None THEN p ELSE evaluation)
    /\ UNCHANGED <<evaluation, logs, file, requirement, locked, casLock, worker,
                   wake, op, spent>>

\* Fault: the file is written, whether it exists or not.
CommitAnyway(p) ==
    /\ proc[p].pc = "commit"
    /\ evaluation' = proc[p].d
    /\ Goes(p, "lock")
    /\ UNCHANGED <<logs, file, requirement, locked, casLock, worker, wake, op,
                   spent>>

\* atomicCreateJson: the first decision stays.
Commit(p) ==
    /\ proc[p].pc = "commit"
    /\ LET first == IF evaluation = None THEN proc[p].d ELSE evaluation
       IN /\ evaluation' = first
          /\ GoesWith(p, "lock", first)
    /\ UNCHANGED <<logs, file, requirement, locked, casLock, worker, wake, op,
                   spent>>

\* A call that does not get the lock in time ends, and may be repeated.
Lock(p) ==
    /\ proc[p].pc = "lock"
    /\ IF locked \/ evaluation # proc[p].d
       THEN Returns(p)
       ELSE locked' = TRUE /\ Goes(p, "log")
    /\ UNCHANGED <<evaluation, logs, file, requirement, casLock, worker, wake,
                   op,
                   spent>>

Occurs(entry, log) == \E i \in DOMAIN log : log[i] = entry

\* reconcileDecisionLog
LogDecision(p) ==
    /\ proc[p].pc = "log"
    /\ decisionLog' = IF Occurs(proc[p].d, decisionLog) THEN decisionLog
                      ELSE Append(decisionLog, proc[p].d)
    /\ Goes(p, "attempt")
    /\ UNCHANGED <<evaluation, eventLog, eventFile, file, requirement, locked,
                   casLock, worker, wake, op, spent>>

After == [attempt |-> "task", task |-> "requirement", state |-> "pause"]

\* reconcileJsonProjection, up to the comparison in atomicCompareAndSwapJson.
\* Without a change there is nothing to swap; a lock that stays is an error.
Project(p, name, new) ==
    /\ IF new = file[name]
       THEN Goes(p, After[name]) /\ UNCHANGED <<locked, casLock>>
       ELSE IF name \in casLock THEN Returns(p) /\ UNCHANGED casLock
       ELSE /\ casLock' = casLock \cup {name}
            /\ proc' = [proc EXCEPT ![p] = [pc |-> "swap", d |-> proc[p].d,
                                            file |-> name, new |-> new]]
            /\ UNCHANGED locked
    /\ UNCHANGED <<evaluation, logs, file, requirement, worker, wake, op,
                   spent>>

Conflict(p) ==
    /\ Returns(p)
    /\ UNCHANGED <<evaluation, logs, file, requirement, casLock, worker, wake,
                   op,
                   spent>>

\* Fault: the verdict of the caller instead of the decision.
ProjectOwnVerdict(p) ==
    /\ proc[p].pc = "attempt"
    /\ Project(p, "attempt", [file.attempt EXCEPT !.evaluation = p])

ProjectAttempt(p) ==
    /\ proc[p].pc = "attempt"
    /\ IF file.attempt.evaluation \notin {None, proc[p].d} THEN Conflict(p)
       ELSE Project(p, "attempt", [file.attempt EXCEPT !.evaluation = proc[p].d])

ProjectTask(p) ==
    /\ proc[p].pc = "task"
    /\ LET ended == Ended(proc[p].d)
       IN IF file.task.state \notin {ended, "AWAITING_SUPERVISOR"}
          THEN Conflict(p)
          ELSE Project(p, "task", TaskIn(ended))

\* Fault: a rejection implements the requirement, too.
ProjectAnyRequirement(p) ==
    /\ proc[p].pc = "requirement"
    /\ requirement' = IF requirement = "VERIFIED" THEN "VERIFIED"
                      ELSE "IMPLEMENTED"
    /\ Goes(p, "event")
    /\ UNCHANGED <<evaluation, logs, file, locked, casLock, worker, wake, op,
                   spent>>

\* reconcileAcceptedRequirements; no other writer disturbs it, so its
\* compare-and-swap is one step, in which nobody dies.
ProjectRequirement(p) ==
    /\ proc[p].pc = "requirement"
    /\ requirement' = IF ~Accepts(proc[p].d) THEN requirement
                      ELSE IF requirement = "VERIFIED" THEN "VERIFIED"
                      ELSE "IMPLEMENTED"
    /\ Goes(p, "event")
    /\ UNCHANGED <<evaluation, logs, file, locked, casLock, worker, wake, op,
                   spent>>

Event(p, type) == [type |-> type, decision |-> proc[p].d]

\* reconcileEvaluationEvent: the log first, then the file.
LogEvent(p, from, type, next) ==
    /\ proc[p].pc = from
    /\ eventLog' = IF Occurs(Event(p, type), eventLog) THEN eventLog
                   ELSE Append(eventLog, Event(p, type))
    /\ Goes(p, next)
    /\ UNCHANGED <<evaluation, decisionLog, eventFile, file, requirement,
                   locked,
                   casLock, worker, wake, op, spent>>

FileEvent(p, from, type, next) ==
    /\ proc[p].pc = from
    /\ eventFile' = eventFile \cup {Event(p, type)}
    /\ Goes(p, next)
    /\ UNCHANGED <<evaluation, decisionLog, eventLog, file, requirement, locked,
                   casLock, worker, wake, op, spent>>

\* state.json without the attempt, and with a pause that waited for it.
Released(p) ==
    LET pause == file.state.pause
        apply == pause.active /\ (pause.after \/ pause.applied = proc[p].d)
    IN [active |-> FALSE,
        paused |-> apply \/ file.state.paused,
        pause |-> IF apply
                  THEN [active |-> TRUE, after |-> FALSE, applied |-> proc[p].d]
                  ELSE pause]

ProjectState(p) ==
    /\ proc[p].pc = "state"
    /\ Project(p, "state",
               IF file.state.active THEN Released(p) ELSE file.state)

\* The swap of the file, whatever it holds by now.
Swap(p) == file' = [file EXCEPT ![proc[p].file] = proc[p].new]

CasSwap(p) ==
    /\ proc[p].pc = "swap"
    /\ Swap(p)
    /\ casLock' = casLock \ {proc[p].file}
    /\ GoesWith(p, After[proc[p].file], proc[p].d)
    /\ UNCHANGED <<evaluation, logs, requirement, locked, worker, wake, op,
                   spent>>

\* Is there a pause that this decision has applied?  If not, that is all.
ReadPause(p) ==
    /\ proc[p].pc = "pause"
    /\ IF file.state.pause.applied = proc[p].d
       THEN Goes(p, "pauseEvent") /\ UNCHANGED locked
       ELSE Returns(p)
    /\ UNCHANGED <<evaluation, logs, file, requirement, casLock, worker, wake,
                   op,
                   spent>>

Return(p) ==
    /\ proc[p].pc = "return"
    /\ Returns(p)
    /\ UNCHANGED <<evaluation, logs, file, requirement, casLock, worker, wake,
                   op,
                   spent>>

\* A death inside a compare-and-swap leaves its lock, before or after the swap.
Die(p) ==
    /\ proc[p].pc # "idle"
    /\ spent.death < MaxDeaths
    /\ spent' = [spent EXCEPT !.death = spent.death + 1]
    /\ IF proc[p].pc = "swap" THEN Swap(p) \/ UNCHANGED file ELSE UNCHANGED file
    /\ Returns(p)
    /\ UNCHANGED <<evaluation, logs, requirement, casLock, worker, wake, op>>

(***************************************************************************)
(* The end of the attempt: runAttempt of src/runner.js                     *)
(***************************************************************************)
aside == <<evaluation, logs, requirement, locked, casLock, proc>>

WorkerGoes(from, new) ==
    /\ worker.pc = from
    /\ worker' = new
    /\ UNCHANGED <<aside, op, spent>>

Finish ==
    \E satisfied \in BOOLEAN :
        LET memory == [state |-> "terminal", satisfied |-> satisfied,
                       evaluation |-> None]
        IN /\ WorkerGoes("running", [WorkerAt("await") EXCEPT !.attempt = memory])
           /\ file' = [file EXCEPT !.attempt = memory]
           /\ UNCHANGED wake

AwaitSupervisor ==
    /\ WorkerGoes("await", [worker EXCEPT !.pc = "ready"])
    /\ file' = [file EXCEPT !.task = TaskIn("AWAITING_SUPERVISOR")]
    /\ UNCHANGED wake

\* The attempt that the worker has in memory is written.
WriteAttempt(from, next) ==
    /\ WorkerGoes(from, WorkerAt(next))
    /\ file' = [file EXCEPT !.attempt = worker.attempt]
    /\ UNCHANGED wake

SeePause ==
    /\ WorkerGoes("readPause",
                  [WorkerAt("update") EXCEPT !.pause = file.state.pause])
    /\ UNCHANGED <<file, wake>>

\* updateState reads the state again, and changes these two fields.
Settled(from, next, paused, pause) ==
    /\ WorkerGoes(from, [WorkerAt(next) EXCEPT !.state =
                 [file.state EXCEPT !.paused = paused, !.pause = pause]])
    /\ UNCHANGED <<file, wake>>

\* Fault: the worker applies the pause that waits for its attempt.
UpdatePaused ==
    Settled("update", "settle", worker.pause.active,
            IF worker.pause.active
            THEN [active |-> TRUE, after |-> FALSE, applied |-> evaluation]
            ELSE worker.pause)

\* The supervisor sleeps on, or stays paused.
Update ==
    Settled("update", "settle", worker.pause.active /\ ~worker.pause.after,
            worker.pause)

Settle(from, next) ==
    /\ WorkerGoes(from, WorkerAt(next))
    /\ file' = [file EXCEPT !.state = worker.state]
    /\ UNCHANGED wake

\* enqueueTerminalWake
Enqueue ==
    /\ WorkerGoes("wake", WorkerAt("ended"))
    /\ wake' = "requested"
    /\ UNCHANGED file

\* An error anywhere: persistDetachedWorkerFailure reads the attempt, whose
\* child has an unknown outcome if it has not ended, and writes it later.
Failing == {"failAttempt", "failState", "failSettle", "failed"}

Fail ==
    /\ worker.pc \in FailsAt \ Failing
    /\ WorkerGoes(worker.pc, [WorkerAt("failAttempt") EXCEPT !.attempt =
                 [file.attempt EXCEPT !.state =
                      IF @ = "terminal" THEN @ ELSE "unknown"]])
    /\ UNCHANGED <<file, wake>>

\* The supervisor is paused.  The task stays as it is.
FailPaused ==
    Settled("failState", "failSettle", TRUE,
            [active |-> TRUE, after |-> FALSE, applied |-> None])

\* The wake reaches the supervisor; its receipt says so.
Deliver ==
    /\ wake = "requested"
    /\ wake' = "delivered"
    /\ UNCHANGED <<aside, file, worker, op, spent>>

(***************************************************************************)
(* Commands: each reads state.json and writes it in a later step           *)
(***************************************************************************)
Command(next) ==
    /\ op.pc = "idle"
    /\ spent.command < MaxCommands
    /\ spent' = [spent EXCEPT !.command = spent.command + 1]
    /\ op' = next
    /\ UNCHANGED <<aside, file, worker, wake>>

ToWrite(state) ==
    [pc |-> "write", after |-> FALSE, paused |-> FALSE, state |-> state]

\* A pause after the current attempt waits only for a running one.
ReadForPause ==
    \E afterCurrent \in BOOLEAN :
        LET after == /\ afterCurrent /\ file.state.active
                     /\ file.attempt.state = "running"
        IN Command([pc |-> "pause", after |-> after,
                    paused |-> file.state.paused \/ ~after, state |-> None])

\* updateState reads the state again.
MergePause ==
    /\ op.pc = "pause"
    /\ op' = ToWrite([file.state EXCEPT !.paused = op.paused, !.pause =
                 [active |-> TRUE, after |-> op.after, applied |-> None]])
    /\ UNCHANGED <<aside, file, worker, wake, spent>>

ReadForResume ==
    Command(ToWrite([file.state EXCEPT !.paused = FALSE, !.pause = NoPause]))

\* consumeEvent, of any event.
ReadForConsume == Command([ToWrite(file.state) EXCEPT !.pc = "consume"])

\* The event may be the completion of the attempt, whose wake is then consumed.
Consume ==
    /\ op.pc = "consume"
    /\ wake' \in {wake} \cup (IF wake = "delivered" THEN {"consumed"} ELSE {})
    /\ op' = [op EXCEPT !.pc = "write"]
    /\ UNCHANGED <<aside, file, worker, spent>>

WriteState ==
    /\ op.pc = "write"
    /\ file' = [file EXCEPT !.state = op.state]
    /\ op' = OpIdle
    /\ UNCHANGED <<aside, worker, wake, spent>>

-------------------------------------------------------------------------------

EvaluateStep(p) ==
    \/ Decide(p) \/ Commit(p) \/ Lock(p) \/ LogDecision(p)
    \/ ProjectAttempt(p) \/ ProjectTask(p) \/ ProjectRequirement(p)
    \/ LogEvent(p, "event", "SUPERVISOR_DECISION", "eventFile")
    \/ FileEvent(p, "eventFile", "SUPERVISOR_DECISION", "state")
    \/ ProjectState(p) \/ CasSwap(p) \/ ReadPause(p)
    \/ LogEvent(p, "pauseEvent", "PAUSE_AFTER_CURRENT_APPLIED", "pauseFile")
    \/ FileEvent(p, "pauseFile", "PAUSE_AFTER_CURRENT_APPLIED", "return")
    \/ Return(p)

WorkerStep ==
    \/ Finish \/ AwaitSupervisor \/ WriteAttempt("ready", "readPause")
    \/ SeePause \/ Update \/ Settle("settle", "wake") \/ Enqueue

FailureStep ==
    \/ Fail \/ WriteAttempt("failAttempt", "failState")
    \/ FailPaused \/ Settle("failSettle", "failed")

CommandStep ==
    \/ ReadForPause \/ MergePause \/ ReadForResume
    \/ ReadForConsume \/ Consume \/ WriteState

Next ==
    \/ \E p \in Proc : EvaluateStep(p) \/ Die(p)
    \/ WorkerStep \/ FailureStep \/ Deliver
    \/ CommandStep

Spec == Init /\ [][Next]_vars

\* The supervisor repeats its evaluation.  Nothing else is sure to go on: a
\* worker or a command that dies is one that takes no further step.
FairSpec == Spec /\ \A p \in Proc : WF_vars(EvaluateStep(p))

-------------------------------------------------------------------------------

Decision == Proc \cup {None}
PauseType == [active : BOOLEAN, after : BOOLEAN, applied : Decision]
StateType == [active : BOOLEAN, paused : BOOLEAN, pause : PauseType]
TaskType == [state : {"QUEUED", "AWAITING_SUPERVISOR", "ACCEPTED", "REJECTED"}]
AttemptType == [state : {"running", "terminal", "unknown"}, satisfied : BOOLEAN,
                evaluation : Decision]
EventType == [type : {"SUPERVISOR_DECISION", "PAUSE_AFTER_CURRENT_APPLIED"},
              decision : Proc]

ProcType == [pc : {"idle", "commit", "lock", "log", "attempt", "task",
                   "requirement", "event", "eventFile", "state", "swap",
                   "pause", "pauseEvent", "pauseFile", "return"},
             d : Decision, file : FileName \cup {None},
             new : AttemptType \cup TaskType \cup StateType \cup {None}]
WorkerType == [pc : {"running", "await", "ready", "readPause", "update", "settle",
                     "wake", "ended"} \cup Failing,
               attempt : AttemptType \cup {None},
               pause : PauseType \cup {None}, state : StateType \cup {None}]
OpType == [pc : {"idle", "pause", "consume", "write"}, after : BOOLEAN,
           paused : BOOLEAN,
           state : StateType \cup {None}]
Files == [attempt : AttemptType, task : TaskType, state : StateType]

\* Every variable has its type, and an evaluation that the attempt names is the
\* committed one.
TypeOK ==
    /\ evaluation \in Decision
    /\ decisionLog \in Seq(Proc)
    /\ eventLog \in Seq(EventType) /\ eventFile \subseteq EventType
    /\ file \in Files
    /\ file.attempt.evaluation \in {None, evaluation}
    /\ requirement \in {"UNSTARTED", "IMPLEMENTED", "VERIFIED"}
    /\ locked \in BOOLEAN /\ casLock \subseteq FileName
    /\ proc \in [Proc -> ProcType]
    /\ worker \in WorkerType
    /\ wake \in {"none", "requested", "delivered", "consumed"}
    /\ op \in OpType
    /\ spent \in [command : 0..MaxCommands, death : 0..MaxDeaths]

\* The attempt has one decision, in each log at most once, whoever evaluates,
\* retries or dies (docs/CONTROL_PLANE_SIMPLIFICATION.md: "one task attempt
\* yields at most one committed supervisor evaluation").
OneDecision ==
    /\ Len(decisionLog) <= 1
    /\ \A i, j \in DOMAIN eventLog : eventLog[i].type = eventLog[j].type => i = j

Logged(ending) == \E i \in DOMAIN decisionLog : Ended(decisionLog[i]) = ending

\* What an evaluation leads to is there only after the decision is: a task has
\* the verdict of a logged decision, a requirement that was not implemented
\* before was accepted, and an event file repeats an event of the log.
EffectsFollowDecision ==
    /\ file.task.state \in {"ACCEPTED", "REJECTED"} => Logged(file.task.state)
    /\ requirement = "IMPLEMENTED" => Logged("ACCEPTED")
    /\ \A e \in eventFile : Occurs(e, eventLog)

\* A pause that waits for the attempt is applied only after the evaluation
\* (ARCHITECTURE.md: "Pause-after-current is applied only after supervisor
\* evaluation and terminal task state").
PauseFollowsEvaluation ==
    file.state.pause.applied # None =>
        \E i \in DOMAIN eventLog :
            /\ eventLog[i].decision = file.state.pause.applied
            /\ eventLog[i].type = "SUPERVISOR_DECISION"

Projected ==
    /\ Occurs(evaluation, decisionLog)
    /\ file.attempt.evaluation = evaluation
    /\ file.task.state = Ended(evaluation)
    /\ Accepts(evaluation) => requirement # "UNSTARTED"
    /\ [type |-> "SUPERVISOR_DECISION", decision |-> evaluation] \in eventFile
    /\ ~file.state.active

\* A compare-and-swap lock that its owner died with.
Stuck == \E name \in casLock : \A p \in Proc : proc[p].file # name

\* Only a worker that got so far hands its task over to the supervisor.
NeverHandedOver == file.task.state = "QUEUED"

\* A decision reaches every file and stays there, if evaluations are repeated:
\* whatever interrupted them, and whatever the worker and the commands have
\* overwritten in between.  There are three exceptions.  A compare-and-swap lock
\* stays where an evaluator died; the worker runs for ever, failed or died before
\* it handed its task over, and the task's projection is refused for good
\* (reconcileEvaluation: "task evaluation projection conflicts with immutable
\* decision"); or the delivered wake is never consumed.
Converges ==
    evaluation # None ~>
        [](Projected \/ Stuck \/ NeverHandedOver \/ wake = "delivered")
===============================================================================
