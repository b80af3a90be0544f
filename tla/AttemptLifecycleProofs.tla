------------------------ MODULE AttemptLifecycleProofs ------------------------
(***************************************************************************)
(* Proofs about AttemptLifecycle for any bound on generations, commands,   *)
(* deaths and faults.                                                      *)
(*                                                                         *)
(* An attempt is launched once, and its worker publishes from what it has  *)
(* in memory; so what there is to see follows from the label that the      *)
(* worker is at or failed at (Progress).  That it is launched once rests   *)
(* on the result file and the pid in the worker record (Launching).        *)
(***************************************************************************)
EXTENDS AttemptLifecycle, TLAPS

\* The labels of opsled before it has written the pid, and of the worker after
\* it has seen it, in order.
BeforePid == {"create", "prepare", "sleep", "record", "spawn", "launched"}
BeforeFinish == {"fence", "load", "own", "start", "running", "reduce", "terminal"}
AfterFinish == {"release", "task", "announce", "ready", "readPause", "settle",
                "enqueue", "conclude"}
Failing == {"failRecord", "failAttempt", "failPause"}

\* Files are there when they are read, and a generation is left to recover to.
Present ==
    /\ ops.pc \in {"spawn", "launched"} => record # None
    /\ worker.pc # "none" => record # None
    /\ worker.pc \in BeforeFinish \cup AfterFinish \cup Failing =>
          worker.record # None
    /\ cli.pc # "idle" => gen < MaxGen

\* The request is launched once, and the worker runs only with its pid recorded.
Launching ==
    /\ ops.pc = "create" => result = None
    /\ result = None => ops.pc \in {"idle", "create"}
    /\ result = None \/ ops.pc \in BeforePid => ~HasPid
    /\ ops.pc \in BeforePid /\ worker.pc = "failRecord" => ~worker.record.pid
    /\ result = None \/ ops.pc \in BeforePid \ {"launched"} => worker.pc = "none"
    /\ worker.pc \in BeforeFinish \cup AfterFinish => HasPid /\ worker.record.pid
    /\ HasPid => record.status # "SPAWNING"

\* What the worker has published at each of its labels.
Progress ==
    /\ worker.pc \in {"none", "await", "release"} \cup BeforeFinish =>
          claim = "ACTIVE"
    /\ worker.pc \in {"reduce", "terminal"} \cup AfterFinish =>
          worker.outcome \in Outcome
    /\ worker.pc \in {"terminal"} \cup AfterFinish => handoff = worker.outcome
    /\ worker.pc \in AfterFinish \ {"release"} => claim = worker.outcome
    /\ worker.pc \in AfterFinish \ {"release", "task"} => task = "AWAITING_SUPERVISOR"
    /\ worker.pc \in AfterFinish \ {"release", "task", "announce"} => event
    /\ worker.pc = "conclude" => wake
    /\ Status = "TERMINAL" => wake

\* Before the worker finishes nobody has a result in hand, and after it the worker
\* has one.
ResultInHand ==
    /\ ~ops.seen.result
    /\ worker.pc \in {"none", "await"} \cup BeforeFinish \/ ops.pc \in BeforePid =>
          ~attempt.result /\ ~cli.attempt.result /\ ~worker.attempt.result
    /\ worker.pc \in AfterFinish => worker.attempt.result

AInv ==
    /\ TypeOK
    /\ Present
    /\ Launching
    /\ Progress
    /\ PublishedInOrder
    /\ TerminalIsPublished
    /\ ResultInHand

-------------------------------------------------------------------------------
(***************************************************************************)
(* Types                                                                   *)
(***************************************************************************)
\* What is done to an attempt in memory leaves it one.
LEMMA AttemptEdits ==
  ASSUME NEW a \in Attempt
  PROVE  /\ Woken(a) \in Attempt /\ Woken(a).result = a.result
         /\ \A s \in Outcome \cup {"RUNNING", "UNKNOWN"} :
               /\ [a EXCEPT !.state = s] \in Attempt
               /\ [a EXCEPT !.state = s].result = a.result
         /\ \A s \in Outcome :
               /\ [a EXCEPT !.state = s, !.result = TRUE] \in Attempt
               /\ [a EXCEPT !.state = s, !.result = TRUE].result
<1>1. Woken(a) \in Attempt
  BY DEF Attempt, Woken
<1>2. Woken(a).result = a.result
  BY DEF Attempt, Woken
<1>3. \A s \in Outcome \cup {"RUNNING", "UNKNOWN"} :
         /\ [a EXCEPT !.state = s] \in Attempt
         /\ [a EXCEPT !.state = s].result = a.result
  BY DEF Attempt
<1>4. \A s \in Outcome : [a EXCEPT !.state = s, !.result = TRUE] \in Attempt
  BY DEF Attempt
<1>5. \A s \in Outcome : [a EXCEPT !.state = s, !.result = TRUE].result
  BY DEF Attempt
<1>6. QED
  BY <1>1, <1>2, <1>3, <1>4, <1>5

WorkerLabel == {"none", "await", "done", "dead"} \cup BeforeFinish \cup AfterFinish
               \cup Failing

\* The worker moves, and remembers an attempt, a record, an outcome or a pause.
LEMMA WorkerEdits ==
  ASSUME worker \in WorkerState, NEW l \in WorkerLabel
  PROVE  /\ [worker EXCEPT !.pc = l] \in WorkerState
         /\ WorkerAt(l) \in WorkerState
         /\ \A a \in Attempt : [worker EXCEPT !.pc = l, !.attempt = a] \in WorkerState
         /\ \A r \in Record \cup {None} :
               [worker EXCEPT !.pc = l, !.record = r] \in WorkerState
         /\ \A o \in Outcome : [worker EXCEPT !.pc = l, !.outcome = o] \in WorkerState
         /\ \A p \in Pauses : [worker EXCEPT !.pc = l, !.pause = p] \in WorkerState
<1> USE DEF WorkerState, WorkerLabel, BeforeFinish, AfterFinish, Failing
<1>1. [worker EXCEPT !.pc = l] \in WorkerState
  OBVIOUS
<1>2. WorkerAt(l) \in WorkerState
  BY DEF WorkerAt, Queued, Attempt, Pauses
<1>3. \A a \in Attempt : [worker EXCEPT !.pc = l, !.attempt = a] \in WorkerState
  OBVIOUS
<1>4. \A r \in Record \cup {None} :
         [worker EXCEPT !.pc = l, !.record = r] \in WorkerState
  OBVIOUS
<1>5. \A o \in Outcome : [worker EXCEPT !.pc = l, !.outcome = o] \in WorkerState
  OBVIOUS
<1>6. \A p \in Pauses : [worker EXCEPT !.pc = l, !.pause = p] \in WorkerState
  OBVIOUS
<1>7. QED
  BY <1>1, <1>2, <1>3, <1>4, <1>5, <1>6

\* Whoever spends of a bound stays within it.
LEMMA SpendType ==
  ASSUME TypeOK, \/ Spend("command", MaxCommands) \/ Spend("crash", MaxCrashes)
                 \/ Spend("fault", MaxFaults)
  PROVE  spent' \in [command : 0..MaxCommands, crash : 0..MaxCrashes,
                     fault : 0..MaxFaults]
  BY AttemptAssumption DEF TypeOK, Spend

LEMMA OpsTypes ==
  ASSUME AInv, OpsStep \/ OpsDies
  PROVE  TypeOK'
<1> USE DEF AInv, TypeOK, OpsGo, published
<1>1. OpsIdle \in OpsState /\ Queued \in Attempt
  BY DEF OpsIdle, OpsState, Queued, Attempt
<1>2. CASE OpsAuthorise \/ OpsDies
  BY <1>1, <1>2, SpendType DEF OpsAuthorise, OpsDies, OpsState
<1>3. CASE OpsCreate \/ OpsSleep \/ OpsHandshake \/ OpsPublish
  <2>1. ops' \in OpsState
    BY <1>3 DEF OpsCreate, OpsSleep, OpsHandshake, OpsPublish, OpsState
  <2>2. CASE OpsCreate
    BY <2>1, <2>2 DEF OpsCreate, Result
  <2>3. CASE OpsSleep
    BY <2>1, <2>3 DEF OpsSleep, State
  <2>4. CASE OpsHandshake \/ OpsPublish
    BY <2>1, <2>4 DEF OpsHandshake, OpsPublish
  <2>5. QED
    BY <1>3, <2>2, <2>3, <2>4
<1>4. CASE OpsPrepare
  <2>1. CASE attempt' = [state |-> "LAUNCHING", wait |-> "WAITING", result |-> FALSE]
             /\ ops' = [pc |-> "sleep", seen |-> attempt']
    <3>1. attempt' \in Attempt
      BY <2>1 DEF Attempt
    <3>2. ops' \in OpsState
      BY <2>1, <3>1 DEF OpsState
    <3>3. QED
      BY <1>4, <3>1, <3>2 DEF OpsPrepare
  <2>2. CASE OpsGo("fail") /\ UNCHANGED attempt
    BY <1>4, <2>2 DEF OpsPrepare, OpsState
  <2>3. QED
    BY <1>4, <2>1, <2>2 DEF OpsPrepare
<1>5. CASE OpsRecord \/ OpsLaunched
  <2>1. CASE OpsRecord
    <3>1. record' \in Record
      BY <2>1 DEF OpsRecord, Record
    <3>2. QED
      BY <2>1, <3>1 DEF OpsRecord, OpsState
  <2>2. CASE OpsLaunched
    <3>1. record \in Record
      BY <2>2 DEF OpsLaunched, Present
    <3>2. record' \in Record
      BY <2>2, <3>1 DEF OpsLaunched, Record
    <3>3. QED
      BY <2>2, <3>2 DEF OpsLaunched, OpsState
  <2>3. QED
    BY <1>5, <2>1, <2>2
<1>6. CASE OpsSpawn
  BY <1>6, WorkerEdits DEF OpsSpawn, OpsState, WorkerLabel
<1>7. CASE OpsSpawnFails
  <2>1. record' \in Record
    BY <1>7 DEF OpsSpawnFails, Record, Present
  <2>2. attempt' \in Attempt
    BY <1>7, AttemptEdits DEF OpsSpawnFails, OpsState
  <2>3. QED
    BY <1>7, <2>1, <2>2, SpendType DEF OpsSpawnFails, OpsState, Paused, State, Pauses
<1>8. CASE OpsHandshakeFails
  BY <1>8, SpendType DEF OpsHandshakeFails, OpsState
<1>9. CASE OpsConclude \/ OpsAdopt \/ OpsAbandon
  BY <1>1, <1>9 DEF OpsConclude, OpsAdopt, OpsAbandon, Result
<1>10. CASE OpsSupervise
  <2>1. record \in Record /\ record.status # "SPAWNING"
    BY <1>10 DEF OpsSupervise, HasPid, Launching
  <2>2. result' \in Result \cup {"LAUNCHED"}
    BY <1>10, <2>1 DEF OpsSupervise, Result, Record
  <2>3. QED
    BY <1>10, <2>2, SpendType DEF OpsSupervise
<1>11. QED
  BY <1>2, <1>3, <1>4, <1>5, <1>6, <1>7, <1>8, <1>9, <1>10 DEF OpsStep

LEMMA WorkerTypes ==
  ASSUME AInv, WorkerStep \/ WorkerDies
  PROVE  TypeOK'
<1> USE DEF AInv, TypeOK, WorkerGo, Publish, published
<1>1. \A l \in WorkerLabel : [worker EXCEPT !.pc = l] \in WorkerState
  BY WorkerEdits
<1>2. /\ BeforeFinish \cup AfterFinish \cup Failing \subseteq WorkerLabel
      /\ "done" \in WorkerLabel /\ "dead" \in WorkerLabel
  BY DEF WorkerLabel
<1>3. CASE Await \/ AwaitFails
  <2>1. PICK l \in {"fence", "failRecord"} :
           worker' = [worker EXCEPT !.pc = l, !.record = record]
    BY <1>3 DEF Await, AwaitFails
  <2>2. l \in WorkerLabel
    BY <1>2 DEF BeforeFinish, Failing
  <2>3. worker' \in WorkerState
    BY <2>1, <2>2, WorkerEdits
  <2>4. QED
    BY <1>3, <2>3, SpendType DEF Await, AwaitFails
<1>4. CASE FenceGeneration
  BY <1>1, <1>2, <1>4 DEF FenceGeneration, BeforeFinish, Failing
<1>5. CASE Load
  BY <1>2, <1>5, WorkerEdits DEF Load, BeforeFinish, Failing
<1>6. CASE Own
  <2>1. OwnedRecord \in Record
    BY <1>6 DEF Own, OwnedRecord, Present, BeforeFinish, WorkerState, Record
  <2>2. QED
    BY <1>2, <1>6, <2>1, WorkerEdits DEF Own, BeforeFinish
<1>7. ASSUME NEW a \in Attempt, NEW l \in WorkerLabel, WriteAttempt(a, l),
             UNCHANGED published
      PROVE  TypeOK'
  BY <1>7, WorkerEdits DEF WriteAttempt
<1>8. worker.attempt \in Attempt /\ worker.outcome \in Outcome \cup {None}
  BY DEF WorkerState
<1>9. CASE Start \/ Heartbeat
  BY <1>2, <1>7, <1>8, <1>9, AttemptEdits DEF Start, Heartbeat, BeforeFinish
<1>10. CASE Finish
  <2>1. worker.outcome \in Outcome
    BY <1>10 DEF Finish, Progress
  <2>2. QED
    BY <1>2, <1>7, <1>8, <1>10, <2>1, AttemptEdits DEF Finish, AfterFinish
<1>11. CASE Ready
  BY <1>2, <1>7, <1>8, <1>11, AttemptEdits DEF Ready, AfterFinish
<1>12. CASE ChildEnds \/ ReadPause
  <2>1. CASE ChildEnds
    <3>1. "reduce" \in WorkerLabel
      BY <1>2 DEF BeforeFinish
    <3>2. PICK o \in Outcome : worker' = [worker EXCEPT !.pc = "reduce", !.outcome = o]
      BY <2>1 DEF ChildEnds
    <3>3. worker' \in WorkerState
      BY <3>1, <3>2, WorkerEdits
    <3>4. QED
      BY <2>1, <3>3 DEF ChildEnds
  <2>2. CASE ReadPause
    <3>1. "settle" \in WorkerLabel /\ state.pause \in Pauses
      BY <1>2 DEF AfterFinish, State
    <3>2. worker' = [worker EXCEPT !.pc = "settle", !.pause = state.pause]
      BY <2>2 DEF ReadPause
    <3>3. worker' \in WorkerState
      BY <3>1, <3>2, WorkerEdits
    <3>4. QED
      BY <2>2, <3>3 DEF ReadPause
  <2>3. QED
    BY <1>12, <2>1, <2>2
<1>13. CASE Reduce \/ ReleaseClaim \/ AwaitSupervisor \/ Announce \/ Enqueue
  <2>1. worker.pc \in {"reduce", "release"} => worker.outcome \in Outcome
    BY DEF Progress, AfterFinish
  <2>2. QED
    BY <1>1, <1>2, <1>13, <2>1 DEF Reduce, ReleaseClaim, AwaitSupervisor, Announce,
       Enqueue, BeforeFinish, AfterFinish
<1>14. CASE Settle
  <2>1. state' \in State
    BY <1>14 DEF Settle, State, WorkerState
  <2>2. QED
    BY <1>1, <1>2, <1>14, <2>1 DEF Settle, AfterFinish
<1>15. CASE Conclude \/ FailRecord
  <2>1. record' \in Record
    BY <1>15 DEF Conclude, FailRecord, Present, AfterFinish, Failing, WorkerState, Record
  <2>2. worker' \in WorkerState
    BY <1>1, <1>2, <1>15, WorkerEdits DEF Conclude, FailRecord, Failing
  <2>3. QED
    BY <1>15, <2>1, <2>2 DEF Conclude, FailRecord
<1>16. CASE Throws \/ WorkerDies
  <2>1. worker' \in WorkerState
    <3>1. CASE Throws
      BY <1>1, <1>2, <3>1 DEF Throws, Failing
    <3>2. CASE WorkerDies
      BY <1>2, <3>2, WorkerEdits DEF WorkerDies
    <3>3. QED
      BY <1>16, <3>1, <3>2
  <2>2. QED
    BY <1>16, <2>1, SpendType DEF Throws, WorkerDies
<1>17. CASE FailAttempt
  <2>1. attempt' \in Attempt
    BY <1>17, AttemptEdits DEF FailAttempt
  <2>2. QED
    BY <1>1, <1>2, <1>17, <2>1 DEF FailAttempt, Failing
<1>18. CASE FailPause
  BY <1>2, <1>18, WorkerEdits DEF FailPause, Paused, State, Pauses
<1>19. QED
  BY <1>3, <1>4, <1>5, <1>6, <1>9, <1>10, <1>11, <1>12, <1>13, <1>14, <1>15, <1>16,
     <1>17, <1>18 DEF WorkerStep

LEMMA CommandTypes ==
  ASSUME AInv, RecoverStep \/ Pause \/ Resume
  PROVE  TypeOK'
<1> USE DEF AInv, TypeOK, CliGo, published, State, Pauses
<1>1. CliIdle \in CliState
  BY DEF CliIdle, CliState, Queued, Attempt
<1>2. CASE RecoverReads \/ RecoverJudges \/ RecoverRewrites
  BY <1>2 DEF RecoverReads, RecoverJudges, RecoverRewrites, CliState
<1>3. CASE RecoverMarks
  <2>1. attempt' \in Attempt
    BY <1>3, AttemptEdits DEF RecoverMarks, CliState
  <2>2. QED
    BY <1>3, <2>1 DEF RecoverMarks, CliState
<1>4. CASE RecoverPauses
  BY <1>4 DEF RecoverPauses, CliState, Paused
<1>5. CASE RecoverAdvances
  <2>1. gen' \in 1..MaxGen
    BY <1>5, AttemptAssumption DEF RecoverAdvances, Present
  <2>2. record \in Record \cup {None} /\ worker \in WorkerState
    OBVIOUS
  <2>3. QED
    BY <1>1, <1>5, <2>1 DEF RecoverAdvances
<1>6. CASE Pause \/ Resume
  BY <1>6, SpendType DEF Pause, Resume, Command, Paused
<1>7. QED
  BY <1>2, <1>3, <1>4, <1>5, <1>6 DEF RecoverStep

-------------------------------------------------------------------------------
(***************************************************************************)
(* The invariant                                                           *)
(***************************************************************************)
\* Everyone who is not opsled leaves opsled and its file alone, and so on.
LEMMA Bystanders ==
  /\ WorkerStep \/ WorkerDies => UNCHANGED <<gen, result, host, ops, cli>>
  /\ RecoverStep \/ Pause \/ Resume =>
        UNCHANGED <<published, record, result, host, ops, worker>>
  /\ OpsStep \/ OpsDies => UNCHANGED <<gen, published, intervention, cli>>
<1> USE DEF Publish, WriteAttempt, Command, published
<1>1. WorkerStep \/ WorkerDies => UNCHANGED <<gen, result, host, ops, cli>>
  BY DEF WorkerStep, WorkerDies, Await, AwaitFails, FenceGeneration, Load, Own,
     Start, Heartbeat, ChildEnds, Reduce, Finish, ReleaseClaim, AwaitSupervisor,
     Announce, Ready, ReadPause, Settle, Enqueue, Conclude, Throws, FailRecord,
     FailAttempt, FailPause
<1>2. RecoverStep \/ Pause \/ Resume =>
         UNCHANGED <<published, record, result, host, ops, worker>>
  BY DEF RecoverStep, RecoverReads, RecoverJudges, RecoverRewrites, RecoverMarks,
     RecoverPauses, RecoverAdvances, Pause, Resume
<1>3. OpsStep \/ OpsDies => UNCHANGED <<gen, published, intervention, cli>>
  BY DEF OpsStep, OpsDies, OpsAuthorise, OpsCreate, OpsPrepare, OpsSleep,
     OpsRecord, OpsSpawn, OpsLaunched, OpsSpawnFails, OpsHandshake,
     OpsHandshakeFails, OpsPublish, OpsConclude, OpsAdopt, OpsAbandon, OpsSupervise
<1>4. QED
  BY <1>1, <1>2, <1>3

\* The steps of opsled that write neither the worker record nor the worker.
OpsElsewhere ==
    \/ OpsDies \/ OpsAuthorise \/ OpsCreate \/ OpsPrepare \/ OpsSleep
    \/ OpsHandshake \/ OpsHandshakeFails \/ OpsPublish \/ OpsConclude
    \/ OpsAdopt \/ OpsAbandon \/ OpsSupervise

LEMMA OpsElsewhereKeeps ==
  ASSUME TypeOK, OpsElsewhere
  PROVE  /\ UNCHANGED <<record, worker>>
         /\ ops'.pc \notin {"spawn", "launched"}
  BY DEF TypeOK, OpsState, OpsGo, OpsIdle, OpsElsewhere, OpsDies, OpsAuthorise,
     OpsCreate, OpsPrepare, OpsSleep, OpsHandshake, OpsHandshakeFails, OpsPublish,
     OpsConclude, OpsAdopt, OpsAbandon, OpsSupervise

\* The worker moves on without touching its record, and goes to a label at which
\* it may.
WorkerElsewhere ==
    \/ FenceGeneration \/ Load \/ Start \/ Heartbeat \/ ChildEnds \/ Reduce
    \/ Finish \/ ReleaseClaim \/ AwaitSupervisor \/ Announce \/ Ready
    \/ ReadPause \/ Settle \/ Enqueue \/ Throws \/ FailAttempt

LEMMA WorkerElsewhereKeeps ==
  ASSUME TypeOK, WorkerElsewhere
  PROVE  /\ record' = record /\ worker'.record = worker.record
         /\ worker.pc \in BeforeFinish \cup AfterFinish \cup Failing
         /\ worker'.pc \in BeforeFinish \cup AfterFinish =>
               worker.pc \in BeforeFinish \cup AfterFinish
         /\ worker'.pc = "failRecord" => worker.pc \in BeforeFinish \cup AfterFinish
         /\ worker'.pc # "none"
<1> USE DEF TypeOK, WorkerState, WorkerGo, Publish, WriteAttempt, BeforeFinish,
        AfterFinish, Failing
<1>1. CASE FenceGeneration \/ Load \/ Start \/ Heartbeat
  BY <1>1 DEF FenceGeneration, Load, Start, Heartbeat
<1>2. CASE ChildEnds \/ Reduce \/ Finish \/ ReleaseClaim
  BY <1>2 DEF ChildEnds, Reduce, Finish, ReleaseClaim
<1>3. CASE AwaitSupervisor \/ Announce \/ Ready \/ ReadPause
  BY <1>3 DEF AwaitSupervisor, Announce, Ready, ReadPause
<1>4. CASE Settle \/ Enqueue
  BY <1>4 DEF Settle, Enqueue
<1>5. CASE Throws \/ FailAttempt
  BY <1>5 DEF Throws, FailAttempt
<1>6. QED
  BY <1>1, <1>2, <1>3, <1>4, <1>5 DEF WorkerElsewhere

LEMMA PresentStep ==
  ASSUME AInv, Next
  PROVE  Present'
<1> USE DEF AInv, TypeOK, Present, BeforeFinish, AfterFinish, Failing
<1>1. ASSUME NEW r \in Record PROVE r # None
  BY NoneAssumption
<1>2. CASE OpsElsewhere
  BY <1>2, OpsElsewhereKeeps, Bystanders DEF OpsElsewhere, OpsStep
<1>3. CASE OpsRecord \/ OpsLaunched \/ OpsSpawnFails
  <2>1. record' \in Record /\ UNCHANGED <<gen, worker, cli>>
    <3>1. CASE OpsRecord
      BY <3>1 DEF OpsRecord, Record
    <3>2. CASE OpsLaunched
      BY <3>2 DEF OpsLaunched, Record
    <3>3. CASE OpsSpawnFails
      BY <3>3 DEF OpsSpawnFails, Record
    <3>4. QED
      BY <1>3, <3>1, <3>2, <3>3
  <2>2. record' # None
    BY <1>1, <2>1
  <2>3. QED
    BY <2>1, <2>2
<1>4. CASE OpsSpawn
  BY <1>4 DEF OpsSpawn, OpsGo, OpsState, WorkerState
<1>5. CASE WorkerElsewhere
  BY <1>5, WorkerElsewhereKeeps, Bystanders DEF WorkerElsewhere, WorkerStep
<1>6. CASE Await \/ AwaitFails
  BY <1>6 DEF Await, AwaitFails, WorkerState
<1>7. CASE Own \/ Conclude \/ FailRecord
  <2>1. worker.record \in Record
    BY <1>7 DEF Own, Conclude, FailRecord, WorkerState
  <2>2. record' \in Record /\ UNCHANGED <<gen, ops, cli>>
    BY <1>7, <2>1 DEF Own, OwnedRecord, Conclude, FailRecord, Record
  <2>3. worker'.record = record' \/ worker'.record = worker.record \/ worker'.pc = "done"
    <3>1. CASE Own
      BY <3>1 DEF Own, WorkerState
    <3>2. CASE Conclude
      BY <3>2 DEF Conclude, WorkerAt
    <3>3. CASE FailRecord
      BY <3>3 DEF FailRecord, WorkerGo, WorkerState
    <3>4. QED
      BY <1>7, <3>1, <3>2, <3>3
  <2>4. QED
    BY <1>1, <2>1, <2>2, <2>3
<1>8. CASE FailPause \/ WorkerDies
  BY <1>8 DEF FailPause, WorkerDies, WorkerAt, WorkerLive
<1>9. CASE RecoverStep \/ Pause \/ Resume
  BY <1>9, Bystanders DEF RecoverStep, RecoverReads, RecoverJudges, RecoverRewrites,
     RecoverMarks, RecoverPauses, RecoverAdvances, Pause, Resume, Command, CliGo,
     CliIdle, CliState
<1>10. QED
  BY <1>2, <1>3, <1>4, <1>5, <1>6, <1>7, <1>8, <1>9
     DEF Next, OpsStep, WorkerStep, OpsElsewhere, WorkerElsewhere

\* A request that has been launched keeps its result file, and with it opsled
\* from launching it again.
LEMMA LaunchingStep ==
  ASSUME AInv, Next
  PROVE  Launching'
<1> USE NoneAssumption DEF AInv, TypeOK, Launching, BeforePid, HasPid
<1>1. CASE OpsStep \/ OpsDies
  <2>1. CASE OpsDies \/ OpsHandshake \/ OpsHandshakeFails \/ OpsPublish \/ OpsAdopt
    BY <2>1 DEF OpsDies, OpsHandshake, OpsHandshakeFails, OpsPublish, OpsAdopt,
       OpsIdle, OpsGo, OpsState
  <2>2. CASE OpsAuthorise
    BY <2>2 DEF OpsAuthorise, Present, OpsState, Record
  <2>3. CASE OpsCreate \/ OpsConclude \/ OpsAbandon
    BY <2>3 DEF OpsCreate, OpsConclude, OpsAbandon, OpsGo, OpsIdle, OpsState, Result
  <2>4. CASE OpsPrepare \/ OpsSleep
    BY <2>4 DEF OpsPrepare, OpsSleep, OpsGo, OpsState
  <2>5. CASE OpsSupervise
    <3>1. result' \in Result \cup {"LAUNCHED"}
      BY <1>1, OpsTypes, <2>5 DEF OpsSupervise, Result, Record
    <3>2. QED
      BY <2>5, <3>1 DEF OpsSupervise
  <2>6. CASE OpsRecord \/ OpsLaunched \/ OpsSpawn
    BY <2>6 DEF OpsRecord, OpsLaunched, OpsSpawn, OpsGo, OpsState, WorkerState,
       BeforeFinish, AfterFinish
  <2>7. CASE OpsSpawnFails
    BY <2>7 DEF OpsSpawnFails, Present, OpsGo, OpsState, Record, WorkerLive,
       BeforeFinish, AfterFinish
  <2>8. QED
    BY <1>1, <2>1, <2>2, <2>3, <2>4, <2>5, <2>6, <2>7 DEF OpsStep
<1>2. CASE WorkerElsewhere
  <2>1. UNCHANGED <<result, ops>>
    BY <1>2, Bystanders DEF WorkerElsewhere, WorkerStep
  <2>2. worker.pc # "none"
    BY <1>2, WorkerElsewhereKeeps DEF BeforeFinish, AfterFinish, Failing
  <2>3. record' = record /\ (HasPid' <=> HasPid)
    BY <1>2, WorkerElsewhereKeeps
  <2>4. worker'.pc \in BeforeFinish \cup AfterFinish \cup {"failRecord"} =>
           worker.pc \in BeforeFinish \cup AfterFinish /\ HasPid
           /\ worker'.record.pid
    BY <1>2, WorkerElsewhereKeeps
  <2>5. QED
    BY <2>1, <2>2, <2>3, <2>4, <1>2, WorkerElsewhereKeeps
<1>3. CASE Await \/ AwaitFails
  <2>1. /\ worker.pc = "await" /\ worker'.pc \in {"fence", "failRecord"}
        /\ worker'.record = record /\ UNCHANGED <<record, result, ops>>
        /\ HasPid <=> worker'.pc = "fence"
    BY <1>3 DEF Await, AwaitFails, WorkerState
  <2>2. QED
    BY <2>1 DEF Present, BeforeFinish, AfterFinish
<1>4. CASE Own \/ Conclude \/ FailRecord
  <2>1. worker.record \in Record
    BY <1>4 DEF Own, Conclude, FailRecord, WorkerState, Present, BeforeFinish,
       AfterFinish, Failing
  <2>2. /\ record' \in Record /\ record'.pid = worker.record.pid
        /\ record'.status \in {"OWNED", "TERMINAL", "FAILED"}
        /\ UNCHANGED <<result, ops>>
    BY <1>4, <2>1 DEF Own, OwnedRecord, Conclude, FailRecord, Record
  <2>3. CASE Own
    BY <2>2, <2>3 DEF Own, OwnedRecord, WorkerState, BeforeFinish, AfterFinish
  <2>4. CASE Conclude
    BY <2>2, <2>4 DEF Conclude, WorkerAt, BeforeFinish, AfterFinish
  <2>5. CASE FailRecord
    BY <2>2, <2>5 DEF FailRecord, WorkerGo, WorkerState, BeforeFinish, AfterFinish
  <2>6. QED
    BY <1>4, <2>3, <2>4, <2>5
<1>5. CASE FailPause \/ WorkerDies
  BY <1>5 DEF FailPause, WorkerDies, WorkerAt, WorkerLive, BeforeFinish, AfterFinish
<1>6. CASE RecoverStep \/ Pause \/ Resume
  BY <1>6, Bystanders
<1>7. QED
  BY <1>1, <1>2, <1>3, <1>4, <1>5, <1>6 DEF Next, WorkerStep, WorkerElsewhere

\* What the worker has shown stays shown, and each of its labels adds one thing
\* to it.
LEMMA ProgressStep ==
  ASSUME AInv, Next
  PROVE  Progress' /\ PublishedInOrder'
<1> USE NoneAssumption DEF AInv, TypeOK, Present, Progress, PublishedInOrder, Status,
        WorkerState, BeforeFinish, AfterFinish, Failing, Outcome, published
<1>1. CASE OpsElsewhere
  <2>1. UNCHANGED <<record, worker, published>>
    BY <1>1, OpsElsewhereKeeps, Bystanders DEF OpsElsewhere, OpsStep
  <2>2. QED
    BY <2>1
<1>2. CASE OpsRecord \/ OpsLaunched \/ OpsSpawnFails
  <2>1. UNCHANGED <<worker, published>> /\ record'.status # "TERMINAL"
    <3>1. CASE OpsRecord
      BY <3>1 DEF OpsRecord
    <3>2. CASE OpsLaunched
      BY <3>2 DEF OpsLaunched
    <3>3. CASE OpsSpawnFails
      BY <3>3 DEF OpsSpawnFails, Record
    <3>4. QED
      BY <1>2, <3>1, <3>2, <3>3
  <2>2. Status' # "TERMINAL"
    BY <2>1 DEF Result
  <2>3. QED
    BY <2>1, <2>2
<1>3. CASE OpsSpawn
  <2>1. worker.pc = "none"
    BY <1>3 DEF OpsSpawn, Launching, BeforePid
  <2>2. QED
    BY <1>3, <2>1 DEF OpsSpawn
<1>4. CASE FenceGeneration \/ Load \/ Start \/ Heartbeat \/ ChildEnds \/ Finish
  <2>1. UNCHANGED <<record, published>>
    BY <1>4 DEF FenceGeneration, Load, Start, Heartbeat, ChildEnds, Finish,
       WorkerGo, WriteAttempt
  <2>2. worker.pc \in BeforeFinish
    BY <1>4 DEF FenceGeneration, Load, Start, Heartbeat, ChildEnds, Finish
  <2>3. CASE FenceGeneration \/ Load \/ Start \/ Heartbeat
    <3>1. worker'.pc \in {"load", "own", "running", "failRecord"}
      BY <2>3 DEF FenceGeneration, Load, Start, Heartbeat, WorkerGo, WriteAttempt
    <3>2. QED
      BY <2>1, <2>2, <3>1
  <2>4. CASE ChildEnds
    <3>1. worker'.pc = "reduce" /\ worker'.outcome \in Outcome
      BY <2>4 DEF ChildEnds
    <3>2. QED
      BY <2>1, <2>2, <3>1
  <2>5. CASE Finish
    <3>1. worker.pc = "terminal" /\ worker'.pc = "release"
          /\ worker'.outcome = worker.outcome
      BY <2>5 DEF Finish, WriteAttempt
    <3>2. QED
      BY <2>1, <3>1
  <2>6. QED
    BY <1>4, <2>3, <2>4, <2>5
<1>5. CASE Reduce \/ ReleaseClaim \/ AwaitSupervisor
  BY <1>5 DEF Reduce, ReleaseClaim, AwaitSupervisor, Publish, WorkerGo
<1>6. CASE Announce \/ Enqueue
  BY <1>6 DEF Announce, Enqueue, Publish, WorkerGo
<1>7. CASE Ready \/ ReadPause \/ Settle \/ Throws \/ FailAttempt
  <2>1. CASE Ready \/ ReadPause \/ Settle
    <3>1. UNCHANGED <<record, published>> /\ worker'.outcome = worker.outcome
      BY <2>1 DEF Ready, ReadPause, Settle, WriteAttempt, WorkerGo
    <3>2. worker.pc \in {"ready", "readPause", "settle"}
          /\ worker'.pc \in {"readPause", "settle", "enqueue"}
      BY <2>1 DEF Ready, ReadPause, Settle, WriteAttempt, WorkerGo
    <3>3. QED
      BY <3>1, <3>2
  <2>2. CASE Throws \/ FailAttempt
    BY <2>2 DEF Throws, FailAttempt, WorkerGo
  <2>3. QED
    BY <1>7, <2>1, <2>2
<1>8. CASE Await \/ AwaitFails
  <2>1. UNCHANGED <<record, published>> /\ worker.pc = "await"
    BY <1>8 DEF Await, AwaitFails
  <2>2. worker'.pc \in {"fence", "failRecord"}
    <3>1. worker \in WorkerState
      OBVIOUS
    <3>2. worker' = [worker EXCEPT !.pc = "fence", !.record = record]
          \/ worker' = [worker EXCEPT !.pc = "failRecord", !.record = record]
      BY <1>8 DEF Await, AwaitFails
    <3>3. QED
      BY ONLY <3>1, <3>2 DEF WorkerState
  <2>3. QED
    BY <2>1, <2>2
<1>9. CASE Own \/ FailRecord
  <2>1. worker.record \in Record
    BY <1>9 DEF Own, FailRecord
  <2>2. record'.status # "TERMINAL" /\ UNCHANGED published
    BY <1>9, <2>1 DEF Own, OwnedRecord, FailRecord, Record
  <2>3. Status' # "TERMINAL"
    BY <2>2 DEF Result
  <2>4. \/ worker.pc = "own" /\ worker'.pc = "start"
        \/ worker'.pc = "failAttempt"
    BY <1>9 DEF Own, FailRecord, WorkerGo
  <2>5. QED
    BY <2>2, <2>3, <2>4
<1>10. CASE Conclude \/ FailPause \/ WorkerDies
  BY <1>10 DEF Conclude, FailPause, WorkerDies, WorkerAt, WorkerLive
<1>11. CASE RecoverStep \/ Pause \/ Resume
  <2>1. UNCHANGED <<record, worker, published>>
    BY <1>11, Bystanders
  <2>2. QED
    BY <2>1
<1>12. QED
  BY <1>1, <1>2, <1>3, <1>4, <1>5, <1>6, <1>7, <1>8, <1>9, <1>10, <1>11
     DEF Next, OpsStep, WorkerStep, OpsElsewhere

\* opsled copies the terminal status from a worker record, and its claim and wake
\* are not taken back.
LEMMA TerminalStep ==
  ASSUME AInv, Next
  PROVE  TerminalIsPublished'
<1> USE NoneAssumption DEF AInv, TypeOK, TerminalIsPublished, published
<1>1. CASE OpsSupervise
  <2>1. record # None
    BY <1>1 DEF OpsSupervise, HasPid
  <2>2. record.status = "TERMINAL" => wake /\ claim # "ACTIVE"
    BY <2>1 DEF Status, Progress, PublishedInOrder
  <2>3. record.status \in {"LAUNCHED", "OWNED", "TERMINAL", "FAILED"}
    BY <1>1, <2>1 DEF OpsSupervise, Record, Launching
  <2>4. result' = "TERMINAL" => record.status = "TERMINAL"
    BY <1>1, <2>3 DEF OpsSupervise, RunnerDone
  <2>5. QED
    BY <1>1, <2>2, <2>4 DEF OpsSupervise
<1>2. CASE OpsCreate \/ OpsConclude \/ OpsAbandon
  BY <1>2 DEF OpsCreate, OpsConclude, OpsAbandon
<1>3. CASE (OpsStep \/ OpsDies) /\ UNCHANGED result
  <2>1. UNCHANGED <<published, result>>
    BY <1>3, Bystanders
  <2>2. QED
    BY <2>1
<1>4. CASE WorkerStep \/ WorkerDies
  <2>1. UNCHANGED result
    BY <1>4, Bystanders
  <2>2. (wake => wake') /\ (claim # "ACTIVE" => claim' # "ACTIVE")
    <3>1. CASE Reduce \/ ReleaseClaim \/ AwaitSupervisor \/ Announce \/ Enqueue
      BY <3>1 DEF Reduce, ReleaseClaim, AwaitSupervisor, Announce, Enqueue, Publish,
         Progress, AfterFinish, Outcome
    <3>2. CASE Await \/ AwaitFails \/ FenceGeneration \/ Load \/ Own \/ Start
               \/ Heartbeat \/ ChildEnds \/ Finish
      BY <3>2 DEF Await, AwaitFails, FenceGeneration, Load, Own, Start, Heartbeat,
         ChildEnds, Finish, WriteAttempt
    <3>3. CASE Ready \/ ReadPause \/ Settle \/ Conclude \/ Throws \/ FailRecord
               \/ FailAttempt \/ FailPause \/ WorkerDies
      BY <3>3 DEF Ready, ReadPause, Settle, Conclude, Throws, FailRecord, FailAttempt,
         FailPause, WorkerDies, WriteAttempt
    <3>4. QED
      BY <1>4, <3>1, <3>2, <3>3 DEF WorkerStep
  <2>3. QED
    BY <2>1, <2>2
<1>5. CASE RecoverStep \/ Pause \/ Resume
  <2>1. UNCHANGED <<published, result>>
    BY <1>5, Bystanders
  <2>2. QED
    BY <2>1
<1>6. OpsStep \/ OpsDies =>
         OpsSupervise \/ OpsCreate \/ OpsConclude \/ OpsAbandon \/ UNCHANGED result
  BY DEF OpsStep, OpsDies, OpsAuthorise, OpsPrepare, OpsSleep, OpsRecord, OpsSpawn,
     OpsLaunched, OpsSpawnFails, OpsHandshake, OpsHandshakeFails, OpsPublish, OpsAdopt
<1>7. QED
  BY <1>1, <1>2, <1>3, <1>4, <1>5, <1>6 DEF Next

\* Who holds a result and who does not, and with it that only a recovery which had
\* read the attempt before takes a result away.
LEMMA ResultStep ==
  ASSUME AInv, Next
  PROVE  /\ ResultInHand'
         /\ attempt.result /\ ~attempt'.result => cli.pc = "unknown"
<1> USE DEF AInv, TypeOK, ResultInHand, BeforePid, BeforeFinish, AfterFinish,
        OpsState, WorkerState, CliState
<1>1. Queued \in Attempt /\ ~Queued.result
  BY DEF Queued, Attempt
<1>2. CASE OpsStep \/ OpsDies
  <2>1. UNCHANGED cli /\ worker'.attempt = worker.attempt
    BY <1>2, Bystanders DEF OpsStep, OpsDies, OpsAuthorise, OpsCreate, OpsPrepare,
       OpsSleep, OpsRecord, OpsSpawn, OpsLaunched, OpsSpawnFails, OpsHandshake,
       OpsHandshakeFails, OpsPublish, OpsConclude, OpsAdopt, OpsAbandon, OpsSupervise
  <2>2. CASE OpsAuthorise
    <3>1. worker.pc = "none"
      BY <2>2 DEF OpsAuthorise, Launching
    <3>2. QED
      BY <2>2, <3>1 DEF OpsAuthorise
  <2>3. CASE OpsPrepare
    <3>1. ~attempt'.result /\ ~ops'.seen.result /\ UNCHANGED worker
          /\ ops.pc = "prepare"
      BY <2>3 DEF OpsPrepare, OpsGo
    <3>2. QED
      BY <2>1, <3>1
  <2>4. CASE OpsSpawn
    <3>1. /\ ops.pc = "spawn" /\ worker'.pc = "await"
          /\ ops' = [ops EXCEPT !.pc = "launched"] /\ UNCHANGED attempt
      BY <2>4 DEF OpsSpawn, OpsGo
    <3>2. QED
      BY <2>1, <3>1
  <2>5. CASE OpsSpawnFails
    <3>1. ~attempt'.result
      BY <2>5, AttemptEdits DEF OpsSpawnFails
    <3>2. ops.pc \in {"spawn", "launched"} /\ ops' = [ops EXCEPT !.pc = "fail"]
          /\ UNCHANGED worker
      BY <2>5 DEF OpsSpawnFails, OpsGo
    <3>3. QED
      BY <2>1, <3>1, <3>2
  <2>6. CASE OpsCreate \/ OpsSleep \/ OpsRecord \/ OpsLaunched
    <3>1. UNCHANGED <<attempt, worker>> /\ ops.pc \in BeforePid
          /\ ops'.seen = ops.seen
      BY <2>6 DEF OpsCreate, OpsSleep, OpsRecord, OpsLaunched, OpsGo
    <3>2. QED
      BY <2>1, <3>1
  <2>7. CASE OpsHandshake \/ OpsHandshakeFails \/ OpsPublish \/ OpsConclude
             \/ OpsAdopt \/ OpsAbandon \/ OpsSupervise \/ OpsDies
    <3>1. UNCHANGED <<attempt, worker>> /\ ~ops'.seen.result
          /\ (ops'.pc \in BeforePid => ops.pc \in BeforePid)
      BY <1>1, <2>7 DEF OpsHandshake, OpsHandshakeFails, OpsPublish, OpsConclude,
         OpsAdopt, OpsAbandon, OpsSupervise, OpsDies, OpsGo, OpsIdle
    <3>2. QED
      BY <2>1, <3>1
  <2>8. QED
    BY <1>2, <2>2, <2>3, <2>4, <2>5, <2>6, <2>7 DEF OpsStep
<1>3. CASE WorkerStep \/ WorkerDies
  <2>1. UNCHANGED <<ops, cli>>
    BY <1>3, Bystanders
  <2>2. CASE Start \/ Heartbeat
    <3>1. ~attempt'.result /\ ~worker'.attempt.result
      <4>1. ~worker.attempt.result /\ worker.attempt \in Attempt
        BY <2>2 DEF Start, Heartbeat
      <4>2. ~[worker.attempt EXCEPT !.state = "RUNNING"].result
        BY <4>1, AttemptEdits
      <4>3. attempt' = worker'.attempt
            /\ attempt' \in {worker.attempt, [worker.attempt EXCEPT !.state = "RUNNING"]}
        BY <2>2 DEF Start, Heartbeat, WriteAttempt
      <4>4. QED
        BY <4>1, <4>2, <4>3
    <3>2. worker.pc \in {"start", "running"} /\ worker'.pc = "running"
      BY <2>2 DEF Start, Heartbeat, WriteAttempt
    <3>3. QED
      BY <2>1, <3>1, <3>2
  <2>3. CASE Finish
    <3>1. worker.outcome \in Outcome /\ worker.attempt \in Attempt
      BY <2>3 DEF Finish, Progress
    <3>2. attempt'.result /\ worker'.attempt.result
      BY <2>3, <3>1, AttemptEdits DEF Finish, WriteAttempt
    <3>3. worker'.pc = "release" /\ worker.pc = "terminal"
      BY <2>3 DEF Finish, WriteAttempt
    <3>4. ops.pc \notin BeforePid
      BY <3>3 DEF Launching
    <3>5. QED
      BY <2>1, <3>2, <3>3, <3>4
  <2>4. CASE Ready
    <3>1. attempt'.result /\ worker'.attempt.result
      BY <2>4, AttemptEdits DEF Ready, WriteAttempt
    <3>2. worker.pc = "ready" /\ worker'.pc = "readPause"
      BY <2>4 DEF Ready, WriteAttempt
    <3>3. ops.pc \notin BeforePid
      BY <3>2 DEF Launching
    <3>4. QED
      BY <2>1, <3>1, <3>2, <3>3
  <2>5. CASE FailAttempt
    <3>1. attempt'.result = attempt.result
      <4>1. /\ [attempt EXCEPT !.state = "UNKNOWN"] \in Attempt
            /\ [attempt EXCEPT !.state = "UNKNOWN"].result = attempt.result
        BY AttemptEdits
      <4>2. PICK a \in {attempt, [attempt EXCEPT !.state = "UNKNOWN"]} :
               attempt' = Woken(a)
        BY <2>5 DEF FailAttempt
      <4>3. QED
        BY <4>1, <4>2, AttemptEdits
    <3>2. worker.pc = "failAttempt" /\ worker'.pc = "failPause"
          /\ worker'.attempt = worker.attempt
      BY <2>5 DEF FailAttempt, WorkerGo
    <3>3. QED
      BY <2>1, <3>1, <3>2
  <2>6. CASE Load
    <3>1. worker.pc = "load" /\ worker'.pc \in {"own", "failRecord"}
          /\ worker'.attempt = attempt /\ UNCHANGED attempt
      BY <2>6 DEF Load
    <3>2. QED
      BY <2>1, <3>1
  <2>7. CASE Conclude \/ FailPause \/ WorkerDies
    <3>1. worker'.pc \in {"done", "dead"} /\ ~worker'.attempt.result /\ UNCHANGED attempt
      BY <1>1, <2>7 DEF Conclude, FailPause, WorkerDies, WorkerAt
    <3>2. QED
      BY <2>1, <3>1
  <2>8. CASE Await \/ AwaitFails \/ FenceGeneration \/ Own \/ ChildEnds \/ Reduce
    <3>1. UNCHANGED attempt /\ worker'.attempt = worker.attempt
      BY <2>8 DEF Await, AwaitFails, FenceGeneration, Own, ChildEnds, Reduce,
         Publish, WorkerGo
    <3>2. worker.pc \in {"await"} \cup BeforeFinish
      BY <2>8 DEF Await, AwaitFails, FenceGeneration, Own, ChildEnds, Reduce
    <3>3. worker'.pc \in BeforeFinish \cup {"failRecord"}
      BY <2>8 DEF Await, AwaitFails, FenceGeneration, Own, ChildEnds, Reduce,
         Publish, WorkerGo
    <3>4. QED
      BY <2>1, <3>1, <3>2, <3>3
  <2>9. CASE ReleaseClaim \/ AwaitSupervisor \/ Announce \/ ReadPause \/ Settle \/ Enqueue
    <3>1. UNCHANGED attempt /\ worker'.attempt = worker.attempt
      BY <2>9 DEF ReleaseClaim, AwaitSupervisor, Announce, ReadPause, Settle, Enqueue,
         Publish, WorkerGo
    <3>2. worker.pc \in AfterFinish
      BY <2>9 DEF ReleaseClaim, AwaitSupervisor, Announce, ReadPause, Settle, Enqueue
    <3>3. worker'.pc \in AfterFinish
      BY <2>9 DEF ReleaseClaim, AwaitSupervisor, Announce, ReadPause, Settle, Enqueue,
         Publish, WorkerGo
    <3>4. QED
      BY <2>1, <3>1, <3>2, <3>3
  <2>10. CASE Throws \/ FailRecord
    <3>1. UNCHANGED attempt /\ worker'.attempt = worker.attempt
          /\ worker'.pc \in {"failRecord", "failAttempt"}
      BY <2>10 DEF Throws, FailRecord, WorkerGo
    <3>2. QED
      BY <2>1, <3>1
  <2>11. QED
    BY <1>3, <2>2, <2>3, <2>4, <2>5, <2>6, <2>7, <2>8, <2>9, <2>10 DEF WorkerStep
<1>4. CASE RecoverStep \/ Pause \/ Resume
  <2>1. UNCHANGED <<ops, worker>>
    BY <1>4, Bystanders
  <2>2. CASE RecoverMarks
    <3>1. attempt'.result = cli.attempt.result /\ cli'.attempt = cli.attempt
      <4>1. /\ [cli.attempt EXCEPT !.state = "UNKNOWN"] \in Attempt
            /\ [cli.attempt EXCEPT !.state = "UNKNOWN"].result = cli.attempt.result
        <5>1. cli.attempt \in Attempt
          OBVIOUS
        <5>2. QED
          BY <5>1, AttemptEdits DEF Attempt
      <4>2. QED
        BY <2>2, <4>1, AttemptEdits DEF RecoverMarks, CliGo
    <3>2. QED
      BY <2>1, <2>2, <3>1 DEF RecoverMarks
  <2>3. CASE ~RecoverMarks
    <3>1. UNCHANGED attempt /\ cli'.attempt \in {attempt, cli.attempt, Queued}
      BY <1>4, <2>3 DEF RecoverStep, RecoverReads, RecoverJudges, RecoverRewrites,
         RecoverPauses, RecoverAdvances, Pause, Resume, Command, CliGo, CliIdle
    <3>2. QED
      BY <1>1, <2>1, <3>1
  <2>4. QED
    BY <2>2, <2>3
<1>5. QED
  BY <1>2, <1>3, <1>4 DEF Next

LEMMA InitInvariant == Init => AInv
<1>1. ASSUME Init PROVE AInv
  <2> USE <1>1, AttemptAssumption, NoneAssumption
          DEF Init, OpsIdle, CliIdle, WorkerAt, Queued
  <2>1. ops \in OpsState /\ worker \in WorkerState /\ cli \in CliState
    BY DEF OpsState, WorkerState, CliState, State, Attempt, Pauses
  <2>2. gen \in 1..MaxGen
    OBVIOUS
  <2>3. spent \in [command : 0..MaxCommands, crash : 0..MaxCrashes, fault : 0..MaxFaults]
    OBVIOUS
  <2>4. state \in State /\ attempt \in Attempt
    BY DEF State, Attempt, Pauses
  <2>5. TypeOK
    BY <2>1, <2>2, <2>3, <2>4 DEF TypeOK
  <2>6. Present /\ Launching
    BY DEF Present, Launching, BeforePid, BeforeFinish, AfterFinish, Failing, HasPid
  <2>7. Progress /\ PublishedInOrder /\ TerminalIsPublished
    BY DEF Progress, PublishedInOrder, TerminalIsPublished, BeforeFinish, AfterFinish,
       Status, Result
  <2>8. ResultInHand
    BY DEF ResultInHand, BeforePid, BeforeFinish, AfterFinish
  <2>9. QED
    BY <2>5, <2>6, <2>7, <2>8 DEF AInv
<1>2. QED
  BY <1>1

LEMMA StutterKeeps ==
  ASSUME AInv, UNCHANGED vars
  PROVE  AInv'
<1> USE DEF AInv, vars, published
<1>1. TypeOK' /\ Present'
  BY DEF TypeOK, Present
<1>2. Launching'
  BY DEF Launching, HasPid
<1>3. Progress' /\ PublishedInOrder' /\ TerminalIsPublished'
  BY DEF Progress, Status, PublishedInOrder, TerminalIsPublished
<1>4. ResultInHand'
  BY DEF ResultInHand
<1>5. QED
  BY <1>1, <1>2, <1>3, <1>4

LEMMA NextInvariant ==
  ASSUME AInv, [Next]_vars
  PROVE  AInv'
<1>1. CASE Next
  <2>1. TypeOK'
    BY <1>1, OpsTypes, WorkerTypes, CommandTypes DEF Next
  <2>2. QED
    BY <1>1, <2>1, PresentStep, LaunchingStep, ProgressStep, TerminalStep, ResultStep
       DEF AInv
<1>2. CASE UNCHANGED vars
  BY <1>2, StutterKeeps
<1>3. QED
  BY <1>1, <1>2

-------------------------------------------------------------------------------
(***************************************************************************)
(* The theorems                                                            *)
(***************************************************************************)
\* The invariant holds in every state, whoever died, failed or recovered.
THEOREM AttemptInvariance == Spec => []AInv
  BY InitInvariant, NextInvariant, PTL DEF Spec

\* Every variable has its type in every state; in particular the worker record is
\* there when opsled or the worker rewrites it.
THEOREM TypeCorrect == Spec => []TypeOK
<1>1. AInv => TypeOK
  BY DEF AInv
<1>2. QED
  BY <1>1, AttemptInvariance, PTL

\* Handoff, claim, task, terminal event and wake appear in this order, and the claim
\* ends with the outcome of the handoff.
THEOREM PublishedInOrderAlways == Spec => []PublishedInOrder
<1>1. AInv => PublishedInOrder
  BY DEF AInv
<1>2. QED
  BY <1>1, AttemptInvariance, PTL

\* Whoever reads a terminal request result finds the run published to the last.
THEOREM TerminalIsPublishedAlways == Spec => []TerminalIsPublished
<1>1. AInv => TerminalIsPublished
  BY DEF AInv
<1>2. QED
  BY <1>1, AttemptInvariance, PTL

\* No heartbeat, failure, launch or retry takes a result away from an attempt;
\* only a recovery that writes back what it had read before.
THEOREM ResultIsKeptAlways == Spec => ResultIsKept
<1>1. ASSUME AInv, [Next]_vars
      PROVE  [attempt.result /\ ~attempt'.result => cli.pc = "unknown"]_vars
  BY <1>1, ResultStep
<1>2. QED
  BY <1>1, AttemptInvariance, PTL DEF Spec, ResultIsKept

\* No worker is started a second time: whoever comes to a launch finds that none has
\* been started, or does not start one.
THEOREM LaunchedOnceAlways == Spec => LaunchedOnce
<1>1. ASSUME AInv
      PROVE  ops.pc \in {"record", "spawn"} => worker.pc = "none"
  BY <1>1 DEF AInv, Launching, BeforePid
<1>2. AInv => [ops.pc \in {"record", "spawn"} /\ ops'.pc \in {"spawn", "launched"}
                  => worker.pc = "none"]_vars
  BY <1>1
<1>3. QED
  BY <1>2, AttemptInvariance, PTL DEF Spec, LaunchedOnce

===============================================================================
