---------------------------- MODULE EvaluationProofs ----------------------------
(***************************************************************************)
(* Proofs about Evaluation: for any number of evaluators, of commands and  *)
(* of deaths, an attempt gets one decision, and nothing takes effect       *)
(* before the decision is logged.                                          *)
(***************************************************************************)
EXTENDS Evaluation, TLAPS

\* Who is at one of these has the projection lock.
Inside == {"log", "attempt", "task", "requirement", "event", "eventFile", "state",
           "swap", "pause", "pauseEvent", "pauseFile", "return"}

\* The event of the committed decision.
Judgement == [type |-> "SUPERVISOR_DECISION", decision |-> evaluation]
Judged == Occurs(Judgement, eventLog)

Exclusive ==
    \A p \in Proc : proc[p].pc \in Inside =>
        /\ locked
        /\ \A q \in Proc : proc[q].pc \in Inside => q = p

\* Evaluators have a decision, and in the lock it is the committed one.
Agreed ==
    \A p \in Proc :
        /\ proc[p].pc # "idle" => proc[p].d \in Proc
        /\ proc[p].pc \in Inside => proc[p].d = evaluation

\* The logs have nothing but the committed decision.
DecisionLogged ==
    /\ decisionLog = <<>> \/ (decisionLog = <<evaluation>> /\ evaluation # None)
    /\ \A p \in Proc : proc[p].pc \in Inside \ {"log"} =>
                          decisionLog = <<evaluation>>

EventsLogged ==
    /\ \A i \in DOMAIN eventLog :
          eventLog[i].decision = evaluation /\ evaluation # None
    /\ \A i, j \in DOMAIN eventLog : eventLog[i].type = eventLog[j].type => i = j
    /\ \A e \in eventFile : Occurs(e, eventLog)
    /\ \A p \in Proc :
          /\ proc[p].pc \in {"eventFile", "state", "pause", "pauseEvent",
                             "pauseFile", "return"} => Judged
          /\ proc[p].pc = "pauseFile" =>
                Occurs(Event(p, "PAUSE_AFTER_CURRENT_APPLIED"), eventLog)

\* A pause was applied by the committed decision, after its event.
Justified(pause) == pause.applied # None =>
                       pause.applied = evaluation /\ Judged

Backed(task) == task.state \in {"ACCEPTED", "REJECTED"} => Logged(task.state)

FilesFollow ==
    /\ Backed(file.task)
    /\ requirement = "IMPLEMENTED" => Logged("ACCEPTED")
    /\ Justified(file.state.pause)

\* What will be written is as good as what is there.
SwapsFollow ==
    \A p \in Proc : proc[p].pc = "swap" =>
        \/ /\ proc[p].file = "attempt" /\ proc[p].new \in AttemptType
           /\ proc[p].new.evaluation = evaluation
        \/ /\ proc[p].file = "task" /\ proc[p].new \in TaskType
           /\ Backed(proc[p].new)
        \/ /\ proc[p].file = "state" /\ proc[p].new \in StateType
           /\ Justified(proc[p].new.pause) /\ Judged

Names(attempt) ==
    attempt \in AttemptType /\ attempt.evaluation \in {None, evaluation}

WorkerFollows(w) ==
    /\ w.pc \in {"await", "ready", "failAttempt"} => Names(w.attempt)
    /\ w.pc = "update" => w.pause \in PauseType /\ Justified(w.pause)
    /\ w.pc \in {"settle", "failSettle"} =>
          w.state \in StateType /\ Justified(w.state.pause)

WritesFollow ==
    /\ WorkerFollows(worker)
    /\ op.pc \in {"consume", "write"} =>
          op.state \in StateType /\ Justified(op.state.pause)

\* The steps of all but the evaluations.
Others == WorkerStep \/ FailureStep \/ Deliver \/ CommandStep

IInv == /\ TypeOK /\ Exclusive /\ Agreed /\ DecisionLogged /\ EventsLogged
        /\ FilesFollow /\ SwapsFollow /\ WritesFollow

-------------------------------------------------------------------------------

USE EvaluationAssumption

\* A log with one entry more.
LEMMA AppendOccurs ==
  ASSUME NEW S, NEW log \in Seq(S), NEW e \in S
  PROVE  /\ Append(log, e) \in Seq(S)
         /\ Occurs(e, Append(log, e))
         /\ \A x : Occurs(x, log) => Occurs(x, Append(log, e))
<1>1. /\ Append(log, e) \in Seq(S)
      /\ DOMAIN log = 1..Len(log) /\ Len(log) \in Nat
      /\ DOMAIN Append(log, e) = 1..(Len(log) + 1)
      /\ Append(log, e)[Len(log) + 1] = e
      /\ \A i \in 1..Len(log) : Append(log, e)[i] = log[i]
  OBVIOUS
<1>2. Occurs(e, Append(log, e))
  BY <1>1 DEF Occurs
<1>3. \A x : Occurs(x, log) => Occurs(x, Append(log, e))
  BY <1>1 DEF Occurs
<1> QED
  BY <1>1, <1>2, <1>3

\* The initial states satisfy the invariant.
LEMMA InitialIInv == Init => IInv
<1> SUFFICES ASSUME Init PROVE IInv
  OBVIOUS
<1>1. /\ \A p \in Proc : proc[p] = Idle
      /\ decisionLog = <<>> /\ eventLog = <<>> /\ DOMAIN eventLog = {}
      /\ DOMAIN decisionLog = {}
  BY DEF Init
<1>2. TypeOK
  <2>1. Idle \in ProcType
    BY DEF Idle, ProcType, Decision
  <2>2. proc \in [Proc -> ProcType]
    BY <2>1 DEF Init
  <2>3. worker \in WorkerType /\ op \in OpType
    BY DEF Init, WorkerAt, WorkerType, OpType, OpIdle
  <2>4. NoPause \in PauseType
    BY DEF NoPause, PauseType, Decision
  <2>5. file \in Files
    BY <2>4 DEF Init, Files, AttemptType, TaskType, StateType, AttemptIn, TaskIn,
                Decision
  <2>6. file.attempt.evaluation = None
    BY DEF Init, AttemptIn
  <2>7. <<>> \in Seq(Proc) /\ <<>> \in Seq(EventType)
    OBVIOUS
  <2>8. spent \in [command : 0..MaxCommands, death : 0..MaxDeaths]
    BY DEF Init
  <2> QED
    BY <2>2, <2>3, <2>5, <2>6, <2>7, <2>8 DEF Init, TypeOK, Decision
<1>3. Exclusive /\ Agreed /\ SwapsFollow
  BY <1>1 DEF Exclusive, Agreed, SwapsFollow, Idle, Inside
<1>4. DecisionLogged /\ EventsLogged
  BY <1>1 DEF Init, DecisionLogged, EventsLogged, Idle, Inside
<1>5. FilesFollow /\ WritesFollow
  BY DEF Init, FilesFollow, WritesFollow, WorkerFollows, WorkerAt, Backed, Justified,
         TaskIn, NoPause, OpIdle
<1> QED
  BY <1>2, <1>3, <1>4, <1>5 DEF IInv

\* The worker writes what it has read, or what is no verdict.
LEMMA WorkerWrites ==
  ASSUME IInv, WorkerStep \/ FailureStep
  PROVE  /\ worker' \in WorkerType /\ WorkerFollows(worker')
         /\ file' \in Files /\ Names(file'.attempt)
         /\ Backed(file'.task) /\ Justified(file'.state.pause)
         /\ wake' \in {wake, "requested"}
         /\ UNCHANGED <<aside, op, spent>>
<1>0. /\ worker \in WorkerType /\ file \in Files
      /\ file.attempt \in AttemptType /\ file.task \in TaskType
      /\ file.state \in StateType /\ file.state.pause \in PauseType
      /\ Names(file.attempt) /\ Backed(file.task) /\ Justified(file.state.pause)
      /\ WorkerFollows(worker)
  BY DEF IInv, TypeOK, Files, StateType, FilesFollow, WritesFollow, Names
<1> DEFINE Good == /\ worker' \in WorkerType /\ WorkerFollows(worker')
                   /\ file' \in Files /\ Names(file'.attempt)
                   /\ Backed(file'.task) /\ Justified(file'.state.pause)
                   /\ wake' \in {wake, "requested"}
                   /\ UNCHANGED <<aside, op, spent>>
<1>1. CASE Finish
  <2>1. PICK satisfied \in BOOLEAN :
           LET memory == [state |-> "terminal", satisfied |-> satisfied,
                          evaluation |-> None]
           IN /\ WorkerGoes("running", [WorkerAt("await") EXCEPT !.attempt = memory])
              /\ file' = [file EXCEPT !.attempt = memory]
              /\ UNCHANGED wake
    BY <1>1 DEF Finish
  <2> DEFINE memory == [state |-> "terminal", satisfied |-> satisfied,
                        evaluation |-> None]
  <2>2. Names(memory)
    BY DEF Names, AttemptType, Decision
  <2>3. /\ WorkerGoes("running", [WorkerAt("await") EXCEPT !.attempt = memory])
        /\ file' = [file EXCEPT !.attempt = memory]
        /\ UNCHANGED wake
    BY <2>1
  <2> HIDE DEF memory
  <2> QED
    BY <1>0, <2>2, <2>3 DEF WorkerGoes, WorkerAt, WorkerType, WorkerFollows, Names, Files
<1>2. CASE AwaitSupervisor
  <2>1. file' \in Files /\ file'.attempt = file.attempt /\ file'.state = file.state
        /\ Backed(file'.task)
    BY <1>0, <1>2 DEF AwaitSupervisor, Files, TaskIn, TaskType, Backed
  <2>2. worker' \in WorkerType /\ WorkerFollows(worker')
    BY <1>0, <1>2 DEF AwaitSupervisor, WorkerGoes, WorkerType, WorkerFollows
  <2> QED
    BY <1>0, <1>2, <2>1, <2>2 DEF AwaitSupervisor, WorkerGoes
<1>3. ASSUME NEW from \in {"ready", "failAttempt"}, NEW next \in {"readPause", "failState"},
             WriteAttempt(from, next)
      PROVE  Good
  <2>1. Names(worker.attempt)
    BY <1>0, <1>3 DEF WriteAttempt, WorkerGoes, WorkerFollows
  <2>2. file' \in Files /\ file'.attempt = worker.attempt /\ file'.task = file.task
        /\ file'.state = file.state
    BY <1>0, <1>3, <2>1 DEF WriteAttempt, Files, Names
  <2>3. worker' \in WorkerType /\ WorkerFollows(worker')
    BY <1>3 DEF WriteAttempt, WorkerGoes, WorkerAt, WorkerType, WorkerFollows, Failing
  <2> QED
    BY <1>0, <1>3, <2>1, <2>2, <2>3 DEF WriteAttempt, WorkerGoes
<1>4. CASE SeePause
  <2>1. worker' \in WorkerType /\ WorkerFollows(worker')
    BY <1>0, <1>4 DEF SeePause, WorkerGoes, WorkerAt, WorkerType, WorkerFollows
  <2> QED
    BY <1>0, <1>4, <2>1 DEF SeePause, WorkerGoes
<1>5. ASSUME NEW from, NEW next \in {"settle", "failSettle"}, NEW paused \in BOOLEAN,
             NEW pause \in PauseType, Justified(pause),
             Settled(from, next, paused, pause)
      PROVE  Good
  <2> DEFINE state == [file.state EXCEPT !.paused = paused, !.pause = pause]
  <2>1. state \in StateType /\ state.pause = pause
    BY <1>0 DEF StateType
  <2>2. worker' = [WorkerAt(next) EXCEPT !.state = state]
    BY <1>5 DEF Settled, WorkerGoes
  <2> HIDE DEF state
  <2>3. worker' \in WorkerType /\ WorkerFollows(worker')
    BY <1>5, <2>1, <2>2 DEF WorkerAt, WorkerType, WorkerFollows, Failing
  <2> QED
    BY <1>0, <1>5, <2>3 DEF Settled, WorkerGoes
<1>6. CASE Update
  <2>1. worker.pause \in PauseType /\ Justified(worker.pause)
    BY <1>0, <1>6 DEF Update, Settled, WorkerGoes, WorkerFollows
  <2>2. (worker.pause.active /\ ~worker.pause.after) \in BOOLEAN
    OBVIOUS
  <2> QED
    BY <1>5, <1>6, <2>1, <2>2 DEF Update
<1>7. CASE FailPaused
  <2> DEFINE pause == [active |-> TRUE, after |-> FALSE, applied |-> None]
  <2>1. pause \in PauseType /\ Justified(pause)
    BY DEF PauseType, Decision, Justified
  <2>2. Settled("failState", "failSettle", TRUE, pause)
    BY <1>7 DEF FailPaused
  <2> HIDE DEF pause
  <2> QED
    BY <1>5, <2>1, <2>2
<1>8. ASSUME NEW from \in {"settle", "failSettle"}, NEW next \in {"wake", "failed"},
             Settle(from, next)
      PROVE  Good
  <2>1. worker.state \in StateType /\ Justified(worker.state.pause)
    BY <1>0, <1>8 DEF Settle, WorkerGoes, WorkerFollows
  <2>2. file' \in Files /\ file'.attempt = file.attempt /\ file'.task = file.task
        /\ file'.state = worker.state
    BY <1>0, <1>8, <2>1 DEF Settle, Files
  <2>3. worker' \in WorkerType /\ WorkerFollows(worker')
    BY <1>8 DEF Settle, WorkerGoes, WorkerAt, WorkerType, WorkerFollows, Failing
  <2> QED
    BY <1>0, <1>8, <2>1, <2>2, <2>3 DEF Settle, WorkerGoes
<1>9. CASE Enqueue
  <2>1. worker' \in WorkerType /\ WorkerFollows(worker')
    BY <1>9 DEF Enqueue, WorkerGoes, WorkerAt, WorkerType, WorkerFollows
  <2> QED
    BY <1>0, <1>9, <2>1 DEF Enqueue, WorkerGoes
<1>10. CASE Fail
  <2> DEFINE attempt == [file.attempt EXCEPT !.state =
                            IF @ = "terminal" THEN @ ELSE "unknown"]
  <2>1. Names(attempt)
    BY <1>0 DEF Names, AttemptType
  <2>2. worker' = [WorkerAt("failAttempt") EXCEPT !.attempt = attempt]
    BY <1>10 DEF Fail, WorkerGoes
  <2> HIDE DEF attempt
  <2>3. worker' \in WorkerType /\ WorkerFollows(worker')
    BY <2>1, <2>2 DEF WorkerAt, WorkerType, WorkerFollows, Failing, Names
  <2> QED
    BY <1>0, <1>10, <2>3 DEF Fail, WorkerGoes
<1>11. CASE WriteAttempt("ready", "readPause") \/ Settle("settle", "wake")
  BY <1>3, <1>8, <1>11
<1>12. CASE WriteAttempt("failAttempt", "failState") \/ Settle("failSettle", "failed")
  BY <1>3, <1>8, <1>12
<1>13. CASE WorkerStep
  BY <1>1, <1>2, <1>4, <1>6, <1>9, <1>11, <1>13 DEF WorkerStep
<1>14. CASE FailureStep
  BY <1>7, <1>10, <1>12, <1>14 DEF FailureStep
<1> QED
  BY <1>13, <1>14

(***************************************************************************)
(* Types                                                                   *)
(***************************************************************************)
\* The record of one process changes.
LEMMA ProcTypes ==
  ASSUME proc \in [Proc -> ProcType], NEW p \in Proc
  PROVE  /\ Idle \in ProcType
         /\ Returns(p) => proc' \in [Proc -> ProcType]
         /\ \A label : Goes(p, label) /\ [proc[p] EXCEPT !.pc = label] \in ProcType
               => proc' \in [Proc -> ProcType]
<1>1. Idle \in ProcType
  BY DEF Idle, ProcType, Decision
<1>2. Returns(p) => proc' \in [Proc -> ProcType]
  BY <1>1 DEF Returns
<1>3. ASSUME NEW label, Goes(p, label), [proc[p] EXCEPT !.pc = label] \in ProcType
      PROVE  proc' \in [Proc -> ProcType]
  BY <1>3 DEF Goes
<1> QED
  BY <1>1, <1>2, <1>3

Label == {"idle", "commit", "lock", "log", "attempt", "task", "requirement",
          "event", "eventFile", "state", "swap", "pause", "pauseEvent",
          "pauseFile", "return"}

\* A process that goes on keeps its type.
LEMMA GoesTypes ==
  ASSUME proc \in [Proc -> ProcType], NEW p \in Proc, NEW label \in Label,
         Goes(p, label)
  PROVE  proc' \in [Proc -> ProcType]
BY DEF Goes, ProcType, Label

\* A projection of a well-typed content keeps the types.
LEMMA ProjectTypes ==
  ASSUME TypeOK, NEW p \in Proc, NEW name \in FileName,
         NEW new \in AttemptType \cup TaskType \cup StateType,
         Project(p, name, new)
  PROVE  TypeOK'
<1>1. /\ proc' \in [Proc -> ProcType] /\ locked' \in BOOLEAN
      /\ casLock' \subseteq FileName
  <2>1. CASE new = file[name]
    <3>1. After[name] \in Label
      BY DEF After, FileName, Label
    <3> QED
      BY <2>1, <3>1, GoesTypes DEF Project, TypeOK
  <2>2. CASE new # file[name] /\ name \in casLock
    BY <2>2, ProcTypes DEF Project, TypeOK, Returns
  <2>3. CASE new # file[name] /\ name \notin casLock
    BY <2>3 DEF Project, TypeOK, ProcType
  <2> QED
    BY <2>1, <2>2, <2>3
<1> QED
  BY <1>1 DEF Project, TypeOK, logs

\* Every step keeps the types.
LEMMA TypePreserved == IInv /\ [Next]_vars => TypeOK'
<1> SUFFICES ASSUME IInv, [Next]_vars PROVE TypeOK'
  OBVIOUS
<1> USE DEF IInv
<1>0. /\ proc \in [Proc -> ProcType] /\ file \in Files /\ evaluation \in Decision
      /\ decisionLog \in Seq(Proc) /\ eventLog \in Seq(EventType)
      /\ eventFile \subseteq EventType
      /\ file.attempt \in AttemptType /\ file.task \in TaskType
      /\ file.state \in StateType
  BY DEF TypeOK, Files
<1>1. ASSUME NEW p \in Proc, Decide(p) PROVE TypeOK'
  BY <1>0, <1>1 DEF Decide, GoesWith, TypeOK, ProcType, Decision, logs
<1>2. ASSUME NEW p \in Proc, Commit(p) PROVE TypeOK'
  <2>1. proc[p].d \in Proc
    BY <1>2 DEF Commit, Agreed
  <2>2. proc' \in [Proc -> ProcType]
    BY <1>0, <1>2, <2>1 DEF Commit, GoesWith, ProcType, Decision
  <2>3. evaluation' \in Decision /\ file.attempt.evaluation \in {None, evaluation'}
    BY <1>0, <1>2, <2>1 DEF Commit, Decision, TypeOK
  <2> QED
    BY <1>2, <2>2, <2>3 DEF Commit, TypeOK, logs
<1>3. ASSUME NEW p \in Proc, Lock(p) PROVE TypeOK'
  <2>1. proc' \in [Proc -> ProcType] /\ locked' \in BOOLEAN
    BY <1>0, <1>3, ProcTypes, GoesTypes DEF Lock, Returns, TypeOK, Label
  <2> QED
    BY <1>3, <2>1 DEF Lock, TypeOK, logs
<1>4. ASSUME NEW p \in Proc, LogDecision(p) PROVE TypeOK'
  <2>1. proc' \in [Proc -> ProcType]
    BY <1>0, <1>4, GoesTypes DEF LogDecision, Label
  <2>2. decisionLog' \in Seq(Proc)
    BY <1>0, <1>4, AppendOccurs DEF LogDecision, Agreed
  <2> QED
    BY <1>4, <2>1, <2>2 DEF LogDecision, TypeOK
<1>5. ASSUME NEW p \in Proc, Conflict(p) PROVE TypeOK'
  BY <1>0, <1>5, ProcTypes DEF Conflict, Returns, TypeOK, logs
<1>6. ASSUME NEW p \in Proc, ProjectAttempt(p) PROVE TypeOK'
  <2>1. [file.attempt EXCEPT !.evaluation = proc[p].d] \in AttemptType
    BY <1>0, <1>6 DEF AttemptType, ProcType
  <2> QED
    BY <1>5, <1>6, <2>1, ProjectTypes DEF ProjectAttempt, FileName
<1>7. ASSUME NEW p \in Proc, ProjectTask(p) PROVE TypeOK'
  <2>1. TaskIn(Ended(proc[p].d)) \in TaskType
    BY DEF TaskIn, TaskType, Ended
  <2> QED
    BY <1>5, <1>7, <2>1, ProjectTypes DEF ProjectTask, FileName
<1>8. ASSUME NEW p \in Proc, ProjectRequirement(p) PROVE TypeOK'
  <2>1. proc' \in [Proc -> ProcType]
    BY <1>0, <1>8, GoesTypes DEF ProjectRequirement, Label
  <2> QED
    BY <1>8, <2>1 DEF ProjectRequirement, TypeOK, logs
<1>9. ASSUME NEW p \in Proc, NEW from \in Inside, NEW next \in Label,
             NEW type \in {"SUPERVISOR_DECISION", "PAUSE_AFTER_CURRENT_APPLIED"},
             LogEvent(p, from, type, next)
      PROVE  TypeOK'
  <2>1. proc' \in [Proc -> ProcType]
    BY <1>0, <1>9, GoesTypes DEF LogEvent
  <2>2. Event(p, type) \in EventType
    BY <1>9 DEF LogEvent, Agreed, Event, EventType, Inside
  <2>3. eventLog' \in Seq(EventType)
    BY <1>0, <1>9, <2>2, AppendOccurs DEF LogEvent
  <2> QED
    BY <1>9, <2>1, <2>3 DEF LogEvent, TypeOK
<1>10. ASSUME NEW p \in Proc, NEW from \in Inside, NEW next \in Label,
              NEW type \in {"SUPERVISOR_DECISION", "PAUSE_AFTER_CURRENT_APPLIED"},
              FileEvent(p, from, type, next)
       PROVE  TypeOK'
  <2>1. proc' \in [Proc -> ProcType]
    BY <1>0, <1>10, GoesTypes DEF FileEvent
  <2>2. Event(p, type) \in EventType
    BY <1>10 DEF FileEvent, Agreed, Event, EventType, Inside
  <2> QED
    BY <1>10, <2>1, <2>2 DEF FileEvent, TypeOK
<1>11. ASSUME NEW p \in Proc, ProjectState(p) PROVE TypeOK'
  <2>1. Released(p) \in StateType
    BY <1>0 DEF Released, StateType, PauseType, ProcType
  <2> QED
    BY <1>0, <1>11, <2>1, ProjectTypes DEF ProjectState, FileName
<1>12. ASSUME NEW p \in Proc, proc[p].pc = "swap", Swap(p)
       PROVE  file' \in Files /\ file'.attempt.evaluation \in {None, evaluation}
  <2>1. CASE proc[p].file = "attempt" /\ proc[p].new \in AttemptType
             /\ proc[p].new.evaluation = evaluation
    BY <1>0, <1>12, <2>1 DEF Swap, Files
  <2>2. CASE proc[p].file = "task" /\ proc[p].new \in TaskType
    BY <1>0, <1>12, <2>2 DEF Swap, Files, TypeOK
  <2>3. CASE proc[p].file = "state" /\ proc[p].new \in StateType
    BY <1>0, <1>12, <2>3 DEF Swap, Files, TypeOK
  <2> QED
    BY <1>12, <2>1, <2>2, <2>3 DEF SwapsFollow
<1>13. ASSUME NEW p \in Proc, CasSwap(p) PROVE TypeOK'
  <2>1. proc[p].file \in FileName
    BY <1>13 DEF CasSwap, SwapsFollow, FileName
  <2>2. After[proc[p].file] \in Label
    BY <2>1 DEF After, FileName, Label
  <2>3. proc' \in [Proc -> ProcType]
    BY <1>0, <1>13, <2>2 DEF CasSwap, GoesWith, ProcType, Label
  <2> QED
    BY <1>12, <1>13, <2>3 DEF CasSwap, TypeOK, logs
<1>14. ASSUME NEW p \in Proc, ReadPause(p) PROVE TypeOK'
  <2>1. proc' \in [Proc -> ProcType] /\ locked' \in BOOLEAN
    BY <1>0, <1>14, ProcTypes, GoesTypes DEF ReadPause, Returns, TypeOK, Label
  <2> QED
    BY <1>14, <2>1 DEF ReadPause, TypeOK, logs
<1>15. ASSUME NEW p \in Proc, Return(p) PROVE TypeOK'
  BY <1>0, <1>15, ProcTypes DEF Return, Returns, TypeOK, logs
<1>16. ASSUME NEW p \in Proc, Die(p) PROVE TypeOK'
  <2>1. proc' \in [Proc -> ProcType] /\ locked' \in BOOLEAN
    BY <1>0, <1>16, ProcTypes DEF Die, Returns, TypeOK
  <2>2. spent' \in [command : 0..MaxCommands, death : 0..MaxDeaths]
    BY <1>16 DEF Die, TypeOK
  <2>3. file' \in Files /\ file'.attempt.evaluation \in {None, evaluation}
    BY <1>0, <1>12, <1>16 DEF Die, TypeOK
  <2> QED
    BY <1>16, <2>1, <2>2, <2>3 DEF Die, TypeOK, logs
<1>17. ASSUME WorkerStep \/ FailureStep PROVE TypeOK'
  BY <1>17, WorkerWrites DEF TypeOK, aside, logs, Names
<1>18. ASSUME ReadForPause \/ ReadForResume \/ ReadForConsume PROVE TypeOK'
  <2>1. op' \in OpType
    <3>1. CASE ReadForPause
      <4>1. PICK afterCurrent \in BOOLEAN :
               LET after == /\ afterCurrent /\ file.state.active
                            /\ file.attempt.state = "running"
               IN op' = [pc |-> "pause", after |-> after,
                         paused |-> file.state.paused \/ ~after, state |-> None]
        BY <3>1 DEF ReadForPause, Command
      <4> DEFINE after == /\ afterCurrent /\ file.state.active
                          /\ file.attempt.state = "running"
                 paused == file.state.paused \/ ~after
      <4>2. after \in BOOLEAN /\ paused \in BOOLEAN
        OBVIOUS
      <4>3. op' = [pc |-> "pause", after |-> after, paused |-> paused,
                   state |-> None]
        BY <4>1
      <4> HIDE DEF after, paused
      <4> QED
        BY <4>2, <4>3 DEF OpType
    <3>2. CASE ReadForResume
      BY <1>0, <3>2 DEF ReadForResume, Command, ToWrite, OpType, StateType, PauseType,
                        NoPause, Decision
    <3>3. CASE ReadForConsume
      BY <1>0, <3>3 DEF ReadForConsume, Command, ToWrite, OpType
    <3> QED
      BY <1>18, <3>1, <3>2, <3>3
  <2>2. spent' \in [command : 0..MaxCommands, death : 0..MaxDeaths]
    BY <1>18 DEF ReadForPause, ReadForResume, ReadForConsume, Command, TypeOK
  <2> QED
    BY <1>18, <2>1, <2>2 DEF ReadForPause, ReadForResume, ReadForConsume, Command,
                             TypeOK, aside, logs
<1>19. ASSUME MergePause \/ Consume \/ WriteState \/ Deliver PROVE TypeOK'
  <2>1. CASE MergePause
    BY <1>0, <2>1 DEF MergePause, ToWrite, OpIdle, OpType, StateType, PauseType,
                      Decision, TypeOK, aside, logs
  <2>2. CASE Consume
    BY <1>0, <2>2 DEF Consume, OpType, TypeOK, aside, logs
  <2>3. CASE WriteState
    BY <1>0, <2>3 DEF WriteState, OpIdle, OpType, Files, WritesFollow, TypeOK, aside,
                      logs
  <2>4. CASE Deliver
    BY <2>4 DEF Deliver, TypeOK, aside, logs
  <2> QED
    BY <1>19, <2>1, <2>2, <2>3, <2>4
<1>20. CASE UNCHANGED vars
  BY <1>20 DEF vars, logs, TypeOK
<1> QED
  BY <1>1, <1>2, <1>3, <1>4, <1>6, <1>7, <1>8, <1>9, <1>10, <1>11, <1>13, <1>14,
     <1>15, <1>16, <1>17, <1>18, <1>19, <1>20
  DEF Next, EvaluateStep, CommandStep, Inside, Label

(***************************************************************************)
(* The lock and the decision                                               *)
(***************************************************************************)
\* Steps that leave the evaluations alone.
Elsewhere == UNCHANGED <<evaluation, logs, requirement, locked, casLock, proc>>

\* The worker and the commands leave the evaluations alone.
LEMMA OthersElsewhere ==
  ASSUME Others \/ UNCHANGED vars
  PROVE  Elsewhere
<1>1. CASE WorkerStep
  BY <1>1 DEF WorkerStep, Finish, AwaitSupervisor, WriteAttempt, SeePause, Update,
              Settled, Settle, Enqueue, WorkerGoes, aside, Elsewhere
<1>2. CASE FailureStep
  BY <1>2 DEF FailureStep, Fail, WriteAttempt, FailPaused, Settled, Settle, WorkerGoes,
              aside, Elsewhere
<1>3. CASE CommandStep \/ Deliver
  BY <1>3 DEF CommandStep, ReadForPause, MergePause, ReadForResume, ReadForConsume,
              Command, Consume, WriteState, Deliver, aside, Elsewhere
<1>4. CASE UNCHANGED vars
  BY <1>4 DEF vars, logs, Elsewhere
<1> QED
  BY <1>1, <1>2, <1>3, <1>4 DEF Others

\* What a step of an evaluation does to the processes: it is one step of one
\* process, which keeps its decision, has committed it, or ends.
Kept(p) ==
    /\ proc[p].pc \in Inside /\ proc'[p].pc \in Inside
    /\ proc'[p].d = proc[p].d
    /\ UNCHANGED <<evaluation, locked>>
Ends(p) ==
    /\ proc[p].pc # "idle" /\ proc'[p].pc = "idle"
    /\ locked' = (locked /\ proc[p].pc \in {"commit", "lock"})
    /\ UNCHANGED evaluation
Begins(p) ==
    /\ proc[p].pc = "idle" /\ proc'[p].pc = "commit" /\ proc'[p].d \in Proc
    /\ UNCHANGED <<evaluation, locked>>
Commits(p) ==
    /\ proc[p].pc = "commit" /\ proc'[p].pc = "lock"
    /\ proc'[p].d \in Proc /\ evaluation' = proc'[p].d
    /\ evaluation # None => evaluation' = evaluation
    /\ UNCHANGED locked
Enters(p) ==
    /\ proc[p].pc = "lock" /\ proc'[p].pc = "log"
    /\ proc'[p].d = proc[p].d /\ proc[p].d = evaluation
    /\ ~locked /\ locked' = TRUE
    /\ UNCHANGED evaluation

Moves(p) ==
    /\ \A q \in Proc \ {p} : proc'[q] = proc[q]
    /\ Kept(p) \/ Ends(p) \/ Begins(p) \/ Commits(p) \/ Enters(p)

\* The forms that the steps of an evaluation are made of.
LEMMA ReturnsEnds ==
  ASSUME proc \in [Proc -> ProcType], NEW p \in Proc, proc[p].pc # "idle",
         Returns(p), UNCHANGED evaluation
  PROVE  Moves(p)
BY DEF Returns, Moves, Ends, Idle

\* Inside the lock a process that goes on keeps its decision.
LEMMA GoesKept ==
  ASSUME proc \in [Proc -> ProcType], NEW p \in Proc, NEW label \in Inside,
         proc[p].pc \in Inside, Goes(p, label), UNCHANGED <<evaluation, locked>>
  PROVE  Moves(p) /\ proc'[p].pc = label
BY DEF Goes, Moves, Kept, ProcType

\* A projection goes on, returns or begins a swap.
LEMMA ProjectMoves ==
  ASSUME proc \in [Proc -> ProcType], NEW p \in Proc, NEW name \in FileName,
         NEW new, proc[p].pc \in Inside, Project(p, name, new)
  PROVE  Moves(p)
<1>1. CASE new = file[name]
  <2>1. After[name] \in Inside
    BY DEF After, FileName, Inside
  <2> QED
    BY <1>1, <2>1, GoesKept DEF Project
<1>2. CASE new # file[name] /\ name \in casLock
  BY <1>2, ReturnsEnds DEF Project, Inside
<1>3. CASE new # file[name] /\ name \notin casLock
  BY <1>3 DEF Project, Moves, Kept, Inside
<1> QED
  BY <1>1, <1>2, <1>3

\* Every step of an evaluation, and every death, is one of these.
LEMMA EvaluationMoves ==
  ASSUME IInv, NEW p \in Proc, EvaluateStep(p) \/ Die(p)
  PROVE  Moves(p)
<1>0. proc \in [Proc -> ProcType] /\ evaluation \in Decision
  BY DEF IInv, TypeOK
<1>1. CASE Decide(p)
  <2>1. (IF evaluation = None THEN p ELSE evaluation) \in Proc
    BY <1>0 DEF Decision
  <2> QED
    BY <1>0, <1>1, <2>1 DEF Decide, GoesWith, Moves, Begins
<1>2. CASE Commit(p)
  <2>1. proc[p].d \in Proc
    BY <1>2 DEF Commit, IInv, Agreed
  <2>2. evaluation' \in Proc /\ (evaluation # None => evaluation' = evaluation)
        /\ GoesWith(p, "lock", evaluation')
    BY <1>0, <1>2, <2>1 DEF Commit, Decision
  <2> QED
    BY <1>0, <1>2, <2>2 DEF Commit, GoesWith, Moves, Commits
<1>3. CASE Lock(p)
  <2>1. CASE locked \/ evaluation # proc[p].d
    BY <1>0, <1>3, <2>1, ReturnsEnds DEF Lock
  <2>2. CASE ~locked /\ evaluation = proc[p].d
    BY <1>0, <1>3, <2>2 DEF Lock, Goes, Moves, Enters, ProcType
  <2> QED
    BY <2>1, <2>2
<1>4. CASE LogDecision(p)
  BY <1>0, <1>4, GoesKept DEF LogDecision, Inside
<1>5. CASE ProjectAttempt(p)
  BY <1>0, <1>5, ProjectMoves, ReturnsEnds
  DEF ProjectAttempt, Conflict, FileName, Inside
<1>6. CASE ProjectTask(p)
  BY <1>0, <1>6, ProjectMoves, ReturnsEnds
  DEF ProjectTask, Conflict, FileName, Inside
<1>7. CASE ProjectRequirement(p)
  BY <1>0, <1>7, GoesKept DEF ProjectRequirement, Inside
<1>8. ASSUME NEW from \in Inside, NEW type, NEW next \in Inside,
             LogEvent(p, from, type, next) \/ FileEvent(p, from, type, next)
      PROVE  Moves(p)
  BY <1>0, <1>8, GoesKept DEF LogEvent, FileEvent
<1>9. CASE ProjectState(p)
  BY <1>0, <1>9, ProjectMoves DEF ProjectState, FileName, Inside
<1>10. CASE CasSwap(p)
  <2>1. proc[p].file \in FileName
    BY <1>10 DEF CasSwap, IInv, SwapsFollow, FileName
  <2>2. After[proc[p].file] \in Inside
    BY <2>1 DEF After, FileName, Inside
  <2> QED
    BY <1>0, <1>10, <2>2 DEF CasSwap, GoesWith, Moves, Kept, Inside
<1>11. CASE ReadPause(p)
  BY <1>0, <1>11, GoesKept, ReturnsEnds DEF ReadPause, Inside
<1>12. CASE Return(p)
  BY <1>0, <1>12, ReturnsEnds DEF Return
<1>13. CASE Die(p)
  BY <1>0, <1>13, ReturnsEnds DEF Die
<1> QED
  BY <1>1, <1>2, <1>3, <1>4, <1>5, <1>6, <1>7, <1>8, <1>9, <1>10, <1>11, <1>12, <1>13
  DEF EvaluateStep, Inside

\* A step of Next is one of an evaluation, or leaves the evaluations alone.
LEMMA Steps ==
  ASSUME IInv, [Next]_vars
  PROVE  Elsewhere \/ \E p \in Proc : (EvaluateStep(p) \/ Die(p)) /\ Moves(p)
BY EvaluationMoves, OthersElsewhere DEF Next, Others

\* Only one is inside, with the committed decision.
LEMMA AgreedPreserved == IInv /\ [Next]_vars => Exclusive' /\ Agreed'
<1> SUFFICES ASSUME IInv, [Next]_vars PROVE Exclusive' /\ Agreed'
  OBVIOUS
<1>1. CASE Elsewhere
  BY <1>1 DEF Elsewhere, IInv, Exclusive, Agreed
<1>2. ASSUME NEW p \in Proc, Moves(p) PROVE Exclusive' /\ Agreed'
  <2>1. Exclusive /\ Agreed /\ None \notin Proc
    BY DEF IInv
  <2>2. CASE Kept(p)
    BY <1>2, <2>1, <2>2 DEF Moves, Kept, Exclusive, Agreed, Inside
  <2>3. CASE Ends(p)
    <3>1. proc[p].pc \in Inside \/ proc[p].pc \in {"commit", "lock"}
      BY <2>3 DEF Ends, IInv, TypeOK, ProcType, Inside
    <3>2. ASSUME NEW q \in Proc, proc'[q].pc \in Inside
          PROVE  proc'[q] = proc[q] /\ proc[p].pc \notin Inside /\ locked'
      BY <1>2, <2>1, <2>3, <3>1, <3>2 DEF Moves, Ends, Exclusive, Inside
    <3> QED
      BY <1>2, <2>1, <2>3, <3>2 DEF Moves, Ends, Exclusive, Agreed, Inside
  <2>4. CASE Begins(p)
    BY <1>2, <2>1, <2>4 DEF Moves, Begins, Exclusive, Agreed, Inside
  <2>5. CASE Commits(p)
    BY <1>2, <2>1, <2>5 DEF Moves, Commits, Exclusive, Agreed, Inside
  <2>6. CASE Enters(p)
    BY <1>2, <2>1, <2>6 DEF Moves, Enters, Exclusive, Agreed, Inside
  <2> QED
    BY <1>2, <2>2, <2>3, <2>4, <2>5, <2>6 DEF Moves
<1> QED
  BY <1>1, <1>2, Steps

(***************************************************************************)
(* The logs                                                                *)
(***************************************************************************)
\* In the lock the decision log holds the decision, or nothing.
LEMMA DecisionLoggedPreserved == IInv /\ [Next]_vars => DecisionLogged'
<1> SUFFICES ASSUME IInv, [Next]_vars PROVE DecisionLogged'
  OBVIOUS
<1>0. /\ DecisionLogged /\ Exclusive /\ Agreed /\ None \notin Proc
      /\ proc \in [Proc -> ProcType] /\ evaluation \in Decision
  BY DEF IInv, TypeOK
<1>1. CASE Elsewhere
  BY <1>0, <1>1 DEF Elsewhere, logs, DecisionLogged
<1>2. ASSUME NEW p \in Proc, LogDecision(p) PROVE DecisionLogged'
  <2>1. proc[p].pc = "log" /\ proc[p].d = evaluation /\ evaluation \in Proc
    BY <1>0, <1>2 DEF LogDecision, Agreed, Inside
  <2>2. decisionLog' = <<evaluation>>
    <3>1. CASE decisionLog = <<>>
      <4>1. ~Occurs(evaluation, <<>>)
        BY DEF Occurs
      <4>2. Append(<<>>, evaluation) = <<evaluation>>
        OBVIOUS
      <4> QED
        BY <1>2, <2>1, <3>1, <4>1, <4>2 DEF LogDecision
    <3>2. CASE decisionLog = <<evaluation>>
      <4>1. Occurs(evaluation, <<evaluation>>)
        BY DEF Occurs
      <4> QED
        BY <1>2, <2>1, <3>2, <4>1 DEF LogDecision
    <3> QED
      BY <1>0, <3>1, <3>2 DEF DecisionLogged
  <2>3. evaluation' = evaluation
    BY <1>2 DEF LogDecision
  <2> QED
    BY <1>0, <2>1, <2>2, <2>3 DEF DecisionLogged
<1>3. ASSUME NEW p \in Proc, Moves(p), UNCHANGED decisionLog,
             proc[p].pc # "log" \/ proc'[p].pc \notin Inside
      PROVE  DecisionLogged'
  <2>1. CASE evaluation' = evaluation
    <3>1. \A q \in Proc : proc'[q].pc \in Inside \ {"log"} =>
                             proc[q].pc \in Inside \ {"log"}
      BY <1>0, <1>3, <2>1 DEF Moves, Kept, Ends, Begins, Commits, Enters, Inside
    <3> QED
      BY <1>0, <1>3, <2>1, <3>1 DEF DecisionLogged
  <2>2. CASE evaluation' # evaluation
    <3>1. Commits(p) /\ evaluation = None
      BY <1>3, <2>2 DEF Moves, Kept, Ends, Begins, Commits, Enters
    <3>2. \A q \in Proc : proc[q].pc \notin Inside
      BY <1>0, <3>1 DEF Agreed, Inside
    <3>3. \A q \in Proc : proc'[q].pc \notin Inside
      BY <1>3, <3>1, <3>2 DEF Moves, Commits, Inside
    <3>4. decisionLog' = <<>>
      BY <1>0, <1>3, <3>1 DEF DecisionLogged
    <3> QED
      BY <3>3, <3>4 DEF DecisionLogged
  <2> QED
    BY <2>1, <2>2
<1>4. ASSUME NEW p \in Proc, EvaluateStep(p) \/ Die(p), ~LogDecision(p)
      PROVE  /\ UNCHANGED decisionLog
             /\ proc[p].pc # "log" \/ proc'[p].pc \notin Inside
  BY <1>0, <1>4
  DEF EvaluateStep, Decide, Commit, Lock, ProjectAttempt, ProjectTask, Conflict,
      Project, ProjectRequirement, LogEvent, FileEvent, ProjectState, CasSwap,
      ReadPause, Return, Die, Returns, Idle, Inside, logs
<1> QED
  BY <1>1, <1>2, <1>3, <1>4, Steps

\* One entry more, if it was not there: all that holds of the entries still does.
LEMMA LogEventKeeps ==
  ASSUME IInv, NEW p \in Proc, NEW from \in Inside, NEW next,
         NEW type \in {"SUPERVISOR_DECISION", "PAUSE_AFTER_CURRENT_APPLIED"},
         LogEvent(p, from, type, next)
  PROVE  /\ evaluation # None /\ proc[p].d = evaluation
         /\ \A i \in DOMAIN eventLog' : eventLog'[i].decision = evaluation
         /\ \A i, j \in DOMAIN eventLog' :
               eventLog'[i].type = eventLog'[j].type => i = j
         /\ \A e : Occurs(e, eventLog) => Occurs(e, eventLog')
         /\ Occurs(Event(p, type), eventLog')
<1> DEFINE e == [type |-> type, decision |-> evaluation]
<1>1. /\ eventLog \in Seq(EventType) /\ None \notin Proc
      /\ \A i \in DOMAIN eventLog : eventLog[i].decision = evaluation
      /\ \A i, j \in DOMAIN eventLog : eventLog[i].type = eventLog[j].type => i = j
  BY DEF IInv, TypeOK, EventsLogged
<1>2. proc[p].pc = from /\ proc[p].d = evaluation /\ evaluation \in Proc
  BY DEF LogEvent, IInv, Agreed, Inside
<1>3. Event(p, type) = e /\ e \in EventType
  BY <1>2 DEF Event, EventType
<1>4. CASE Occurs(e, eventLog)
  BY <1>1, <1>2, <1>3, <1>4 DEF LogEvent
<1>5. CASE ~Occurs(e, eventLog)
  <2>1. eventLog' = Append(eventLog, e)
    BY <1>3, <1>5 DEF LogEvent
  <2> HIDE DEF e
  <2>2. /\ DOMAIN eventLog = 1..Len(eventLog) /\ Len(eventLog) \in Nat
        /\ DOMAIN eventLog' = 1..(Len(eventLog) + 1)
        /\ eventLog'[Len(eventLog) + 1] = e
        /\ \A i \in 1..Len(eventLog) : eventLog'[i] = eventLog[i]
    BY <1>1, <1>3, <2>1
  <2>3. e.decision = evaluation /\ e.type = type
    BY DEF e
  <2>4. \A i \in DOMAIN eventLog : eventLog[i].type # type
    <3> SUFFICES ASSUME NEW i \in DOMAIN eventLog, eventLog[i].type = type
                 PROVE  FALSE
      OBVIOUS
    <3>1. eventLog[i] \in EventType
      BY <1>1
    <3>2. eventLog[i] = e
      BY <1>1, <3>1 DEF EventType, e
    <3> QED
      BY <1>5, <3>2 DEF Occurs
  <2>5. \A i \in DOMAIN eventLog' : eventLog'[i].decision = evaluation
    BY <1>1, <2>2, <2>3
  <2>6. \A i, j \in DOMAIN eventLog' : eventLog'[i].type = eventLog'[j].type => i = j
    BY <1>1, <2>2, <2>3, <2>4
  <2>7. \A x : Occurs(x, eventLog) => Occurs(x, eventLog')
    BY <2>2 DEF Occurs
  <2>8. Occurs(e, eventLog')
    BY <2>2 DEF Occurs
  <2> QED
    BY <1>2, <1>3, <2>5, <2>6, <2>7, <2>8
<1> QED
  BY <1>4, <1>5


\* Entries stay, and a decision with an entry stays as it is.
LEMMA EntriesStay ==
  ASSUME IInv, [Next]_vars
  PROVE  /\ \A e : Occurs(e, eventLog) => Occurs(e, eventLog')
         /\ Judged => Judged' /\ evaluation' = evaluation
         /\ \A ending : Logged(ending) => Logged(ending)'
         /\ evaluation # None => evaluation' = evaluation
<1>0. None \notin Proc /\ EventsLogged /\ proc \in [Proc -> ProcType]
  BY DEF IInv, TypeOK
<1>1. evaluation # None => evaluation' = evaluation
  BY Steps DEF Elsewhere, Moves, Kept, Ends, Begins, Commits, Enters
<1>2. \A e : Occurs(e, eventLog) => Occurs(e, eventLog')
  <2>1. ASSUME NEW p \in Proc, EvaluateStep(p) \/ Die(p)
        PROVE  \/ UNCHANGED eventLog
               \/ LogEvent(p, "event", "SUPERVISOR_DECISION", "eventFile")
               \/ LogEvent(p, "pauseEvent", "PAUSE_AFTER_CURRENT_APPLIED", "pauseFile")
    BY <2>1
    DEF EvaluateStep, Decide, Commit, Lock, LogDecision, ProjectAttempt, ProjectTask,
        Conflict, Project, ProjectRequirement, FileEvent, ProjectState, CasSwap,
        ReadPause, Return, Die, logs
  <2>2. CASE UNCHANGED eventLog
    BY <2>2
  <2>3. ASSUME NEW p \in Proc,
               \/ LogEvent(p, "event", "SUPERVISOR_DECISION", "eventFile")
               \/ LogEvent(p, "pauseEvent", "PAUSE_AFTER_CURRENT_APPLIED", "pauseFile")
        PROVE  \A e : Occurs(e, eventLog) => Occurs(e, eventLog')
    BY <2>3, LogEventKeeps DEF Inside
  <2> QED
    BY <2>1, <2>2, <2>3, Steps DEF Elsewhere, logs
<1>3. Judged => Judged' /\ evaluation' = evaluation
  <2> SUFFICES ASSUME Judged PROVE Judged' /\ evaluation' = evaluation
    OBVIOUS
  <2>1. evaluation # None
    BY <1>0 DEF Judged, Occurs, EventsLogged
  <2>2. evaluation' = evaluation
    BY <1>1, <2>1
  <2>3. Judgement' = Judgement
    BY <2>2 DEF Judgement
  <2> QED
    BY <1>2, <2>2, <2>3 DEF Judged
<1>4. \A ending : Logged(ending) => Logged(ending)'
  <2>1. Logged("ACCEPTED") \/ Logged("REJECTED") \/ TRUE
    OBVIOUS
  <2>2. ASSUME NEW ending, Logged(ending) PROVE Logged(ending)'
    <3>1. decisionLog = <<evaluation>> /\ evaluation # None
      BY <2>2 DEF Logged, IInv, DecisionLogged
    <3>2. decisionLog' = <<evaluation>>
      <4>1. evaluation' = evaluation
        BY <1>1, <3>1
      <4>2. UNCHANGED decisionLog \/ \E p \in Proc : LogDecision(p)
        BY Steps
        DEF EvaluateStep, Decide, Commit, Lock, ProjectAttempt, ProjectTask,
            Conflict, Project, ProjectRequirement, LogEvent, FileEvent, ProjectState,
            CasSwap, ReadPause, Return, Die, logs, Elsewhere
      <4>3. ASSUME NEW p \in Proc, LogDecision(p) PROVE UNCHANGED decisionLog
        <5>1. proc[p].d = evaluation
          BY <4>3 DEF LogDecision, IInv, Agreed, Inside
        <5>2. Occurs(evaluation, <<evaluation>>)
          BY DEF Occurs
        <5> QED
          BY <3>1, <4>3, <5>1, <5>2 DEF LogDecision
      <4> QED
        BY <3>1, <4>2, <4>3
    <3> QED
      BY <2>2, <3>1, <3>2 DEF Logged
  <2> QED
    BY <2>2
<1> QED
  BY <1>1, <1>2, <1>3, <1>4

\* The event log has nothing but the decision, once per type.
LEMMA EventsLoggedPreserved == IInv /\ [Next]_vars => EventsLogged'
<1> SUFFICES ASSUME IInv, [Next]_vars PROVE EventsLogged'
  OBVIOUS
<1>0. /\ EventsLogged /\ Exclusive /\ Agreed /\ None \notin Proc
      /\ proc \in [Proc -> ProcType]
  BY DEF IInv, TypeOK
<1> DEFINE Entries ==
             /\ \A i \in DOMAIN eventLog :
                   eventLog[i].decision = evaluation /\ evaluation # None
             /\ \A i, j \in DOMAIN eventLog :
                   eventLog[i].type = eventLog[j].type => i = j
           Filed == \A e \in eventFile : Occurs(e, eventLog)
           Known(p) ==
             /\ proc[p].pc \in {"eventFile", "state", "pause", "pauseEvent",
                                "pauseFile", "return"} => Judged
             /\ proc[p].pc = "pauseFile" =>
                   Occurs(Event(p, "PAUSE_AFTER_CURRENT_APPLIED"), eventLog)
<1>1. EventsLogged = (Entries /\ Filed /\ \A p \in Proc : Known(p))
  BY DEF EventsLogged
<1>2. CASE Elsewhere
  BY <1>0, <1>2 DEF Elsewhere, logs, EventsLogged, Judged, Judgement, Event
<1>3. ASSUME NEW p \in Proc, EvaluateStep(p) \/ Die(p), Moves(p)
      PROVE  EventsLogged'
  <2>1. \A q \in Proc \ {p} : Known(q)'
    <3> SUFFICES ASSUME NEW q \in Proc \ {p} PROVE Known(q)'
      OBVIOUS
    <3>1. proc'[q] = proc[q]
      BY <1>3 DEF Moves
    <3>2. Known(q)
      BY <1>0, <1>1
    <3>3. Event(q, "PAUSE_AFTER_CURRENT_APPLIED")' =
             Event(q, "PAUSE_AFTER_CURRENT_APPLIED")
      BY <3>1 DEF Event
    <3> QED
      BY <3>1, <3>2, <3>3, EntriesStay
  <2>2. ASSUME NEW type \in {"SUPERVISOR_DECISION", "PAUSE_AFTER_CURRENT_APPLIED"},
               NEW from \in {"event", "pauseEvent"},
               NEW next \in {"eventFile", "pauseFile"},
               LogEvent(p, from, type, next),
               type = "SUPERVISOR_DECISION" <=> from = "event",
               from = "event" <=> next = "eventFile"
        PROVE  EventsLogged'
    <3>1. /\ evaluation # None /\ proc[p].d = evaluation
          /\ \A i \in DOMAIN eventLog' : eventLog'[i].decision = evaluation
          /\ \A i, j \in DOMAIN eventLog' :
                eventLog'[i].type = eventLog'[j].type => i = j
          /\ \A e : Occurs(e, eventLog) => Occurs(e, eventLog')
          /\ Occurs(Event(p, type), eventLog')
      BY <2>2, LogEventKeeps DEF Inside
    <3>2. UNCHANGED <<evaluation, eventFile>> /\ proc[p].pc = from
          /\ proc'[p].pc = next /\ proc'[p].d = proc[p].d
      BY <1>0, <2>2 DEF LogEvent, Goes, ProcType
    <3>3. Entries' /\ Filed'
      BY <1>0, <1>1, <3>1, <3>2
    <3>4. Event(p, type)' = Event(p, type)
      BY <3>2 DEF Event
    <3>5. Judged'
      <4>1. CASE type = "SUPERVISOR_DECISION"
        <5>1. Judgement' = Event(p, type)
          BY <3>1, <3>2, <4>1 DEF Judgement, Event
        <5> QED
          BY <3>1, <5>1 DEF Judged
      <4>2. CASE from = "pauseEvent"
        BY <1>0, <1>1, <3>2, <4>2, EntriesStay
      <4> QED
        BY <2>2, <4>1, <4>2
    <3>6. Known(p)'
      BY <2>2, <3>1, <3>2, <3>4, <3>5
    <3> QED
      BY <1>1, <2>1, <3>3, <3>6 DEF EventsLogged
  <2>3. ASSUME UNCHANGED eventLog, Filed', Known(p)' PROVE EventsLogged'
    <3>1. Entries'
      BY <1>0, <1>1, <2>3, EntriesStay
    <3> QED
      BY <2>1, <2>3, <3>1 DEF EventsLogged
  <2>4. ASSUME NEW type \in {"SUPERVISOR_DECISION", "PAUSE_AFTER_CURRENT_APPLIED"},
               NEW from \in {"eventFile", "pauseFile"},
               NEW next \in {"state", "return"},
               FileEvent(p, from, type, next),
               type = "SUPERVISOR_DECISION" <=> from = "eventFile"
        PROVE  EventsLogged'
    <3>1. /\ proc[p].pc = from /\ proc'[p].pc = next /\ UNCHANGED eventLog
          /\ eventFile' = eventFile \cup {Event(p, type)}
      BY <1>0, <2>4 DEF FileEvent, Goes, ProcType
    <3>2. Judged /\ proc[p].d = evaluation
      BY <1>0, <1>1, <3>1 DEF Agreed, Inside
    <3>3. Occurs(Event(p, type), eventLog)
      <4>1. CASE from = "eventFile"
        <5>1. Event(p, type) = Judgement
          BY <2>4, <3>2, <4>1 DEF Event, Judgement
        <5> QED
          BY <3>2, <5>1 DEF Judged
      <4>2. CASE from = "pauseFile"
        BY <1>0, <1>1, <2>4, <3>1, <4>2
      <4> QED
        BY <4>1, <4>2
    <3>4. Filed'
      BY <1>0, <1>1, <3>1, <3>3
    <3>5. Known(p)'
      BY <3>1, <3>2, EntriesStay
    <3> QED
      BY <2>3, <3>1, <3>4, <3>5
  <2>5. ASSUME UNCHANGED <<eventLog, eventFile>>,
               \/ proc'[p].pc \notin {"eventFile", "state", "pause", "pauseEvent",
                                      "pauseFile", "return"}
               \/ Judged /\ proc'[p].pc # "pauseFile"
        PROVE  EventsLogged'
    <3>1. Filed'
      BY <1>0, <1>1, <2>5
    <3>2. Known(p)'
      BY <2>5, EntriesStay
    <3> QED
      BY <2>3, <2>5, <3>1, <3>2
  <2>6. CASE Decide(p) \/ Commit(p) \/ Lock(p) \/ LogDecision(p) \/ Return(p) \/ Die(p)
    BY <1>0, <2>5, <2>6
    DEF Decide, GoesWith, Commit, Lock, LogDecision, Return, Die, Returns, Goes, Idle,
        ProcType, logs
  <2>7. CASE ProjectAttempt(p) \/ ProjectTask(p)
    <3>1. proc'[p].pc \in {"idle", "swap", "task", "requirement"}
      BY <1>0, <2>7
      DEF ProjectAttempt, ProjectTask, Conflict, Project, Returns, Goes, After, Idle,
          ProcType
    <3> QED
      BY <2>5, <2>7, <3>1 DEF ProjectAttempt, ProjectTask, Conflict, Project, logs
  <2>8. CASE ProjectRequirement(p)
    BY <1>0, <2>5, <2>8 DEF ProjectRequirement, Goes, ProcType, logs
  <2>9. CASE ProjectState(p)
    <3>1. Judged
      BY <1>0, <1>1, <2>9 DEF ProjectState
    <3>2. proc'[p].pc \in {"idle", "swap", "pause"}
      BY <1>0, <2>9 DEF ProjectState, Project, Returns, Goes, After, Idle, ProcType
    <3> QED
      BY <2>5, <2>9, <3>1, <3>2 DEF ProjectState, Project, logs
  <2>10. CASE CasSwap(p)
    <3>1. \/ proc'[p].pc \in {"task", "requirement"}
          \/ proc'[p].pc = "pause" /\ Judged
      BY <1>0, <2>10 DEF CasSwap, GoesWith, IInv, SwapsFollow, After
    <3> QED
      BY <2>5, <2>10, <3>1 DEF CasSwap, logs
  <2>11. CASE ReadPause(p)
    <3>1. Judged
      BY <1>0, <1>1, <2>11 DEF ReadPause
    <3>2. proc'[p].pc \in {"idle", "pauseEvent"}
      BY <1>0, <2>11 DEF ReadPause, Returns, Goes, Idle, ProcType
    <3> QED
      BY <2>5, <2>11, <3>1, <3>2 DEF ReadPause, logs
  <2> QED
    BY <1>3, <2>2, <2>4, <2>6, <2>7, <2>8, <2>9, <2>10, <2>11 DEF EvaluateStep
<1> QED
  BY <1>2, <1>3, Steps

(***************************************************************************)
(* The files                                                               *)
(***************************************************************************)
\* What is justified or backed remains so.
LEMMA FollowStays ==
  ASSUME IInv, [Next]_vars
  PROVE  /\ \A x : Justified(x) => Justified(x)'
         /\ \A x : Backed(x) => Backed(x)'
BY EntriesStay DEF Justified, Backed

\* In the lock, after its entry, the decision of an evaluation is logged.
LEMMA OwnDecisionLogged ==
  ASSUME IInv, NEW p \in Proc, proc[p].pc \in Inside \ {"log"}
  PROVE  proc[p].d = evaluation /\ Logged(Ended(proc[p].d))
<1>1. proc[p].d = evaluation /\ decisionLog = <<evaluation>>
  BY DEF IInv, Agreed, DecisionLogged
<1> QED
  BY <1>1 DEF Logged

\* A swap writes what follows the decision.
LEMMA SwapFollows ==
  ASSUME IInv, NEW p \in Proc, proc[p].pc = "swap", Swap(p)
  PROVE  Backed(file'.task) /\ Justified(file'.state.pause)
<1>0. file \in Files /\ Backed(file.task) /\ Justified(file.state.pause)
  BY DEF IInv, TypeOK, FilesFollow
<1>1. CASE proc[p].file = "attempt"
  BY <1>0, <1>1 DEF Swap, Files
<1>2. CASE proc[p].file = "task" /\ Backed(proc[p].new)
  BY <1>0, <1>2 DEF Swap, Files
<1>3. CASE proc[p].file = "state" /\ Justified(proc[p].new.pause)
  BY <1>0, <1>3 DEF Swap, Files
<1> QED
  BY <1>1, <1>2, <1>3 DEF IInv, SwapsFollow

\* A swap begins with content that follows the decision.
LEMMA SwapsFollowPreserved ==
  ASSUME IInv, [Next]_vars, NEW p \in Proc, EvaluateStep(p) \/ Die(p), Moves(p)
  PROVE  SwapsFollow'
<1>0. /\ proc \in [Proc -> ProcType] /\ file \in Files /\ SwapsFollow /\ FilesFollow
      /\ file.attempt \in AttemptType /\ file.state \in StateType
      /\ None \notin Proc
  BY DEF IInv, TypeOK, Files
<1> DEFINE Good(q) ==
      proc[q].pc = "swap" =>
        \/ /\ proc[q].file = "attempt" /\ proc[q].new \in AttemptType
           /\ proc[q].new.evaluation = evaluation
        \/ /\ proc[q].file = "task" /\ proc[q].new \in TaskType
           /\ Backed(proc[q].new)
        \/ /\ proc[q].file = "state" /\ proc[q].new \in StateType
           /\ Justified(proc[q].new.pause) /\ Judged
<1>1. ASSUME NEW q \in Proc, q # p PROVE Good(q)'
  <2>1. proc'[q] = proc[q] /\ Good(q)
    BY <1>0, <1>1 DEF Moves, SwapsFollow
  <2>2. CASE proc[q].pc # "swap"
    BY <2>1, <2>2
  <2>3. CASE proc[q].pc = "swap"
    <3>1. evaluation # None
      BY <2>3 DEF IInv, Agreed, Inside
    <3>2. evaluation' = evaluation
      BY <3>1, EntriesStay
    <3>3. Backed(proc[q].new) => Backed(proc[q].new)'
      BY <2>1, FollowStays DEF Backed
    <3>4. Justified(proc[q].new.pause) => Justified(proc[q].new.pause)'
      BY <2>1, FollowStays DEF Justified
    <3> QED
      BY <2>1, <2>3, <3>2, <3>3, <3>4, EntriesStay
  <2> QED
    BY <2>2, <2>3
<1>2. CASE proc'[p].pc # "swap"
  BY <1>1, <1>2 DEF SwapsFollow
<1>3. ASSUME NEW name \in FileName, NEW new, Project(p, name, new),
             proc'[p].pc = "swap"
      PROVE  proc'[p].file = name /\ proc'[p].new = new /\ new # file[name]
             /\ UNCHANGED <<evaluation, logs>>
  <2>1. CASE new = file[name]
    BY <1>0, <1>3, <2>1 DEF Project, Goes, After, FileName, ProcType
  <2>2. CASE new # file[name] /\ name \in casLock
    BY <1>0, <1>3, <2>2 DEF Project, Returns, Idle
  <2>3. CASE new # file[name] /\ name \notin casLock
    BY <1>0, <1>3, <2>3 DEF Project
  <2> QED
    BY <2>1, <2>2, <2>3
<1>4. CASE ProjectAttempt(p) /\ proc'[p].pc = "swap"
  <2>1. proc[p].d = evaluation /\ proc[p].d \in Proc
    BY <1>4 DEF ProjectAttempt, IInv, Agreed, Inside
  <2> DEFINE new == [file.attempt EXCEPT !.evaluation = proc[p].d]
  <2>2. new \in AttemptType /\ new.evaluation = evaluation
    BY <1>0, <2>1 DEF AttemptType, Decision
  <2>3. Project(p, "attempt", new)
    BY <1>0, <1>4 DEF ProjectAttempt, Conflict, Returns, Idle
  <2>4. Good(p)'
    BY <1>3, <1>4, <2>2, <2>3 DEF FileName
  <2> QED
    BY <1>1, <2>4 DEF SwapsFollow
<1>5. CASE ProjectTask(p) /\ proc'[p].pc = "swap"
  <2> DEFINE new == TaskIn(Ended(proc[p].d))
  <2>1. new \in TaskType /\ Backed(new)
    <3>1. Logged(Ended(proc[p].d))
      BY <1>5, OwnDecisionLogged DEF ProjectTask, Inside
    <3> QED
      BY <3>1 DEF TaskIn, TaskType, Ended, Backed
  <2>2. Project(p, "task", new)
    BY <1>0, <1>5 DEF ProjectTask, Conflict, Returns, Idle
  <2> HIDE DEF new
  <2>3. proc'[p].file = "task" /\ proc'[p].new = new
    BY <1>3, <1>5, <2>2 DEF FileName
  <2>4. Good(p)'
    BY <2>1, <2>3, <1>3, <1>5, <2>2 DEF FileName, Backed, Logged, logs
  <2> QED
    BY <1>1, <2>4 DEF SwapsFollow
<1>6. CASE ProjectState(p) /\ proc'[p].pc = "swap"
  <2>1. proc[p].d = evaluation /\ Judged
    BY <1>6 DEF ProjectState, IInv, Agreed, EventsLogged, Inside
  <2>2. Released(p) \in StateType /\ Justified(Released(p).pause)
    BY <1>0, <2>1 DEF Released, StateType, PauseType, ProcType, Justified, FilesFollow
  <2> DEFINE new == IF file.state.active THEN Released(p) ELSE file.state
  <2>3. new \in StateType /\ Justified(new.pause)
    BY <1>0, <2>2 DEF FilesFollow
  <2>4. Project(p, "state", new)
    BY <1>6 DEF ProjectState
  <2> HIDE DEF new
  <2>5. proc'[p].file = "state" /\ proc'[p].new = new /\ UNCHANGED <<evaluation, logs>>
    BY <1>3, <1>6, <2>4 DEF FileName
  <2>6. Good(p)'
    BY <2>1, <2>3, <2>5 DEF Justified, Judged, Judgement, logs
  <2> QED
    BY <1>1, <2>6 DEF SwapsFollow
<1>7. CASE ~ProjectAttempt(p) /\ ~ProjectTask(p) /\ ~ProjectState(p)
  <2>1. proc'[p].pc # "swap"
    <3>1. CASE CasSwap(p)
      <4>1. proc[p].file \in FileName
        BY <3>1 DEF CasSwap, IInv, SwapsFollow, FileName
      <4> QED
        BY <1>0, <3>1, <4>1 DEF CasSwap, GoesWith, After, FileName
    <3>2. CASE ~CasSwap(p)
      BY <1>0, <1>7, <3>2
      DEF EvaluateStep, Decide, Commit, Lock, LogDecision, ProjectRequirement, LogEvent,
          FileEvent, ReadPause, Return, Die, Goes, GoesWith, Returns, Idle, ProcType
    <3> QED
      BY <3>1, <3>2
  <2> QED
    BY <1>2, <2>1
<1> QED
  BY <1>2, <1>4, <1>5, <1>6, <1>7

\* The same of an evaluation's steps for the files and what others will write.
LEMMA EvaluationFollows ==
  ASSUME IInv, [Next]_vars, NEW p \in Proc, EvaluateStep(p) \/ Die(p)
  PROVE  FilesFollow' /\ WritesFollow'
<1>0. FilesFollow /\ WritesFollow
  BY DEF IInv
<1>1. UNCHANGED <<worker, op>>
  BY DEF EvaluateStep, Decide, Commit, Lock, LogDecision, ProjectAttempt, ProjectTask,
         Conflict, Project, ProjectRequirement, LogEvent, FileEvent, ProjectState,
         CasSwap, ReadPause, Return, Die
<1>2. WritesFollow'
  BY <1>0, <1>1, FollowStays, EntriesStay
  DEF WritesFollow, WorkerFollows, Names, Justified
<1>3. Backed(file'.task) /\ Justified(file'.state.pause)
  <2>1. UNCHANGED file \/ (proc[p].pc = "swap" /\ Swap(p))
    BY DEF EvaluateStep, Decide, Commit, Lock, LogDecision, ProjectAttempt,
           ProjectTask, Conflict, Project, ProjectRequirement, LogEvent, FileEvent,
           ProjectState, CasSwap, ReadPause, Return, Die
  <2> QED
    BY <1>0, <2>1, SwapFollows DEF FilesFollow
<1>4. Backed(file.task)' /\ Justified(file.state.pause)'
  BY <1>3, FollowStays DEF Backed, Justified
<1>5. requirement' = "IMPLEMENTED" => Logged("ACCEPTED")
  <2>1. UNCHANGED requirement \/ ProjectRequirement(p)
    BY DEF EvaluateStep, Decide, Commit, Lock, LogDecision, ProjectAttempt,
           ProjectTask, Conflict, Project, LogEvent, FileEvent,
           ProjectState, CasSwap, ReadPause, Return, Die
  <2>2. CASE ProjectRequirement(p) /\ Accepts(proc[p].d)
    BY <2>2, OwnDecisionLogged DEF ProjectRequirement, Ended, Inside
  <2>3. CASE ProjectRequirement(p) /\ ~Accepts(proc[p].d)
    BY <1>0, <2>3 DEF ProjectRequirement, FilesFollow
  <2> QED
    BY <1>0, <2>1, <2>2, <2>3 DEF FilesFollow
<1> QED
  BY <1>2, <1>4, <1>5, EntriesStay DEF FilesFollow

\* The worker and the commands write what they read, or what is no verdict.
LEMMA OthersFollow ==
  ASSUME IInv, Elsewhere, Others \/ UNCHANGED vars
  PROVE  FilesFollow' /\ SwapsFollow' /\ WritesFollow'
<1>0. /\ FilesFollow /\ SwapsFollow /\ WritesFollow /\ file \in Files
      /\ file.state \in StateType /\ file.state.pause \in PauseType
      /\ worker \in WorkerType /\ op \in OpType
  BY DEF IInv, TypeOK, Files, StateType
<1>1. /\ \A x : Justified(x)' = Justified(x)
      /\ \A x : Backed(x)' = Backed(x)
      /\ \A x : Names(x)' = Names(x)
      /\ Judged' = Judged
  BY DEF Elsewhere, logs, Justified, Backed, Names, Logged, Judged, Judgement
<1>2. SwapsFollow'
  BY <1>0, <1>1 DEF Elsewhere, SwapsFollow, Justified, Backed
<1>3. ASSUME Backed(file'.task), Justified(file'.state.pause) PROVE FilesFollow'
  <2>1. Backed(file.task)' /\ Justified(file.state.pause)'
    BY <1>1, <1>3 DEF Backed, Justified
  <2>2. requirement' = "IMPLEMENTED" => Logged("ACCEPTED")'
    BY <1>0 DEF Elsewhere, logs, FilesFollow, Logged
  <2> QED
    BY <2>1, <2>2 DEF FilesFollow
<1>4. ASSUME WorkerFollows(worker'),
             op'.pc \in {"consume", "write"} =>
                op'.state \in StateType /\ Justified(op'.state.pause)
      PROVE  WritesFollow'
  BY <1>1, <1>4 DEF WritesFollow, WorkerFollows, Justified, Names, Elsewhere
<1>5. CASE WorkerStep \/ FailureStep
  BY <1>0, <1>2, <1>3, <1>4, <1>5, WorkerWrites DEF WritesFollow
<1>10. CASE ReadForPause \/ ReadForResume \/ ReadForConsume
  <2>1. UNCHANGED <<file, worker>>
    BY <1>10 DEF ReadForPause, ReadForResume, ReadForConsume, Command
  <2>2. op'.pc \in {"consume", "write"} => op'.state \in StateType /\ Justified(op'.state.pause)
    <3>1. CASE ReadForPause
      BY <3>1 DEF ReadForPause, Command
    <3>2. CASE ReadForResume
      BY <1>0, <3>2 DEF ReadForResume, Command, ToWrite, StateType, PauseType, NoPause,
                        Decision, Justified
    <3>3. CASE ReadForConsume
      BY <1>0, <3>3 DEF ReadForConsume, Command, ToWrite, FilesFollow
    <3> QED
      BY <1>10, <3>1, <3>2, <3>3
  <2> QED
    BY <1>0, <1>2, <1>3, <1>4, <2>1, <2>2 DEF FilesFollow, WritesFollow
<1>11. CASE MergePause
  <2> DEFINE pause == [active |-> TRUE, after |-> op.after, applied |-> None]
             new == [file.state EXCEPT !.paused = op.paused, !.pause = pause]
  <2>1. op' = ToWrite(new) /\ UNCHANGED <<file, worker>>
    BY <1>11 DEF MergePause
  <2>2. pause \in PauseType /\ Justified(pause)
    BY <1>0 DEF OpType, PauseType, Decision, Justified
  <2> HIDE DEF pause
  <2>3. new \in StateType /\ new.pause = pause
    BY <1>0, <2>2 DEF OpType, StateType
  <2> HIDE DEF new
  <2>4. op'.state \in StateType /\ Justified(op'.state.pause)
    BY <2>1, <2>2, <2>3 DEF ToWrite
  <2> QED
    BY <1>0, <1>2, <1>3, <1>4, <2>1, <2>4 DEF FilesFollow, WritesFollow
<1>12. CASE WriteState
  BY <1>0, <1>2, <1>3, <1>4, <1>12
  DEF WriteState, OpIdle, Files, FilesFollow, WritesFollow
<1>13. CASE Consume \/ Deliver
  BY <1>0, <1>2, <1>3, <1>4, <1>13
  DEF Consume, Deliver, OpType, FilesFollow, WritesFollow
<1>14. CASE UNCHANGED vars
  BY <1>0, <1>2, <1>3, <1>4, <1>14 DEF vars, FilesFollow, WritesFollow
<1> QED
  BY <1>5, <1>10, <1>11, <1>12, <1>13, <1>14 DEF Others, CommandStep

\* Every step keeps what was written, and will be, in line with the decision.
LEMMA FollowPreserved ==
  IInv /\ [Next]_vars => FilesFollow' /\ SwapsFollow' /\ WritesFollow'
BY SwapsFollowPreserved, EvaluationFollows, EvaluationMoves, OthersFollow,
   OthersElsewhere DEF Next, Others

(***************************************************************************)
(* Theorems                                                                *)
(***************************************************************************)
\* The invariant: whoever is in the lock has the committed decision, the logs
\* hold nothing else, and all that is written or will be written follows it.
THEOREM Invariance == Spec => []IInv
<1>1. IInv /\ [Next]_vars => IInv'
  BY TypePreserved, AgreedPreserved, DecisionLoggedPreserved, EventsLoggedPreserved,
     FollowPreserved DEF IInv
<1> QED
  BY InitialIInv, <1>1, PTL DEF Spec

\* Every variable has its type, and the attempt never names another decision than
\* the committed one (reconcileEvaluation of src/cli.js).
THEOREM TypeCorrect == Spec => []TypeOK
<1>1. IInv => TypeOK
  BY DEF IInv
<1> QED
  BY <1>1, Invariance, PTL

\* One decision, once in each log, for any number of evaluators and deaths.
THEOREM OneDecisionOnly == Spec => []OneDecision
<1>1. IInv => OneDecision
  <2> SUFFICES ASSUME IInv PROVE OneDecision
    OBVIOUS
  <2>1. Len(decisionLog) <= 1
    <3>1. CASE decisionLog = <<>>
      BY <3>1
    <3>2. CASE decisionLog = <<evaluation>>
      BY <3>2
    <3> QED
      BY <3>1, <3>2 DEF IInv, DecisionLogged
  <2> QED
    BY <2>1 DEF IInv, EventsLogged, OneDecision
<1> QED
  BY <1>1, Invariance, PTL

\* Verdicts, requirements and event files are there only after their log entry.
THEOREM EffectsAreLogged == Spec => []EffectsFollowDecision
<1>1. IInv => EffectsFollowDecision
  BY DEF IInv, FilesFollow, EventsLogged, Backed, EffectsFollowDecision
<1> QED
  BY <1>1, Invariance, PTL

\* No pause that waits for the attempt is applied before the evaluation, whatever
\* the worker and the commands write back.
THEOREM PausesAreLogged == Spec => []PauseFollowsEvaluation
<1>1. IInv => PauseFollowsEvaluation
  <2> SUFFICES ASSUME IInv, file.state.pause.applied # None
               PROVE  \E i \in DOMAIN eventLog :
                         /\ eventLog[i].decision = file.state.pause.applied
                         /\ eventLog[i].type = "SUPERVISOR_DECISION"
    BY DEF PauseFollowsEvaluation
  <2>1. file.state.pause.applied = evaluation /\ Judged
    BY DEF IInv, FilesFollow, Justified
  <2> QED
    BY <2>1 DEF Judged, Judgement, Occurs
<1> QED
  BY <1>1, Invariance, PTL
===============================================================================
