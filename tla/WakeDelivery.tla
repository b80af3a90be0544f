----------------------------- MODULE WakeDelivery -----------------------------
(***************************************************************************)
(* Delivery of terminal events to the supervisor: deliverWake of           *)
(* src/wakeup.js as the transient wake workers of opsled run it, the       *)
(* helper process that sends the message, and the commands that meet them  *)
(* on the same files: recover, session binding refreshes, reconciliation,  *)
(* event consumption and task evaluation.                                  *)
(*                                                                         *)
(* A worker is one process that makes one deliverWake call; it stands for  *)
(* its delivery, its transport attempt and its lease owner identity, and   *)
(* is used again only if it left no trace.  Steps are split wherever       *)
(* another process may write what the next step relies on.  A              *)
(* compare-and-swap is one step (ClaimIndex takes it apart), except that a *)
(* process that dies inside one leaves the lock directory behind.          *)
(*                                                                         *)
(* Left out: the content of messages and sessions, owners that are alive   *)
(* but of another release, cleanup of the temporary frontend, what a       *)
(* receipt does to state.json and to the record of the attempt, and the    *)
(* branches for transports other than plain codex resume, which only tests *)
(* inject.  The late reconciliation of a confirmation needs the owner that *)
(* prepared it and so changes nothing when workers are one call each.      *)
(***************************************************************************)
EXTENDS Integers, FiniteSets

CONSTANTS
    Event,        \* terminal events, one task attempt each
    Worker,       \* wake worker processes
    None,         \* "no file"
    MaxGen,       \* bound on supervisor generations
    MaxCrashes,   \* bound on processes that die
    MaxExpiries,  \* bound on leases that expire under a live owner
    MaxRebinds,   \* bound on changes of the host session
    MaxFaults,    \* bound on refreshes, helpers and evidence writes that fail
    DiesInCas     \* may a process die inside a compare-and-swap?

Status == {"CLAIMED", "UNCERTAIN", "TRANSPORT_NOT_STARTED", "DELIVERED"}

Lease == [token : Nat, event : Event, owner : Worker, gen : Nat,
          owned : BOOLEAN, expired : BOOLEAN]
Decision == [by : Worker, token : Nat, gen : Nat, status : Status,
             reconciled : BOOLEAN]
Receipt == [by : Worker, gen : Nat, rev : Nat]

ASSUME WakeAssumption ==
    /\ None \notin Lease \cup Decision \cup Receipt \cup Status
    /\ None \notin Event \cup Worker \cup Nat
    /\ MaxGen \in Nat \ {0}
    /\ {MaxCrashes, MaxExpiries, MaxRebinds, MaxFaults} \subseteq Nat
    /\ DiesInCas \in BOOLEAN

VARIABLES
    gen,          \* supervisor.json: generation
    binding,      \* session binding: its revision and generation
    request,      \* wake/requests: target generation of each event
    lease,        \* wake/activation-lease.json
    leaseLock,    \* has activation-lease.json.cas-lock been left behind?
    decision,     \* wake/activation-decisions
    receipt,      \* wake/deliveries
    consumption,  \* wake/consumptions: the delivery each names
    processed,    \* state.json: processed_event_ids
    evaluated,    \* events whose attempt has an immutable evaluation
    evidence,     \* wake/transport-attempts, by worker
    pc, call,     \* where each worker is, and its local variables
    helper,       \* the helper process of each worker
    cli,          \* the command the supervisor is running
    sent,         \* history: messages submitted to the session
    spent         \* how much of each bound is used up

durable == <<gen, binding, request, lease, leaseLock, decision, receipt,
             consumption, processed, evaluated, evidence>>
vars == <<durable, pc, call, helper, cli, sent, spent>>

-------------------------------------------------------------------------------

NoCall == [event |-> None, rev |-> 0, gen |-> 0, token |-> 0, seen |-> None]
NoCommand == [op |-> "idle", event |-> None, via |-> None]

Init ==
    /\ gen = 1
    /\ binding = [rev |-> 1, gen |-> 1]
    /\ request = [e \in Event |-> None]
    /\ lease = None
    /\ leaseLock = FALSE
    /\ decision = [e \in Event |-> None]
    /\ receipt = [e \in Event |-> None]
    /\ consumption = [e \in Event |-> None]
    /\ processed = {}
    /\ evaluated = {}
    /\ evidence = [w \in Worker |-> "none"]
    /\ pc = [w \in Worker |-> "idle"]
    /\ call = [w \in Worker |-> NoCall]
    /\ helper = [w \in Worker |-> "none"]
    /\ cli = NoCommand
    /\ sent = {}
    /\ spent = [crash |-> 0, expiry |-> 0, rebind |-> 0, fault |-> 0]

Spend(bound, max) ==
    /\ spent[bound] < max
    /\ spent' = [spent EXCEPT ![bound] = spent[bound] + 1]

Goto(w, label) == pc' = [pc EXCEPT ![w] = label]

\* Has w written anything under its own identity?
LeftTrace(w) ==
    \/ evidence[w] # "none"
    \/ \E e \in Event : decision[e] # None /\ decision[e].by = w

\* The call returns and the process exits.
Exit(w) ==
    /\ Goto(w, IF LeftTrace(w) THEN "exited" ELSE "idle")
    /\ call' = [call EXCEPT ![w] = NoCall]

Running(w) == pc[w] \notin {"idle", "exited", "dead"}

(***************************************************************************)
(* The fences                                                              *)
(***************************************************************************)

Obsolete(e) == request[e] # gen \/ e \in processed \/ e \in evaluated

StatusOf(e) == IF decision[e] = None THEN None ELSE decision[e].status

\* Fault: an uncertain decision counts as open.
UncertainIsOpen(e) == StatusOf(e) \in {None, "TRANSPORT_NOT_STARTED", "UNCERTAIN"}

\* classifyQueuedWake: queued and awaiting transport.
Open(e) == StatusOf(e) \in {None, "TRANSPORT_NOT_STARTED"}

\* decisionFenceCurrent for the lease that w was granted.
LeaseCurrent(w) ==
    /\ lease # None
    /\ lease.owner = w
    /\ lease.token = call[w].token
    /\ lease.owned /\ ~lease.expired
    /\ lease.gen = gen

\* validateDeliveryFence
DeliveryCurrent(w) ==
    /\ request[call[w].event] = gen
    /\ binding.rev = call[w].rev

Mine(w, e) == decision[e] # None /\ decision[e].by = w

(***************************************************************************)
(* Durable steps shared by several callers                                 *)
(***************************************************************************)

\* refreshCodexSessionBinding finds the host session; a changed session or
\* generation replaces the pointer.
Refresh ==
    \/ /\ binding.gen = gen
       /\ UNCHANGED <<binding, spent>>
    \/ /\ binding' = [rev |-> binding.rev + 1, gen |-> gen]
       /\ IF binding.gen = gen THEN Spend("rebind", MaxRebinds)
                               ELSE UNCHANGED spent

Fail == Spend("fault", MaxFaults)

\* updateActivationDecision: only the claim of w itself.
UpdateDecision(w, status) ==
    LET e == call[w].event
    IN decision' = IF Mine(w, e) /\ StatusOf(e) = "CLAIMED"
                   THEN [decision EXCEPT ![e].status = status]
                   ELSE decision

(***************************************************************************)
(* opsled: launchRepositoryWakeTransports                                  *)
(***************************************************************************)

Launch(e) ==
    /\ request[e] # None
    /\ ~Obsolete(e) /\ Open(e)
    /\ \A v \in Worker : Running(v) => call[v].event # e
    /\ \E w \in Worker :
          /\ pc[w] = "idle"
          /\ Goto(w, "preflight")
          /\ call' = [call EXCEPT ![w] = [NoCall EXCEPT !.event = e]]
    /\ UNCHANGED <<durable, helper, cli, sent, spent>>

(***************************************************************************)
(* The worker: deliverWake                                                 *)
(***************************************************************************)

Preflight(w) ==
    /\ pc[w] = "preflight"
    /\ LET e == call[w].event
       IN IF receipt[e] # None \/ Obsolete(e)
          THEN Exit(w)
          ELSE Goto(w, "refresh") /\ UNCHANGED call
    /\ UNCHANGED <<durable, helper, cli, sent, spent>>

RefreshBinding(w) ==
    /\ pc[w] = "refresh"
    /\ \/ Refresh /\ Goto(w, "classify")
            /\ call' = [call EXCEPT ![w] = [@ EXCEPT !.rev = binding'.rev]]
       \/ Fail /\ Exit(w) /\ UNCHANGED binding
    /\ UNCHANGED <<gen, request, lease, leaseLock, decision, receipt,
                   consumption, processed, evaluated, evidence, helper, cli,
                   sent>>

\* The generation read at preflight is used again.
Classify(w) ==
    /\ pc[w] = "classify"
    /\ LET e == call[w].event
       IN IF e \in processed \cup evaluated \/ ~Open(e)
          THEN Exit(w)
          ELSE Goto(w, "fence") /\ UNCHANGED call
    /\ UNCHANGED <<durable, helper, cli, sent, spent>>

Fence(w) ==
    /\ pc[w] = "fence"
    /\ IF DeliveryCurrent(w)
       THEN Goto(w, "readGeneration") /\ UNCHANGED call
       ELSE Exit(w)
    /\ UNCHANGED <<durable, helper, cli, sent, spent>>

\* acquireActivationLease reads supervisor.json once ...
ReadGeneration(w) ==
    /\ pc[w] = "readGeneration"
    /\ call' = [call EXCEPT ![w] = [@ EXCEPT !.gen = gen]]
    /\ Goto(w, "acquire")
    /\ UNCHANGED <<durable, helper, cli, sent, spent>>

\* Fault: a lease is taken until it is released.
LeaseTakenForEver(g) == lease # None /\ lease.owned /\ lease.gen = g

LeaseTakenFor(g) == lease # None /\ lease.owned /\ ~lease.expired /\ lease.gen = g

\* Fault: tokens start again with a released lease.
AcquireWithFirstToken(w) ==
    /\ pc[w] = "acquire"
    /\ IF leaseLock \/ LeaseTakenFor(call[w].gen)
       THEN Exit(w) /\ UNCHANGED lease
       ELSE /\ lease' = [token |-> 1, event |-> call[w].event,
                         owner |-> w, gen |-> call[w].gen,
                         owned |-> TRUE, expired |-> FALSE]
            /\ call' = [call EXCEPT ![w] = [@ EXCEPT !.token = 1]]
            /\ Goto(w, "checkClaim")
    /\ UNCHANGED <<gen, binding, request, leaseLock, decision, receipt,
                   consumption, processed, evaluated, evidence, helper, cli,
                   sent, spent>>

\* ... and swaps the lease unless another is current for that generation.
Acquire(w) ==
    /\ pc[w] = "acquire"
    /\ IF leaseLock \/ LeaseTakenFor(call[w].gen)
       THEN Exit(w) /\ UNCHANGED lease
       ELSE LET token == IF lease = None THEN 1 ELSE lease.token + 1
            IN /\ lease' = [token |-> token, event |-> call[w].event,
                            owner |-> w, gen |-> call[w].gen,
                            owned |-> TRUE, expired |-> FALSE]
               /\ call' = [call EXCEPT ![w] = [@ EXCEPT !.token = token]]
               /\ Goto(w, "checkClaim")
    /\ UNCHANGED <<gen, binding, request, leaseLock, decision, receipt,
                   consumption, processed, evaluated, evidence, helper, cli,
                   sent, spent>>

\* claimActivationDecision: the lease and the target generation ...
CheckClaim(w) ==
    /\ pc[w] = "checkClaim"
    /\ Goto(w, IF LeaseCurrent(w) /\ request[call[w].event] = gen
               THEN "claim" ELSE "release")
    /\ UNCHANGED <<durable, call, helper, cli, sent, spent>>

Claimed(w) == [by |-> w, token |-> call[w].token, gen |-> call[w].gen,
               status |-> "CLAIMED", reconciled |-> FALSE]

\* ... the exclusive creation of the decision ...
Claim(w) ==
    /\ pc[w] = "claim"
    /\ LET e == call[w].event
       IN IF decision[e] = None
          THEN /\ decision' = [decision EXCEPT ![e] = Claimed(w)]
               /\ Goto(w, "recheck")
               /\ UNCHANGED call
          ELSE /\ UNCHANGED decision
               /\ IF Open(e) /\ LeaseCurrent(w)
                  THEN /\ call' = [call EXCEPT ![w] =
                                    [@ EXCEPT !.seen = decision[e]]]
                       /\ Goto(w, "reclaim")
                  ELSE Goto(w, "release") /\ UNCHANGED call
    /\ UNCHANGED <<gen, binding, request, lease, leaseLock, receipt,
                   consumption, processed, evaluated, evidence, helper, cli,
                   sent, spent>>

\* ... or a compare-and-swap of one whose transport never started.
Reclaim(w) ==
    /\ pc[w] = "reclaim"
    /\ LET e == call[w].event
       IN IF decision[e] = call[w].seen
          THEN /\ decision' = [decision EXCEPT ![e] = Claimed(w)]
               /\ Goto(w, "recheck")
          ELSE Goto(w, "release") /\ UNCHANGED decision
    /\ call' = [call EXCEPT ![w] = [@ EXCEPT !.seen = None]]
    /\ UNCHANGED <<gen, binding, request, lease, leaseLock, receipt,
                   consumption, processed, evaluated, evidence, helper, cli,
                   sent, spent>>

Recheck(w) ==
    /\ pc[w] = "recheck"
    /\ Goto(w, IF LeaseCurrent(w) THEN "prepare" ELSE "uncertain")
    /\ UNCHANGED <<durable, call, helper, cli, sent, spent>>

Prepare(w) ==
    /\ pc[w] = "prepare"
    /\ evidence' = [evidence EXCEPT ![w] = "prepared"]
    /\ Goto(w, "finalFence")
    /\ UNCHANGED <<gen, binding, request, lease, leaseLock, decision, receipt,
                   consumption, processed, evaluated, call, helper, cli, sent,
                   spent>>

FinalFence(w) ==
    /\ pc[w] = "finalFence"
    /\ Goto(w, IF DeliveryCurrent(w) /\ LeaseCurrent(w)
               THEN "rebind" ELSE "uncertain")
    /\ UNCHANGED <<durable, call, helper, cli, sent, spent>>

Rebind(w) ==
    /\ pc[w] = "rebind"
    /\ \/ Refresh /\ Goto(w, "lastFence")
       \/ Fail /\ Goto(w, "notStarted") /\ UNCHANGED binding
    /\ UNCHANGED <<gen, request, lease, leaseLock, decision, receipt,
                   consumption, processed, evaluated, evidence, call, helper,
                   cli, sent>>

\* The lease is not looked at again.
LastFence(w) ==
    /\ pc[w] = "lastFence"
    /\ Goto(w, IF DeliveryCurrent(w) THEN "send" ELSE "notStarted")
    /\ UNCHANGED <<durable, call, helper, cli, sent, spent>>

\* resume: the helper is spawned and waited for.
Send(w) ==
    /\ pc[w] = "send"
    /\ helper' = [helper EXCEPT ![w] = "started"]
    /\ Goto(w, "wait")
    /\ UNCHANGED <<durable, call, cli, sent, spent>>

Delivered(w) ==
    LET e == call[w].event IN receipt[e] # None /\ receipt[e].by = w

\* Fault: the helper is waited for only so long.
WaitAWhile(w) ==
    /\ pc[w] = "wait"
    /\ IF Delivered(w)
       THEN UpdateDecision(w, "DELIVERED") /\ Goto(w, "release")
       ELSE Goto(w, "uncertain") /\ UNCHANGED decision
    /\ UNCHANGED <<gen, binding, request, lease, leaseLock, receipt,
                   consumption, processed, evaluated, evidence, call, helper,
                   cli, sent, spent>>

\* Fault: a receipt of its own is not looked for.
WaitForResult(w) ==
    /\ pc[w] = "wait"
    /\ helper[w] = "over"
    /\ Goto(w, "uncertain")
    /\ UNCHANGED <<durable, call, helper, cli, sent, spent>>

Wait(w) ==
    /\ pc[w] = "wait"
    /\ helper[w] = "over"
    /\ IF Delivered(w)
       THEN UpdateDecision(w, "DELIVERED") /\ Goto(w, "release")
       ELSE Goto(w, "uncertain") /\ UNCHANGED decision
    /\ UNCHANGED <<gen, binding, request, lease, leaseLock, receipt,
                   consumption, processed, evaluated, evidence, call, helper,
                   cli, sent, spent>>

\* The call gives up: what becomes of its decision depends on where.
GiveUp(w) ==
    /\ pc[w] \in {"uncertain", "notStarted"}
    /\ UpdateDecision(w, IF pc[w] = "uncertain" THEN "UNCERTAIN"
                         ELSE "TRANSPORT_NOT_STARTED")
    /\ Goto(w, "release")
    /\ UNCHANGED <<gen, binding, request, lease, leaseLock, receipt,
                   consumption, processed, evaluated, evidence, call, helper,
                   cli, sent, spent>>

\* releaseActivationLease
Release(w) ==
    /\ pc[w] = "release"
    /\ lease' = IF ~leaseLock /\ lease.owner = w /\ lease.token = call[w].token
                THEN [lease EXCEPT !.owned = FALSE] ELSE lease
    /\ Exit(w)
    /\ UNCHANGED <<gen, binding, request, leaseLock, decision, receipt,
                   consumption, processed, evaluated, evidence, helper, cli,
                   sent, spent>>

(***************************************************************************)
(* The helper: runCodexResumeTransport and commitConfirmedWakeReceipt      *)
(***************************************************************************)

HelperMoves(w, from, to) ==
    /\ helper[w] = from
    /\ helper' = [helper EXCEPT ![w] = to]

\* Its first checkpoint replaces native-transport-not-started, unless the write
\* fails, which is swallowed ...
HelperOpens(w) ==
    /\ HelperMoves(w, "started", "opened")
    /\ \/ evidence' = [evidence EXCEPT ![w] = "opened"] /\ UNCHANGED spent
       \/ Fail /\ UNCHANGED evidence
    /\ UNCHANGED <<gen, binding, request, lease, leaseLock, decision, receipt,
                   consumption, processed, evaluated, pc, call, cli, sent>>

\* ... as it is in every later checkpoint, until one is written.
HelperCheckpoints(w) ==
    /\ helper[w] \in {"opened", "submitted"}
    /\ evidence[w] = "prepared"
    /\ evidence' = [evidence EXCEPT ![w] = "opened"]
    /\ UNCHANGED <<gen, binding, request, lease, leaseLock, decision, receipt,
                   consumption, processed, evaluated, pc, call, helper, cli,
                   sent, spent>>

\* The transport is spawned, whatever the evidence says.
HelperSubmits(w) ==
    /\ HelperMoves(w, "opened", "submitted")
    /\ sent' = sent \cup {<<call[w].event, w>>}
    /\ UNCHANGED <<durable, pc, call, cli, spent>>

ReceiptCurrent(w) ==
    /\ pc[w] = "wait"
    /\ DeliveryCurrent(w) /\ binding.gen = gen
    /\ LeaseCurrent(w)
    /\ Mine(w, call[w].event) /\ StatusOf(call[w].event) = "CLAIMED"

\* The session accepted the message; a confirmation that cannot be written down
\* does not count, and every fence is read again ...
HelperConfirms(w) ==
    /\ helper[w] = "submitted"
    /\ helper' = [helper EXCEPT ![w] =
                    IF evidence[w] = "opened" /\ ReceiptCurrent(w)
                    THEN "confirmed" ELSE "over"]
    /\ UNCHANGED <<durable, pc, call, cli, sent, spent>>

\* ... before the receipt is created ...
HelperCommits(w) ==
    /\ helper[w] = "confirmed"
    /\ LET e == call[w].event
       IN IF receipt[e] = None
          THEN /\ receipt' = [receipt EXCEPT ![e] =
                     [by |-> w, gen |-> call[w].gen, rev |-> call[w].rev]]
               /\ helper' = [helper EXCEPT ![w] = "committed"]
          ELSE /\ helper' = [helper EXCEPT ![w] = "over"]
               /\ UNCHANGED receipt
    /\ UNCHANGED <<gen, binding, request, lease, leaseLock, decision,
                   consumption, processed, evaluated, evidence, pc, call, cli,
                   sent, spent>>

\* ... and then the decision is updated.
HelperDecides(w) ==
    /\ HelperMoves(w, "committed", "over")
    /\ UpdateDecision(w, "DELIVERED")
    /\ UNCHANGED <<gen, binding, request, lease, leaseLock, receipt,
                   consumption, processed, evaluated, evidence, pc, call, cli,
                   sent, spent>>

HelperRuns(w) == helper[w] \notin {"none", "over"}

\* It cannot start the transport, or the session rejects the message.
HelperFails(w) ==
    /\ helper[w] \in {"started", "opened", "submitted"}
    /\ Fail
    /\ helper' = [helper EXCEPT ![w] = "over"]
    /\ UNCHANGED <<durable, pc, call, cli, sent>>

HelperDies(w) ==
    /\ HelperRuns(w)
    /\ Spend("crash", MaxCrashes)
    /\ helper' = [helper EXCEPT ![w] = "over"]
    /\ UNCHANGED <<durable, pc, call, cli, sent>>

\* The worker is killed; its helper runs on.
Dies(w) ==
    /\ Running(w)
    /\ Spend("crash", MaxCrashes)
    /\ Goto(w, "dead")
    /\ \/ UNCHANGED leaseLock
       \/ DiesInCas /\ pc[w] \in {"acquire", "release"} /\ leaseLock' = TRUE
    /\ UNCHANGED <<gen, binding, request, lease, decision, receipt,
                   consumption, processed, evaluated, evidence, call, helper,
                   cli, sent>>

(***************************************************************************)
(* Time, the Runner, and the commands of the supervisor and the operator   *)
(***************************************************************************)

Expire ==
    /\ lease # None /\ lease.owned /\ ~lease.expired
    /\ IF Running(lease.owner) THEN Spend("expiry", MaxExpiries)
                              ELSE UNCHANGED spent
    /\ lease' = [lease EXCEPT !.expired = TRUE]
    /\ UNCHANGED <<gen, binding, request, leaseLock, decision, receipt,
                   consumption, processed, evaluated, evidence, pc, call,
                   helper, cli, sent>>

\* Fault: the request is made for the generation to come.
EnqueueForNext(e) ==
    /\ request[e] = None
    /\ request' = [request EXCEPT ![e] = gen + 1]
    /\ UNCHANGED <<gen, binding, lease, leaseLock, decision, receipt,
                   consumption, processed, evaluated, evidence, pc, call,
                   helper, cli, sent, spent>>

\* enqueueTerminalWake
Enqueue(e) ==
    /\ request[e] = None
    /\ request' = [request EXCEPT ![e] = gen]
    /\ UNCHANGED <<gen, binding, lease, leaseLock, decision, receipt,
                   consumption, processed, evaluated, evidence, pc, call,
                   helper, cli, sent, spent>>

\* recover
Recover ==
    /\ gen < MaxGen
    /\ gen' = gen + 1
    /\ UNCHANGED <<binding, request, lease, leaseLock, decision, receipt,
                   consumption, processed, evaluated, evidence, pc, call,
                   helper, cli, sent, spent>>

\* Status, reconstruction and liveness checks refresh the binding too.
RefreshElsewhere ==
    /\ Refresh
    /\ UNCHANGED <<gen, request, lease, leaseLock, decision, receipt,
                   consumption, processed, evaluated, evidence, pc, call,
                   helper, cli, sent>>

\* Fault: any uncertain decision without a receipt is reconciled.
ReconcileUnproven(e) ==
    /\ request[e] = gen
    /\ decision[e] # None
    /\ decision[e].gen = gen /\ decision[e].status = "UNCERTAIN"
    /\ receipt[e] = None
    /\ decision' = [decision EXCEPT
          ![e] = [@ EXCEPT !.status = "TRANSPORT_NOT_STARTED",
                           !.reconciled = TRUE]]
    /\ UNCHANGED <<gen, binding, request, lease, leaseLock, receipt,
                   consumption, processed, evaluated, evidence, pc, call,
                   helper, cli, sent, spent>>

\* reconcileWakeTransportNotStarted
Reconcile(e) ==
    /\ request[e] = gen
    /\ decision[e] # None
    /\ decision[e].gen = gen /\ decision[e].status = "UNCERTAIN"
    /\ evidence[decision[e].by] = "prepared"
    /\ receipt[e] = None
    /\ decision' = [decision EXCEPT
          ![e] = [@ EXCEPT !.status = "TRANSPORT_NOT_STARTED",
                           !.reconciled = TRUE]]
    /\ UNCHANGED <<gen, binding, request, lease, leaseLock, receipt,
                   consumption, processed, evaluated, evidence, pc, call,
                   helper, cli, sent, spent>>

Command(op, e, via) == cli' = [op |-> op, event |-> e, via |-> via]

\* The fences of consumeWakeDelivery.
Consumable(e) ==
    /\ receipt[e] # None
    /\ receipt[e].gen = gen /\ request[e] = gen
    /\ binding.gen = gen /\ binding.rev = receipt[e].rev
    /\ decision[e] # None
    /\ decision[e].status = "DELIVERED" /\ decision[e].by = receipt[e].by

Consumed(e) == receipt[e] # None /\ consumption[e] = receipt[e].by

\* consumeEvent of a delivered event creates the consumption record ...
ConsumeDelivery(e) ==
    /\ cli.op = "idle"
    /\ Consumable(e)
    /\ consumption[e] = None \/ e \notin processed
    /\ consumption' = [consumption EXCEPT ![e] = receipt[e].by]
    /\ Command("consume", e, "delivery")
    /\ UNCHANGED <<gen, binding, request, lease, leaseLock, decision, receipt,
                   processed, evaluated, evidence, pc, call, helper, sent,
                   spent>>

\* ... of an event that was never sent, it only reads.
ConsumeNotStarted(e) ==
    /\ cli.op = "idle"
    /\ e \notin processed
    /\ receipt[e] = None
    /\ \/ request[e] = None
       \/ /\ request[e] = gen
          /\ decision[e] # None
          /\ decision[e].gen = gen
          /\ decision[e].status = "TRANSPORT_NOT_STARTED"
          /\ decision[e].reconciled
    /\ Command("consume", e, "notStarted")
    /\ UNCHANGED <<durable, pc, call, helper, sent, spent>>

\* Then state.json is written.
RecordProcessed ==
    /\ cli.op = "consume"
    /\ processed' = processed \cup {cli.event}
    /\ cli' = NoCommand
    /\ UNCHANGED <<gen, binding, request, lease, leaseLock, decision, receipt,
                   consumption, evaluated, evidence, pc, call, helper, sent,
                   spent>>

Blocked(e) == receipt[e] # None /\ ~Consumed(e)

\* evaluateTask: no delivered wake may be unconsumed ...
Evaluate(e) ==
    /\ cli.op = "idle"
    /\ e \notin evaluated
    /\ ~Blocked(e)
    /\ Command("evaluate", e, None)
    /\ UNCHANGED <<durable, pc, call, helper, sent, spent>>

\* ... and then the immutable decision is created.
CommitEvaluation ==
    /\ cli.op = "evaluate"
    /\ evaluated' = evaluated \cup {cli.event}
    /\ cli' = NoCommand
    /\ UNCHANGED <<gen, binding, request, lease, leaseLock, decision, receipt,
                   consumption, processed, evidence, pc, call, helper, sent,
                   spent>>

WorkerStep(w) ==
    \/ Preflight(w) \/ RefreshBinding(w) \/ Classify(w) \/ Fence(w)
    \/ ReadGeneration(w) \/ Acquire(w) \/ CheckClaim(w) \/ Claim(w)
    \/ Reclaim(w) \/ Recheck(w) \/ Prepare(w) \/ FinalFence(w) \/ Rebind(w)
    \/ LastFence(w) \/ Send(w) \/ Wait(w) \/ GiveUp(w) \/ Release(w)

HelperStep(w) ==
    \/ HelperOpens(w) \/ HelperCheckpoints(w) \/ HelperSubmits(w)
    \/ HelperConfirms(w) \/ HelperCommits(w) \/ HelperDecides(w)

CommandStep ==
    \/ \E e \in Event :
          ConsumeDelivery(e) \/ ConsumeNotStarted(e) \/ Evaluate(e)
    \/ RecordProcessed \/ CommitEvaluation

Next ==
    \/ \E w \in Worker : WorkerStep(w) \/ HelperStep(w) \/ HelperFails(w)
                         \/ HelperDies(w) \/ Dies(w)
    \/ \E e \in Event : Launch(e) \/ Enqueue(e) \/ Reconcile(e)
    \/ CommandStep \/ Expire \/ Recover \/ RefreshElsewhere

Spec == Init /\ [][Next]_vars

\* Opsled scans for requests again and again, running processes keep running,
\* leases run out, and the supervisor consumes what was delivered to it.
FairSpec ==
    /\ Spec
    /\ \A w \in Worker : WF_vars(WorkerStep(w)) /\ WF_vars(HelperStep(w))
    /\ \A e \in Event : /\ SF_vars(Launch(e)) /\ WF_vars(Enqueue(e))
                        /\ SF_vars(ConsumeDelivery(e))
    /\ WF_vars(RecordProcessed \/ CommitEvaluation)
    /\ WF_vars(Expire)

-------------------------------------------------------------------------------

PC == {"idle", "preflight", "refresh", "classify", "fence", "readGeneration",
       "acquire", "checkClaim", "claim", "reclaim", "recheck", "prepare",
       "finalFence", "rebind", "lastFence", "send", "wait", "uncertain",
       "notStarted", "release", "exited", "dead"}

\* Every variable has its type.
TypeOK ==
    /\ gen \in 1..MaxGen
    /\ binding \in [rev : Nat, gen : 1..gen]
    /\ request \in [Event -> 1..gen \cup {None}]
    /\ lease \in Lease \cup {None}
    /\ leaseLock \in BOOLEAN
    /\ decision \in [Event -> Decision \cup {None}]
    /\ receipt \in [Event -> Receipt \cup {None}]
    /\ consumption \in [Event -> Worker \cup {None}]
    /\ processed \subseteq Event /\ evaluated \subseteq Event
    /\ evidence \in [Worker -> {"none", "prepared", "opened"}]
    /\ pc \in [Worker -> PC]
    /\ call \in [Worker -> [event : Event \cup {None}, rev : Nat, gen : Nat,
                            token : Nat, seen : Decision \cup {None}]]
    /\ helper \in [Worker -> {"none", "started", "opened", "submitted",
                              "confirmed", "committed", "over"}]
    /\ cli \in [op : {"idle", "consume", "evaluate"},
                event : Event \cup {None},
                via : {None, "delivery", "notStarted"}]
    /\ sent \subseteq Event \X Worker

\* The submissions that their evidence tells of; the others are those of helpers
\* none of whose checkpoints could be written.
Recorded(e) == {w \in Worker : <<e, w>> \in sent /\ evidence[w] = "opened"}

\* A message whose submission left any evidence is never submitted again, whatever
\* crashed, expired or was reconciled in between, and whichever writes of that
\* evidence failed: the decision of its event stays with the worker that sent it
\* and never counts as not started.
SentIsNeverReopened ==
    \A e \in Event : \A w \in Recorded(e) : Mine(w, e) /\ ~Open(e)

\* A receipt is the receipt of a message that was sent and left evidence, of the
\* decision that allowed it, and of the generation the request was made for.
ReceiptIsOfTheMessage ==
    \A e \in Event : receipt[e] # None =>
       /\ receipt[e].by \in Recorded(e)
       /\ Mine(receipt[e].by, e)
       /\ decision[e].status \in {"CLAIMED", "DELIVERED"}
       /\ receipt[e].gen = request[e]

\* An attempt takes a decision over only with a newer fencing token.
TakeoverHasNewerToken ==
    [][\A e \in Event :
         (decision[e] # None /\ decision'[e].by # decision[e].by)
            => decision'[e].token > decision[e].token]_vars

\* Delivery implements the once-only contract of WakeOnce, for the submissions
\* that left evidence.
Contract == INSTANCE WakeOnce WITH
    messages <- [e \in Event |-> Cardinality(Recorded(e))],
    receipted <- {e \in Event : receipt[e] # None},
    consumed <- {e \in Event : consumption[e] # None}

ImplementsWakeOnce == Contract!Spec

\* While bounded faults last, every request is taken up: a decision is made
\* about it, or it is obsolete.
QueuedIsDecided ==
    \A e \in Event : <>(decision[e] # None \/ (request[e] # None /\ Obsolete(e)))

\* The worker and the helper of a receipt both died before either had recorded the
\* delivery in the decision.
Orphaned(e) ==
    /\ receipt[e] # None /\ StatusOf(e) = "CLAIMED"
    /\ pc[receipt[e].by] = "dead" /\ helper[receipt[e].by] = "over"

\* A supervisor that keeps trying consumes every receipt in the end, so that no
\* delivered wake blocks the evaluation of its task for ever: the worker makes up
\* for the death of its helper and the helper for that of its worker.  Only a
\* receipt that both left behind is never consumed.
DeliveredIsConsumed ==
    \A e \in Event :
        receipt[e] # None ~> consumption[e] # None \/ Orphaned(e)

\* A request of an earlier generation is obsolete and holds nothing up (README:
\* "Stale-generation and already-evaluated requests are classified obsolete").
ObsoleteDoesNotBlock ==
    \A e \in Event : request[e] # None /\ request[e] # gen => ~Blocked(e)
===============================================================================
