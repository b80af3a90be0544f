--------------------------- MODULE WakeDeliveryProofs ---------------------------
(***************************************************************************)
(* Proofs about WakeDelivery for any number of events, workers, recoveries, *)
(* deaths, expiries and faults, and that it implements WakeOnce.           *)
(*                                                                         *)
(* A decision belongs to the worker that claimed it as long as that worker *)
(* may still send (Progress): nobody else changes a CLAIMED decision.  A   *)
(* decision only reopens when its worker has not spawned a helper, or its  *)
(* helper is over and its evidence is as it was prepared (Traces): then    *)
(* the worker has not submitted anything that is Recorded, but a helper    *)
(* none of whose checkpoints could be written may have submitted all the   *)
(* same.  Tokens tell grants of the lease apart (Tokens).                  *)
(***************************************************************************)
EXTENDS WakeDelivery, FiniteSetTheorems, TLAPS

\* The labels of a worker: before it has written anything of its own; from the
\* grant of the lease on; between its claim and the spawn of its helper.
Fresh == {"idle", "preflight", "refresh", "classify", "fence", "readGeneration",
          "acquire", "checkClaim", "claim", "reclaim"}
Unsent == {"recheck", "prepare", "finalFence", "rebind", "lastFence", "send",
           "notStarted"}
Granted == {"checkClaim", "claim", "reclaim", "wait", "uncertain", "release"}
           \cup Unsent

\* What w has claimed is still claimed.
Claiming(w) ==
    /\ Mine(w, call[w].event)
    /\ StatusOf(call[w].event) = "CLAIMED"

\* A running call has an event, and decides about no other.
Subject(w) ==
    /\ pc[w] \notin {"idle", "exited"} => call[w].event \in Event
    /\ pc[w] # "exited" => \A e \in Event : Mine(w, e) => call[w].event = e

\* What is there of w at each of its labels and of those of its helper.
Traces(w) ==
    /\ pc[w] \in Fresh =>
          evidence[w] = "none" /\ \A e \in Event : ~Mine(w, e)
    /\ pc[w] \in Fresh \cup Unsent => helper[w] = "none"
    /\ pc[w] \in {"finalFence", "rebind", "lastFence", "send"} => evidence[w] # "none"
    /\ helper[w] # "none" => evidence[w] # "none"
    /\ helper[w] \in {"none", "started", "opened"} =>
          \A e \in Event : <<e, w>> \notin sent
    /\ helper[w] \in {"confirmed", "committed"} => evidence[w] = "opened"

\* The claim of w is kept until w gives it up or its helper has confirmed it.
Progress(w) ==
    /\ pc[w] \in Unsent \cup {"uncertain"} => Claiming(w) /\ ~Delivered(w)
    /\ pc[w] = "wait" /\ ~Delivered(w) => Claiming(w)
    /\ HelperRuns(w) =>
          /\ pc[w] \in {"wait", "dead"} /\ Claiming(w)
          /\ \A e \in Event : <<e, w>> \in sent => e = call[w].event
    /\ helper[w] \in {"submitted", "confirmed", "committed"} =>
          <<call[w].event, w>> \in sent
    /\ helper[w] \in {"confirmed", "committed"} =>
          request[call[w].event] = call[w].gen
    /\ helper[w] = "committed" => Delivered(w)

\* The lease has moved on since, or is still the one w was granted.
Tokens(w) ==
    /\ pc[w] \in Granted =>
          /\ lease # None
          /\ \/ call[w].token < lease.token
             \/ /\ call[w].token = lease.token
                /\ lease.owner = w /\ lease.gen = call[w].gen
    /\ pc[w] = "reclaim" =>
          /\ call[w].seen # None
          /\ call[w].seen.status = "TRANSPORT_NOT_STARTED"
          /\ call[w].seen.token < call[w].token

WorkerInv(w) == Subject(w) /\ Traces(w) /\ Progress(w) /\ Tokens(w)

\* A decision was made under the current lease by its owner, or under an earlier
\* one.
DecisionsAreGranted ==
    \A e \in Event : decision[e] # None =>
       /\ lease # None
       /\ \/ decision[e].token < lease.token
          \/ decision[e].token = lease.token /\ decision[e].by = lease.owner

ConsumedIsReceipted ==
    \A e \in Event : consumption[e] # None => receipt[e] # None

DInv ==
    /\ TypeOK
    /\ cli.op # "idle" => cli.event \in Event
    /\ \A w \in Worker : WorkerInv(w)
    /\ DecisionsAreGranted
    /\ SentIsNeverReopened
    /\ ReceiptIsOfTheMessage
    /\ ConsumedIsReceipted

-------------------------------------------------------------------------------
(***************************************************************************)
(* Types                                                                   *)
(***************************************************************************)
Call == [event : Event \cup {None}, rev : Nat, gen : Nat, token : Nat,
         seen : Decision \cup {None}]

\* The worker w goes on, or its call returns.
LEMMA GotoType ==
  ASSUME TypeOK, NEW w \in Worker
  PROVE  /\ \A l \in PC : Goto(w, l) => pc' \in [Worker -> PC]
         /\ Exit(w) => pc' \in [Worker -> PC] /\ call' \in [Worker -> Call]
<1>1. NoCall \in Call
  BY DEF NoCall, Call
<1>2. call \in [Worker -> Call] /\ pc \in [Worker -> PC]
  BY DEF TypeOK, Call
<1>3. \A l \in PC : Goto(w, l) => pc' \in [Worker -> PC]
  BY <1>2 DEF Goto
<1>4. "exited" \in PC /\ "idle" \in PC
  BY DEF PC
<1>5. Exit(w) => pc' \in [Worker -> PC]
  BY <1>3, <1>4 DEF Exit
<1>6. Exit(w) => call' \in [Worker -> Call]
  BY <1>1, <1>2 DEF Exit
<1>7. QED
  BY <1>3, <1>5, <1>6

\* What a call in progress remembers.
LEMMA CallEdits ==
  ASSUME NEW c \in Call
  PROVE  /\ \A n \in Nat : /\ [c EXCEPT !.rev = n] \in Call
                           /\ [c EXCEPT !.gen = n] \in Call
                           /\ [c EXCEPT !.token = n] \in Call
         /\ \A d \in Decision \cup {None} : [c EXCEPT !.seen = d] \in Call
  BY DEF Call

LEMMA CallUpdate ==
  ASSUME TypeOK, NEW w \in Worker
  PROVE  /\ call[w] \in Call
         /\ \A c \in Call : [call EXCEPT ![w] = c] \in [Worker -> Call]
  BY DEF TypeOK, Call

LEMMA RefreshType ==
  ASSUME TypeOK, Refresh
  PROVE  binding' \in [rev : Nat, gen : 1..gen]
  BY DEF TypeOK, Refresh

\* A decision keeps its type when its status changes.
LEMMA DecisionEdits ==
  ASSUME NEW d \in Decision
  PROVE  /\ \A s \in Status : /\ [d EXCEPT !.status = s] \in Decision
                              /\ [d EXCEPT !.status = s].by = d.by
                              /\ [d EXCEPT !.status = s].token = d.token
                              /\ [d EXCEPT !.status = s].status = s
         /\ [d EXCEPT !.status = "TRANSPORT_NOT_STARTED", !.reconciled = TRUE]
               \in Decision
  BY DEF Decision, Status

LEMMA UpdateType ==
  ASSUME TypeOK, NEW w \in Worker, call[w].event \in Event, NEW s \in Status,
         UpdateDecision(w, s)
  PROVE  decision' \in [Event -> Decision \cup {None}]
<1> DEFINE e == call[w].event
<1>1. CASE Mine(w, e) /\ StatusOf(e) = "CLAIMED"
  <2>1. decision[e] \in Decision
    BY <1>1 DEF TypeOK, Mine
  <2>2. [decision[e] EXCEPT !.status = s] \in Decision
    BY <2>1, DecisionEdits
  <2>3. decision' = [decision EXCEPT ![e] = [decision[e] EXCEPT !.status = s]]
    BY <1>1 DEF UpdateDecision
  <2>4. QED
    BY <2>2, <2>3 DEF TypeOK
<1>2. CASE ~(Mine(w, e) /\ StatusOf(e) = "CLAIMED")
  BY <1>2 DEF UpdateDecision, TypeOK
<1>3. QED
  BY <1>1, <1>2

\* Steps that write neither a decision nor the lease nor a receipt.
Moves(w) ==
    \/ Preflight(w) \/ RefreshBinding(w) \/ Classify(w) \/ Fence(w)
    \/ ReadGeneration(w) \/ CheckClaim(w) \/ Recheck(w) \/ Prepare(w)
    \/ FinalFence(w) \/ Rebind(w) \/ LastFence(w) \/ Send(w)
    \/ HelperOpens(w) \/ HelperCheckpoints(w) \/ HelperSubmits(w)
    \/ HelperConfirms(w) \/ HelperFails(w) \/ HelperDies(w) \/ Dies(w)

LEMMA MovesTypes ==
  ASSUME DInv, NEW w \in Worker, Moves(w)
  PROVE  TypeOK'
<1> USE DEF DInv
<1>1. \A l \in PC : Goto(w, l) => pc' \in [Worker -> PC]
  BY GotoType
<1>2. Exit(w) => pc' \in [Worker -> PC] /\ call' \in [Worker -> Call]
  BY GotoType
<1>3. CASE Preflight(w) \/ Classify(w) \/ Fence(w)
  BY <1>1, <1>2, <1>3 DEF Preflight, Classify, Fence, TypeOK, durable, PC, Call
<1>4. CASE RefreshBinding(w) \/ Rebind(w)
  <2>1. CASE RefreshBinding(w)
    <3>1. binding' \in [rev : Nat, gen : 1..gen]
      BY <2>1, RefreshType DEF RefreshBinding, TypeOK
    <3>2. call' \in [Worker -> Call]
      <4>1. [call[w] EXCEPT !.rev = binding'.rev] \in Call
        BY <3>1, CallUpdate, CallEdits
      <4>2. Exit(w) \/ call' = [call EXCEPT ![w] = [call[w] EXCEPT !.rev = binding'.rev]]
        BY <2>1 DEF RefreshBinding
      <4>3. QED
        BY <1>2, <4>1, <4>2, CallUpdate
    <3>3. pc' \in [Worker -> PC]
      BY <1>1, <1>2, <2>1 DEF RefreshBinding, PC
    <3>4. QED
      BY <2>1, <3>1, <3>2, <3>3 DEF RefreshBinding, TypeOK, Call
  <2>2. CASE Rebind(w)
    <3>1. binding' \in [rev : Nat, gen : 1..gen]
      BY <2>2, RefreshType DEF Rebind, TypeOK
    <3>2. QED
      BY <1>1, <2>2, <3>1 DEF Rebind, TypeOK, PC
  <2>3. QED
    BY <1>4, <2>1, <2>2
<1>5. CASE ReadGeneration(w)
  <2>1. call' \in [Worker -> Call]
    <3>1. gen \in Nat
      BY WakeAssumption DEF TypeOK
    <3>2. call' = [call EXCEPT ![w] = [call[w] EXCEPT !.gen = gen]]
      BY <1>5 DEF ReadGeneration
    <3>3. QED
      BY <3>1, <3>2, CallUpdate, CallEdits
  <2>2. QED
    BY <1>1, <1>5, <2>1 DEF ReadGeneration, TypeOK, durable, PC, Call
<1>6. CASE CheckClaim(w) \/ Recheck(w) \/ FinalFence(w) \/ LastFence(w)
  BY <1>1, <1>6 DEF CheckClaim, Recheck, FinalFence, LastFence, TypeOK, durable, PC
<1>7. CASE Prepare(w) \/ Send(w)
  BY <1>1, <1>7 DEF Prepare, Send, TypeOK, durable, PC
<1>8. CASE HelperOpens(w) \/ HelperCheckpoints(w) \/ HelperSubmits(w)
           \/ HelperConfirms(w)
  <2>1. HelperSubmits(w) => call[w].event \in Event
    BY DEF WorkerInv, Subject, Progress, HelperSubmits, HelperMoves, HelperRuns
  <2>2. CASE HelperOpens(w) \/ HelperCheckpoints(w)
    BY <2>2 DEF HelperOpens, HelperCheckpoints, HelperMoves, TypeOK
  <2>3. CASE HelperSubmits(w)
    BY <2>1, <2>3 DEF HelperSubmits, HelperMoves, TypeOK, durable
  <2>4. CASE HelperConfirms(w)
    <3>1. helper' \in [Worker -> {"none", "started", "opened", "submitted",
                                 "confirmed", "committed", "over"}]
      BY <2>4 DEF HelperConfirms, TypeOK
    <3>2. QED
      BY <2>4, <3>1 DEF HelperConfirms, TypeOK, durable
  <2>5. QED
    BY <1>8, <2>2, <2>3, <2>4
<1>9. CASE HelperFails(w) \/ HelperDies(w) \/ Dies(w)
  BY <1>1, <1>9 DEF HelperFails, HelperDies, Dies, TypeOK, durable, PC
<1>10. QED
  BY <1>3, <1>4, <1>5, <1>6, <1>7, <1>8, <1>9 DEF Moves

\* What w holds when it gets the lease.
LEMMA Grant ==
  ASSUME DInv, NEW w \in Worker, Acquire(w)
  PROVE  \/ Exit(w) /\ UNCHANGED lease
         \/ /\ lease' \in Lease
            /\ lease'.owner = w /\ lease'.gen = call[w].gen
            /\ lease # None => lease.token \in Nat /\ lease'.token = lease.token + 1
            /\ call' = [call EXCEPT ![w] = [call[w] EXCEPT !.token = lease'.token]]
            /\ Goto(w, "checkClaim")
<1> DEFINE token == IF lease = None THEN 1 ELSE lease.token + 1
           granted == [token |-> token, event |-> call[w].event, owner |-> w,
                       gen |-> call[w].gen, owned |-> TRUE, expired |-> FALSE]
<1>1. call[w].event \in Event /\ call[w].gen \in Nat
  <2>1. call[w].gen \in Nat
    BY CallUpdate DEF DInv, Call
  <2>2. QED
    BY <2>1 DEF DInv, WorkerInv, Subject, Acquire
<1>2. token \in Nat /\ (lease # None => lease.token \in Nat)
  BY DEF DInv, TypeOK, Lease
<1>3. granted \in Lease
  BY <1>1, <1>2 DEF Lease
<1>4. CASE leaseLock \/ LeaseTakenFor(call[w].gen)
  BY <1>4 DEF Acquire
<1>5. CASE ~(leaseLock \/ LeaseTakenFor(call[w].gen))
  <2>1. lease' = granted /\ Goto(w, "checkClaim")
        /\ call' = [call EXCEPT ![w] = [call[w] EXCEPT !.token = token]]
    BY <1>5 DEF Acquire
  <2>2. granted.token = token /\ granted.owner = w /\ granted.gen = call[w].gen
    OBVIOUS
  <2>3. QED
    BY <1>2, <1>3, <2>1, <2>2
<1>6. QED
  BY <1>4, <1>5

LEMMA LeaseTypes ==
  ASSUME DInv, NEW w \in Worker, Acquire(w) \/ Release(w) \/ Expire
  PROVE  TypeOK'
<1> USE DEF DInv
<1>1. CASE Acquire(w)
  <2>1. lease' \in Lease \cup {None}
    BY <1>1, Grant DEF TypeOK
  <2>2. pc' \in [Worker -> PC]
    BY <1>1, Grant, GotoType DEF PC
  <2>3. call' \in [Worker -> Call]
    <3>1. CASE Exit(w)
      BY <3>1, GotoType
    <3>2. CASE lease' \in Lease
               /\ call' = [call EXCEPT ![w] = [call[w] EXCEPT !.token = lease'.token]]
      <4>1. lease'.token \in Nat
        BY <3>2 DEF Lease
      <4>2. QED
        BY <3>2, <4>1, CallUpdate, CallEdits
    <3>3. QED
      BY <1>1, <3>1, <3>2, Grant
  <2>4. QED
    BY <1>1, <2>1, <2>2, <2>3 DEF Acquire, TypeOK, Call
<1>2. CASE Release(w)
  <2>1. lease \in Lease
    BY <1>2 DEF WorkerInv, Tokens, Release, Granted, TypeOK
  <2>2. lease' \in Lease
    BY <1>2, <2>1 DEF Release, Lease
  <2>3. QED
    BY <1>2, <2>2, GotoType DEF Release, TypeOK, Call
<1>3. CASE Expire
  BY <1>3 DEF Expire, TypeOK, Lease
<1>4. QED
  BY <1>1, <1>2, <1>3

LEMMA DecisionTypes ==
  ASSUME DInv,
         \/ \E w \in Worker : \/ Claim(w) \/ Reclaim(w) \/ Wait(w) \/ GiveUp(w)
                              \/ HelperDecides(w) \/ HelperCommits(w)
         \/ \E e \in Event : Reconcile(e)
  PROVE  TypeOK'
<1> USE DEF DInv
<1>1. ASSUME NEW w \in Worker, Claim(w) \/ Reclaim(w)
      PROVE  TypeOK'
  <2>1. call[w].event \in Event
    BY <1>1 DEF WorkerInv, Subject, Claim, Reclaim
  <2>2. Claimed(w) \in Decision
    BY CallUpdate DEF Claimed, Decision, Status, Call
  <2>3. decision' \in [Event -> Decision \cup {None}]
    BY <1>1, <2>1, <2>2 DEF Claim, Reclaim, TypeOK
  <2>4. call' \in [Worker -> Call]
    <3>1. \E d \in Decision \cup {None} :
             \/ call' = [call EXCEPT ![w] = [call[w] EXCEPT !.seen = d]]
             \/ call' = call
      BY <1>1, <2>1 DEF Claim, Reclaim, TypeOK
    <3>2. PICK d \in Decision \cup {None} :
             \/ call' = [call EXCEPT ![w] = [call[w] EXCEPT !.seen = d]]
             \/ call' = call
      BY <3>1
    <3>3. [call[w] EXCEPT !.seen = d] \in Call /\ [call EXCEPT ![w] = call[w]] = call
      BY CallUpdate, CallEdits DEF TypeOK
    <3>4. QED
      BY <3>2, <3>3, CallUpdate
  <2>5. pc' \in [Worker -> PC]
    BY <1>1, GotoType DEF Claim, Reclaim, PC
  <2>6. QED
    BY <1>1, <2>3, <2>4, <2>5 DEF Claim, Reclaim, TypeOK, Call
<1>2. ASSUME NEW w \in Worker, Wait(w) \/ GiveUp(w) \/ HelperDecides(w)
      PROVE  TypeOK'
  <2>1. HelperDecides(w) => pc[w] = "wait" \/ pc[w] = "dead"
    BY DEF WorkerInv, Progress, HelperDecides, HelperMoves, HelperRuns
  <2>2. call[w].event \in Event
    BY <1>2, <2>1 DEF WorkerInv, Subject, Wait, GiveUp
  <2>3. decision' \in [Event -> Decision \cup {None}]
    <3>1. \/ UNCHANGED decision
          \/ \E s \in Status : UpdateDecision(w, s)
      BY <1>2 DEF Wait, GiveUp, HelperDecides, Status
    <3>2. QED
      BY <2>2, <3>1, UpdateType DEF TypeOK
  <2>4. pc' \in [Worker -> PC]
    BY <1>2, GotoType DEF Wait, GiveUp, HelperDecides, PC, TypeOK
  <2>5. QED
    BY <1>2, <2>3, <2>4 DEF Wait, GiveUp, HelperDecides, HelperMoves, TypeOK
<1>3. ASSUME NEW w \in Worker, HelperCommits(w)
      PROVE  TypeOK'
  <2>1. call[w].event \in Event
    BY <1>3 DEF WorkerInv, Subject, Progress, HelperCommits, HelperRuns
  <2>2. [by |-> w, gen |-> call[w].gen, rev |-> call[w].rev] \in Receipt
    BY CallUpdate DEF Receipt, Call
  <2>3. receipt' \in [Event -> Receipt \cup {None}]
    BY <1>3, <2>1, <2>2 DEF HelperCommits, TypeOK
  <2>4. helper' \in [Worker -> {"none", "started", "opened", "submitted",
                               "confirmed", "committed", "over"}]
    BY <1>3 DEF HelperCommits, TypeOK
  <2>5. QED
    BY <1>3, <2>3, <2>4 DEF HelperCommits, TypeOK
<1>4. ASSUME NEW e \in Event, Reconcile(e)
      PROVE  TypeOK'
  <2>1. decision[e] \in Decision
    <3>1. decision[e] # None
      BY <1>4 DEF Reconcile
    <3>2. QED
      BY <3>1 DEF TypeOK
  <2>2. decision' = [decision EXCEPT ![e] =
           [decision[e] EXCEPT !.status = "TRANSPORT_NOT_STARTED", !.reconciled = TRUE]]
    BY <1>4 DEF Reconcile
  <2>3. decision' \in [Event -> Decision \cup {None}]
    BY <2>1, <2>2, DecisionEdits DEF TypeOK
  <2>4. QED
    BY <1>4, <2>3 DEF Reconcile, TypeOK
<1>5. QED
  BY <1>1, <1>2, <1>3, <1>4

\* Requests, generations, sessions and the commands of the supervisor.
Elsewhere ==
    \/ \E e \in Event : Launch(e) \/ Enqueue(e) \/ Evaluate(e)
                        \/ ConsumeDelivery(e) \/ ConsumeNotStarted(e)
    \/ RecordProcessed \/ CommitEvaluation \/ Recover \/ RefreshElsewhere

LEMMA ElsewhereTypes ==
  ASSUME DInv, Elsewhere
  PROVE  TypeOK' /\ (cli.op # "idle" => cli.event \in Event)'
<1> USE DEF DInv
<1>1. ASSUME NEW e \in Event, Launch(e)
      PROVE  TypeOK' /\ UNCHANGED cli
  <2>1. PICK w \in Worker :
           /\ Goto(w, "preflight")
           /\ call' = [call EXCEPT ![w] = [NoCall EXCEPT !.event = e]]
    BY <1>1 DEF Launch
  <2>2. [NoCall EXCEPT !.event = e] \in Call
    BY DEF NoCall, Call
  <2>3. call' \in [Worker -> Call]
    BY <2>1, <2>2, CallUpdate
  <2>4. pc' \in [Worker -> PC]
    BY <2>1, GotoType DEF PC
  <2>5. QED
    BY <1>1, <2>3, <2>4 DEF Launch, TypeOK, durable, Call
<1>2. ASSUME NEW e \in Event, Enqueue(e)
      PROVE  TypeOK' /\ UNCHANGED cli
  BY <1>2, WakeAssumption DEF Enqueue, TypeOK
<1>3. ASSUME NEW e \in Event, ConsumeDelivery(e) \/ ConsumeNotStarted(e) \/ Evaluate(e)
      PROVE  TypeOK' /\ cli'.event \in Event
  <2>1. cli' \in [op : {"idle", "consume", "evaluate"}, event : Event,
                  via : {None, "delivery", "notStarted"}]
    BY <1>3 DEF ConsumeDelivery, ConsumeNotStarted, Evaluate, Command
  <2>2. consumption' \in [Event -> Worker \cup {None}]
    BY <1>3 DEF ConsumeDelivery, ConsumeNotStarted, Evaluate, Consumable, TypeOK,
       Receipt, durable
  <2>3. QED
    BY <1>3, <2>1, <2>2 DEF ConsumeDelivery, ConsumeNotStarted, Evaluate, TypeOK, durable
<1>4. CASE RecordProcessed \/ CommitEvaluation
  BY <1>4 DEF RecordProcessed, CommitEvaluation, NoCommand, TypeOK
<1>5. CASE Recover
  <2>1. gen' \in 1..MaxGen /\ 1..gen \subseteq 1..gen'
    BY <1>5, WakeAssumption DEF Recover, TypeOK
  <2>2. QED
    BY <1>5, <2>1 DEF Recover, TypeOK
<1>6. CASE RefreshElsewhere
  BY <1>6, RefreshType DEF RefreshElsewhere, TypeOK
<1>7. QED
  BY <1>1, <1>2, <1>3, <1>4, <1>5, <1>6 DEF Elsewhere

-------------------------------------------------------------------------------
(***************************************************************************)
(* What the others may do to a worker                                      *)
(***************************************************************************)
\* The lease is marked, or granted again with a newer token.
LeaseAdvances ==
    lease # None =>
        /\ lease' # None
        /\ \/ /\ lease'.token = lease.token
              /\ lease'.owner = lease.owner /\ lease'.gen = lease.gen
           \/ lease'.token > lease.token

\* Nobody else moves v, writes what v is named in, or touches its claim.
Rely(v) ==
    /\ pc'[v] = pc[v] /\ call'[v] = call[v]
    /\ evidence'[v] = evidence[v] /\ helper'[v] = helper[v]
    /\ \A e \in Event :
          /\ <<e, v>> \in sent' => <<e, v>> \in sent
          /\ <<e, v>> \in sent => <<e, v>> \in sent'
          /\ Mine(v, e)' => Mine(v, e)
          /\ Mine(v, e) /\ StatusOf(e) = "CLAIMED" => decision'[e] = decision[e]
          /\ receipt[e] # None => receipt'[e] = receipt[e]
          /\ receipt'[e] # None /\ receipt[e] = None => receipt'[e].by # v
          /\ request[e] # None => request'[e] = request[e]
    /\ LeaseAdvances

LEMMA RelyKeeps ==
  ASSUME TypeOK, TypeOK', NEW v \in Worker, WorkerInv(v), Rely(v)
  PROVE  WorkerInv(v)'
<1> DEFINE e == call[v].event
<1>1. Subject(v)'
  BY DEF WorkerInv, Subject, Rely
<1>2. Traces(v)'
  BY DEF WorkerInv, Traces, Rely
<1>3. pc[v] \notin {"idle", "exited"} => e \in Event
  BY DEF WorkerInv, Subject
<1>4. ASSUME e \in Event, Claiming(v)
      PROVE  Claiming(v)'
  <2>1. decision'[e] = decision[e] /\ call'[v] = call[v]
    BY <1>4 DEF Claiming, Rely
  <2>2. QED
    BY <1>4, <2>1 DEF Claiming, Mine, StatusOf
<1>5. ASSUME e \in Event
      PROVE  Delivered(v)' <=> Delivered(v)
  BY <1>5 DEF Delivered, Rely
<1>6. Progress(v)'
  <2>1. UNCHANGED <<pc[v], helper[v], call[v]>>
    BY DEF Rely
  <2>2. pc[v] \in Unsent \cup {"uncertain"} => Claiming(v)' /\ ~Delivered(v)'
    BY <1>3, <1>4, <1>5 DEF WorkerInv, Progress, Unsent
  <2>3. pc[v] = "wait" /\ ~Delivered(v)' => Claiming(v)'
    BY <1>3, <1>4, <1>5 DEF WorkerInv, Progress
  <2>4. HelperRuns(v) =>
           /\ pc[v] \in {"wait", "dead"} /\ Claiming(v)'
           /\ \A f \in Event : <<f, v>> \in sent' => f = e
    BY <1>3, <1>4 DEF WorkerInv, Progress, Rely
  <2>5. HelperRuns(v) => e \in Event
    BY <1>3 DEF WorkerInv, Progress
  <2>6. helper[v] \in {"submitted", "confirmed", "committed"} => <<e, v>> \in sent'
    BY <2>5 DEF WorkerInv, Progress, Rely, HelperRuns
  <2>7. helper[v] \in {"confirmed", "committed"} => request'[e] = call[v].gen
    <3>1. call[v].gen # None
      BY CallUpdate, WakeAssumption DEF Call
    <3>2. QED
      BY <2>5, <3>1 DEF WorkerInv, Progress, Rely, HelperRuns
  <2>8. helper[v] = "committed" => Delivered(v)'
    BY <1>5, <2>5 DEF WorkerInv, Progress, HelperRuns
  <2>9. QED
    BY <2>1, <2>2, <2>3, <2>4, <2>6, <2>7, <2>8 DEF Progress, HelperRuns
<1>7. Tokens(v)'
  <2>1. UNCHANGED <<pc[v], call[v]>> /\ LeaseAdvances
    BY DEF Rely
  <2>2. ASSUME pc[v] \in Granted
        PROVE  /\ lease' # None
               /\ \/ call[v].token < lease'.token
                  \/ /\ call[v].token = lease'.token
                     /\ lease'.owner = v /\ lease'.gen = call[v].gen
    <3>1. /\ lease # None
          /\ \/ call[v].token < lease.token
             \/ /\ call[v].token = lease.token
                /\ lease.owner = v /\ lease.gen = call[v].gen
      BY <2>2 DEF WorkerInv, Tokens
    <3>2. lease.token \in Nat /\ call[v].token \in Nat
      BY <3>1, CallUpdate DEF TypeOK, Lease, Call
    <3>3. lease' # None /\ lease'.token \in Nat
      BY <2>1, <3>1 DEF LeaseAdvances, TypeOK, Lease
    <3>4. QED
      BY <2>1, <3>1, <3>2, <3>3 DEF LeaseAdvances
  <2>3. QED
    BY <2>1, <2>2 DEF WorkerInv, Tokens
<1>8. QED
  BY <1>1, <1>2, <1>6, <1>7 DEF WorkerInv

\* A step of w moves nobody else.
Alone(w) ==
    \A v \in Worker \ {w} : pc'[v] = pc[v] /\ call'[v] = call[v]
                            /\ evidence'[v] = evidence[v] /\ helper'[v] = helper[v]

\* What all steps but those on decisions, receipts and the lease leave alone.
Settled == UNCHANGED <<decision, receipt, lease, request>>

LEMMA MovesAlone ==
  ASSUME TypeOK, NEW w \in Worker, Moves(w)
  PROVE  Alone(w) /\ Settled /\ UNCHANGED <<consumption, cli>>
<1> USE DEF Alone, Settled, Goto, Exit, TypeOK, durable
<1>1. CASE Preflight(w) \/ Classify(w) \/ Fence(w)
  BY <1>1 DEF Preflight, Classify, Fence
<1>2. CASE RefreshBinding(w) \/ Rebind(w) \/ ReadGeneration(w)
  BY <1>2 DEF RefreshBinding, Rebind, ReadGeneration
<1>3. CASE CheckClaim(w) \/ Recheck(w) \/ FinalFence(w) \/ LastFence(w)
  BY <1>3 DEF CheckClaim, Recheck, FinalFence, LastFence
<1>4. CASE Prepare(w) \/ Send(w)
  BY <1>4 DEF Prepare, Send
<1>5. CASE HelperOpens(w) \/ HelperCheckpoints(w) \/ HelperSubmits(w)
           \/ HelperConfirms(w)
  BY <1>5 DEF HelperOpens, HelperCheckpoints, HelperSubmits, HelperConfirms, HelperMoves
<1>6. CASE HelperFails(w) \/ HelperDies(w) \/ Dies(w)
  BY <1>6 DEF HelperFails, HelperDies, Dies
<1>7. QED
  BY <1>1, <1>2, <1>3, <1>4, <1>5, <1>6 DEF Moves

\* Only the helper of w submits, and only its own message.
LEMMA OnlyOwnSent ==
  ASSUME TypeOK, NEW w \in Worker, Moves(w)
  PROVE  \/ UNCHANGED sent
         \/ HelperSubmits(w) /\ sent' = sent \cup {<<call[w].event, w>>}
  BY DEF Moves, Preflight, RefreshBinding, Classify, Fence, ReadGeneration, CheckClaim,
     Recheck, Prepare, FinalFence, Rebind, LastFence, Send, HelperOpens,
     HelperCheckpoints, HelperSubmits, HelperConfirms, HelperFails, HelperDies, Dies

\* The evidence of w is prepared before its helper is spawned, and then only opened.
LEMMA OwnEvidence ==
  ASSUME TypeOK, NEW w \in Worker, Moves(w)
  PROVE  \/ UNCHANGED evidence
         \/ Prepare(w)
         \/ /\ HelperOpens(w) \/ HelperCheckpoints(w)
            /\ evidence' = [evidence EXCEPT ![w] = "opened"]
  BY DEF Moves, Preflight, RefreshBinding, Classify, Fence, ReadGeneration, CheckClaim,
     Recheck, FinalFence, Rebind, LastFence, Send, HelperOpens, HelperCheckpoints,
     HelperSubmits, HelperConfirms, HelperFails, HelperDies, Dies, durable

LEMMA MovesRely ==
  ASSUME TypeOK, NEW w \in Worker, Moves(w), NEW v \in Worker \ {w}
  PROVE  Rely(v)
<1>1. Alone(w) /\ Settled
  BY MovesAlone
<1>2. \A e \in Event : <<e, v>> \in sent' <=> <<e, v>> \in sent
  BY OnlyOwnSent
<1>3. QED
  BY <1>1, <1>2 DEF Alone, Settled, Rely, LeaseAdvances, Mine

\* A release marks the lease, a grant makes a newer one.
LEMMA LeaseMoves ==
  ASSUME DInv, NEW w \in Worker, Acquire(w) \/ Release(w)
  PROVE  LeaseAdvances
<1> USE DEF DInv
<1>1. CASE Acquire(w)
  <2>1. CASE UNCHANGED lease
    BY <2>1 DEF LeaseAdvances
  <2>2. CASE lease' \in Lease
             /\ (lease # None => lease.token \in Nat /\ lease'.token = lease.token + 1)
    BY <2>2, WakeAssumption DEF LeaseAdvances
  <2>3. QED
    BY <1>1, <2>1, <2>2, Grant
<1>2. CASE Release(w)
  <2>1. lease \in Lease
    BY <1>2 DEF WorkerInv, Tokens, Release, Granted, TypeOK
  <2>2. lease' = lease \/ lease' = [lease EXCEPT !.owned = FALSE]
    BY <1>2 DEF Release
  <2>3. lease' \in Lease /\ lease'.token = lease.token /\ lease'.owner = lease.owner
        /\ lease'.gen = lease.gen
    BY <2>1, <2>2 DEF Lease
  <2>4. QED
    BY <2>3, WakeAssumption DEF LeaseAdvances
<1>3. QED
  BY <1>1, <1>2

LEMMA LeaseRely ==
  ASSUME DInv, NEW w \in Worker, Acquire(w) \/ Release(w), NEW v \in Worker \ {w}
  PROVE  Rely(v)
<1> USE DEF DInv
<1>1. /\ UNCHANGED <<decision, receipt, request, sent, evidence, helper>>
      /\ pc'[v] = pc[v] /\ call'[v] = call[v]
  BY DEF Acquire, Release, Goto, Exit, TypeOK
<1>2. LeaseAdvances
  BY LeaseMoves
<1>3. QED
  BY <1>1, <1>2 DEF Rely, Mine

\* An update of a decision of w is none of anybody else's.
LEMMA UpdateMine ==
  ASSUME TypeOK, NEW w \in Worker, NEW s \in Status, UpdateDecision(w, s),
         call[w].event \in Event
  PROVE  /\ \A e \in Event : ~Mine(w, e) => decision'[e] = decision[e]
         /\ \A e \in Event : decision[e] # None =>
               /\ decision'[e] # None
               /\ decision'[e].by = decision[e].by
               /\ decision'[e].token = decision[e].token
         /\ \A e \in Event : decision[e] = None => decision'[e] = None
         /\ LET e == call[w].event
            IN Claiming(w) => decision'[e].status = s
         /\ \A e \in Event : decision[e] # None /\ decision[e].status # "CLAIMED" =>
               decision'[e] = decision[e]
         /\ \A e \in Event : e # call[w].event => decision'[e] = decision[e]
<1> DEFINE e == call[w].event
<1>1. CASE Claiming(w)
  <2>1. decision[e] \in Decision
    <3>1. decision[e] # None
      BY <1>1 DEF Claiming, Mine
    <3>2. QED
      BY <3>1 DEF TypeOK
  <2>2. decision' = [decision EXCEPT ![e] = [decision[e] EXCEPT !.status = s]]
    BY <1>1 DEF UpdateDecision, Claiming
  <2>3. \A f \in Event : f # e => decision'[f] = decision[f]
    BY <2>2 DEF TypeOK
  <2>4. decision'[e] = [decision[e] EXCEPT !.status = s]
    BY <2>2 DEF TypeOK
  <2>5. /\ decision'[e] \in Decision /\ decision'[e].status = s
        /\ decision'[e].by = decision[e].by /\ decision'[e].token = decision[e].token
    <3>1. LET d == [decision[e] EXCEPT !.status = s]
          IN  d \in Decision /\ d.status = s /\ d.by = decision[e].by
              /\ d.token = decision[e].token
      BY <2>1, DecisionEdits
    <3>2. QED
      BY <2>4, <3>1
  <2>6. decision'[e] # None /\ decision[e] # None
    BY <2>1, <2>5, WakeAssumption
  <2>7. Mine(w, e) /\ decision[e].status = "CLAIMED"
    BY <1>1 DEF Claiming, StatusOf, Mine
  <2>8. QED
    BY <2>3, <2>5, <2>6, <2>7
<1>2. CASE ~Claiming(w)
  BY <1>2 DEF UpdateDecision, Claiming
<1>3. QED
  BY <1>1, <1>2

\* A claim is a new decision, or takes over one whose transport never started.
LEMMA ClaimEffect ==
  ASSUME DInv, NEW w \in Worker, Claim(w) \/ Reclaim(w)
  PROVE  LET e == call[w].event
         IN  /\ e \in Event /\ Claimed(w) \in Decision
             /\ \A f \in Event \ {e} : decision'[f] = decision[f]
             /\ \/ decision'[e] = decision[e]
                \/ /\ decision'[e] = Claimed(w) /\ pc' = [pc EXCEPT ![w] = "recheck"]
                   /\ \/ decision[e] = None
                      \/ /\ decision[e] # None
                         /\ decision[e].status = "TRANSPORT_NOT_STARTED"
                         /\ decision[e].token < call[w].token
<1> USE DEF DInv
<1> DEFINE e == call[w].event
<1>1. e \in Event
  BY DEF WorkerInv, Subject, Claim, Reclaim
<1>2. Claimed(w) \in Decision
  BY CallUpdate DEF Claimed, Decision, Status, Call
<1>3. CASE Claim(w)
  <2>1. CASE decision[e] = None
    <3>1. decision' = [decision EXCEPT ![e] = Claimed(w)]
          /\ pc' = [pc EXCEPT ![w] = "recheck"]
      BY <1>3, <2>1 DEF Claim, Goto
    <3>2. QED
      BY <1>1, <1>2, <2>1, <3>1 DEF TypeOK
  <2>2. CASE decision[e] # None
    BY <1>1, <1>2, <1>3, <2>2 DEF Claim
  <2>3. QED
    BY <2>1, <2>2
<1>4. CASE Reclaim(w)
  <2>1. CASE decision[e] = call[w].seen
    <3>1. decision' = [decision EXCEPT ![e] = Claimed(w)]
          /\ pc' = [pc EXCEPT ![w] = "recheck"]
      BY <1>4, <2>1 DEF Reclaim, Goto
    <3>2. decision[e] # None /\ decision[e].status = "TRANSPORT_NOT_STARTED"
          /\ decision[e].token < call[w].token
      BY <1>4, <2>1 DEF Reclaim, WorkerInv, Tokens
    <3>3. QED
      BY <1>1, <1>2, <3>1, <3>2 DEF TypeOK
  <2>2. CASE decision[e] # call[w].seen
    BY <1>1, <1>2, <1>4, <2>2 DEF Reclaim
  <2>3. QED
    BY <2>1, <2>2
<1>5. QED
  BY <1>3, <1>4

LEMMA ClaimRely ==
  ASSUME DInv, NEW w \in Worker, Claim(w) \/ Reclaim(w), NEW v \in Worker \ {w}
  PROVE  Rely(v)
<1>1. /\ UNCHANGED <<lease, receipt, request, sent, evidence, helper>>
      /\ pc'[v] = pc[v] /\ call'[v] = call[v]
  BY DEF DInv, TypeOK, Claim, Reclaim, Goto
<1>2. ASSUME NEW e \in Event
      PROVE  /\ Mine(v, e)' => Mine(v, e)
             /\ Mine(v, e) /\ StatusOf(e) = "CLAIMED" => decision'[e] = decision[e]
  <2>1. \/ decision'[e] = decision[e]
        \/ /\ decision'[e].by = w
           /\ decision[e] # None => decision[e].status = "TRANSPORT_NOT_STARTED"
    <3>1. Claimed(w).by = w
      BY DEF Claimed
    <3>2. CASE e = call[w].event
      BY <3>1, <3>2, ClaimEffect
    <3>3. CASE e # call[w].event
      BY <3>3, ClaimEffect
    <3>4. QED
      BY <3>2, <3>3
  <2>2. QED
    BY <2>1 DEF Mine, StatusOf
<1>3. QED
  BY <1>1, <1>2 DEF Rely, LeaseAdvances

\* A worker or its helper writes its own decision only.
Decides(w) == Wait(w) \/ GiveUp(w) \/ HelperDecides(w)

LEMMA DecidesEvent ==
  ASSUME DInv, NEW w \in Worker, Decides(w)
  PROVE  /\ call[w].event \in Event
         /\ \/ UNCHANGED decision
            \/ \E s \in Status : UpdateDecision(w, s)
<1>1. HelperDecides(w) => pc[w] \in {"wait", "dead"}
  BY DEF DInv, WorkerInv, Progress, HelperDecides, HelperMoves, HelperRuns
<1>2. call[w].event \in Event
  BY <1>1 DEF DInv, WorkerInv, Subject, Decides, Wait, GiveUp
<1>3. QED
  BY <1>2 DEF Decides, Wait, GiveUp, HelperDecides, Status

LEMMA DecidesRely ==
  ASSUME DInv, NEW w \in Worker, Decides(w), NEW v \in Worker \ {w}
  PROVE  Rely(v)
<1> USE DEF DInv
<1>1. /\ UNCHANGED <<lease, receipt, request, sent, evidence>>
      /\ pc'[v] = pc[v] /\ call'[v] = call[v] /\ helper'[v] = helper[v]
  BY DEF TypeOK, Decides, Wait, GiveUp, HelperDecides, HelperMoves, Goto
<1>2. ASSUME NEW e \in Event
      PROVE  /\ Mine(v, e)' => Mine(v, e)
             /\ Mine(v, e) => decision'[e] = decision[e]
  <2>1. CASE UNCHANGED decision
    BY <2>1 DEF Mine
  <2>2. CASE \E s \in Status : UpdateDecision(w, s)
    <3>1. /\ ~Mine(w, e) => decision'[e] = decision[e]
          /\ decision[e] # None => decision'[e] # None /\ decision'[e].by = decision[e].by
          /\ decision[e] = None => decision'[e] = None
      BY <2>2, DecidesEvent, UpdateMine
    <3>2. QED
      BY <3>1 DEF Mine
  <2>3. QED
    BY <2>1, <2>2, DecidesEvent
<1>3. QED
  BY <1>1, <1>2 DEF Rely, LeaseAdvances

LEMMA CommitsRely ==
  ASSUME DInv, NEW w \in Worker, HelperCommits(w), NEW v \in Worker \ {w}
  PROVE  Rely(v)
<1> USE DEF DInv
<1>1. UNCHANGED <<lease, decision, request, sent, evidence, pc, call>>
      /\ helper'[v] = helper[v]
  BY DEF TypeOK, HelperCommits
<1>2. ASSUME NEW e \in Event
      PROVE  /\ receipt[e] # None => receipt'[e] = receipt[e]
             /\ receipt'[e] # None /\ receipt[e] = None => receipt'[e].by # v
  BY <1>2 DEF TypeOK, HelperCommits
<1>3. QED
  BY <1>1, <1>2 DEF Rely, LeaseAdvances, Mine

LEMMA ReconcileEffect ==
  ASSUME DInv, NEW e \in Event, Reconcile(e)
  PROVE  /\ \A f \in Event \ {e} : decision'[f] = decision[f]
         /\ decision[e] # None /\ decision[e].status = "UNCERTAIN"
         /\ evidence[decision[e].by] = "prepared" /\ receipt[e] = None
         /\ decision'[e] # None /\ decision'[e].status = "TRANSPORT_NOT_STARTED"
         /\ decision'[e].by = decision[e].by /\ decision'[e].token = decision[e].token
<1>1. decision[e] # None
  BY DEF Reconcile
<1>2. decision[e] \in Decision
  BY <1>1 DEF DInv, TypeOK
<1>3. LET d == [decision[e] EXCEPT !.status = "TRANSPORT_NOT_STARTED",
                                   !.reconciled = TRUE]
      IN  d \in Decision /\ d.status = "TRANSPORT_NOT_STARTED"
          /\ d.by = decision[e].by /\ d.token = decision[e].token
  BY <1>2 DEF Decision, Status
<1>4. decision' = [decision EXCEPT ![e] =
         [decision[e] EXCEPT !.status = "TRANSPORT_NOT_STARTED", !.reconciled = TRUE]]
  BY DEF Reconcile
<1>5. decision'[e] =
         [decision[e] EXCEPT !.status = "TRANSPORT_NOT_STARTED", !.reconciled = TRUE]
  BY <1>4 DEF DInv, TypeOK
<1>6. \A f \in Event \ {e} : decision'[f] = decision[f]
  BY <1>4 DEF DInv, TypeOK
<1>7. QED
  BY <1>1, <1>3, <1>5, <1>6, WakeAssumption DEF Reconcile

LEMMA ReconcileRely ==
  ASSUME DInv, NEW e \in Event, Reconcile(e), NEW v \in Worker
  PROVE  Rely(v)
<1>1. UNCHANGED <<lease, receipt, request, sent, evidence, pc, call, helper>>
  BY DEF Reconcile
<1>2. ASSUME NEW f \in Event
      PROVE  /\ Mine(v, f)' => Mine(v, f)
             /\ Mine(v, f) /\ StatusOf(f) = "CLAIMED" => decision'[f] = decision[f]
  BY ReconcileEffect DEF Mine, StatusOf
<1>3. QED
  BY <1>1, <1>2 DEF Rely, LeaseAdvances

LEMMA ExpireRely ==
  ASSUME DInv, Expire, NEW v \in Worker
  PROVE  Rely(v)
<1>1. lease \in Lease
  BY DEF DInv, TypeOK, Expire
<1>2. lease' = [lease EXCEPT !.expired = TRUE]
  BY DEF Expire
<1>3. lease' \in Lease /\ lease'.token = lease.token /\ lease'.owner = lease.owner
      /\ lease'.gen = lease.gen
  BY <1>1, <1>2 DEF Lease
<1>4. QED
  BY <1>3, WakeAssumption DEF Rely, LeaseAdvances, Expire, Mine

LEMMA ElsewhereRely ==
  ASSUME DInv, Elsewhere
  PROVE  \/ \A v \in Worker : Rely(v)
         \/ \E w \in Worker, e \in Event :
               /\ pc[w] = "idle" /\ pc' = [pc EXCEPT ![w] = "preflight"]
               /\ call' = [call EXCEPT ![w] = [NoCall EXCEPT !.event = e]]
               /\ UNCHANGED <<durable, helper, sent, cli>>
<1> USE DEF DInv
<1>1. ASSUME NEW e \in Event, Enqueue(e), NEW v \in Worker
      PROVE  Rely(v)
  BY <1>1 DEF Enqueue, TypeOK, Rely, LeaseAdvances, Mine
<1>2. ASSUME NEW e \in Event, ConsumeDelivery(e) \/ ConsumeNotStarted(e) \/ Evaluate(e),
             NEW v \in Worker
      PROVE  Rely(v)
  BY <1>2 DEF ConsumeDelivery, ConsumeNotStarted, Evaluate, durable, Rely, LeaseAdvances,
     Mine
<1>3. ASSUME RecordProcessed \/ CommitEvaluation \/ Recover \/ RefreshElsewhere,
             NEW v \in Worker
      PROVE  Rely(v)
  BY <1>3 DEF RecordProcessed, CommitEvaluation, Recover, RefreshElsewhere, Rely,
     LeaseAdvances, Mine
<1>4. ASSUME NEW e \in Event, Launch(e)
      PROVE  \E w \in Worker :
               /\ pc[w] = "idle" /\ pc' = [pc EXCEPT ![w] = "preflight"]
               /\ call' = [call EXCEPT ![w] = [NoCall EXCEPT !.event = e]]
               /\ UNCHANGED <<durable, helper, sent, cli>>
  BY <1>4 DEF Launch, Goto
<1>5. QED
  BY <1>1, <1>2, <1>3, <1>4 DEF Elsewhere

-------------------------------------------------------------------------------
(***************************************************************************)
(* What a worker and its helper do to themselves                           *)
(***************************************************************************)
\* As long as decisions and receipts stay, so does the claim of a call.
LEMMA Steady ==
  ASSUME NEW w \in Worker, UNCHANGED <<decision, receipt>>
  PROVE  /\ \A e : Mine(w, e)' <=> Mine(w, e)
         /\ call'[w].event = call[w].event =>
               /\ Claiming(w)' <=> Claiming(w)
               /\ Delivered(w)' <=> Delivered(w)
  BY DEF Claiming, Mine, StatusOf, Delivered

\* A call that returns is idle again only if it left nothing behind.
LEMMA ExitOwn ==
  ASSUME TypeOK, NEW w \in Worker, WorkerInv(w), Exit(w),
         UNCHANGED <<evidence, helper, decision, sent>>,
         pc[w] \notin {"wait", "dead"}
  PROVE  WorkerInv(w)'
<1>1. pc'[w] \in {"idle", "exited"}
  BY DEF Exit, Goto, TypeOK
<1>2. pc'[w] = "idle" => evidence[w] = "none" /\ \A e \in Event : ~Mine(w, e)
  BY DEF Exit, Goto, TypeOK, LeftTrace, Mine
<1>3. ~HelperRuns(w)
  BY DEF WorkerInv, Progress
<1>4. Subject(w)'
  BY <1>1, <1>2 DEF Subject, Mine
<1>5. Traces(w)'
  BY <1>1, <1>2, <1>3 DEF WorkerInv, Traces, Mine, Unsent, Fresh
<1>6. Progress(w)'
  BY <1>1, <1>3 DEF Progress, HelperRuns, Unsent
<1>7. Tokens(w)'
  BY <1>1 DEF Tokens, Granted, Unsent
<1>8. QED
  BY <1>4, <1>5, <1>6, <1>7 DEF WorkerInv

\* A worker that has not claimed yet goes on to a label before the claim.
LEMMA FreshOwn ==
  ASSUME TypeOK, NEW w \in Worker, WorkerInv(w),
         UNCHANGED <<evidence, helper, decision, receipt, lease, sent, request>>,
         pc[w] \in Fresh \ {"idle"}, pc'[w] \in Fresh \cup {"release"},
         pc'[w] \notin {"reclaim", "idle"},
         call'[w].event = call[w].event,
         pc'[w] \in Granted => pc[w] \in Granted /\ call'[w] = call[w]
  PROVE  WorkerInv(w)'
<1>1. Subject(w)'
  BY Steady DEF WorkerInv, Subject, Fresh
<1>2. Traces(w)'
  BY Steady DEF WorkerInv, Traces, Fresh, Unsent
<1>3. Progress(w)'
  BY DEF WorkerInv, Traces, Progress, HelperRuns, Fresh, Unsent
<1>4. Tokens(w)'
  BY DEF WorkerInv, Tokens
<1>5. QED
  BY <1>1, <1>2, <1>3, <1>4 DEF WorkerInv

LEMMA ApproachOwn ==
  ASSUME DInv, NEW w \in Worker,
         \/ Preflight(w) \/ RefreshBinding(w) \/ Classify(w) \/ Fence(w)
         \/ ReadGeneration(w) \/ CheckClaim(w)
  PROVE  WorkerInv(w)'
<1> USE DEF DInv
<1>1. UNCHANGED <<evidence, helper, decision, receipt, lease, sent, request>>
  BY DEF Preflight, RefreshBinding, Classify, Fence, ReadGeneration, CheckClaim, durable
<1>2. pc[w] \in {"preflight", "refresh", "classify", "fence", "readGeneration",
                 "checkClaim"}
  BY DEF Preflight, RefreshBinding, Classify, Fence, ReadGeneration, CheckClaim
<1>3. CASE Exit(w)
  BY <1>1, <1>2, <1>3, ExitOwn
<1>4. CASE ~Exit(w)
  <2>1. /\ pc'[w] \in {"refresh", "classify", "fence", "readGeneration", "acquire",
                       "claim", "release"}
        /\ pc'[w] \in {"claim", "release"} => pc[w] = "checkClaim" /\ call' = call
    BY <1>4 DEF Preflight, RefreshBinding, Classify, Fence, ReadGeneration, CheckClaim,
       Goto, TypeOK
  <2>2. call'[w].event = call[w].event
    <3>1. call[w] \in Call
      BY CallUpdate
    <3>2. \/ call' = call
          \/ \E n : call' = [call EXCEPT ![w] = [call[w] EXCEPT !.rev = n]]
          \/ \E n : call' = [call EXCEPT ![w] = [call[w] EXCEPT !.gen = n]]
      BY <1>4 DEF Preflight, RefreshBinding, Classify, Fence, ReadGeneration, CheckClaim
    <3>3. QED
      BY <3>1, <3>2 DEF TypeOK, Call
  <2>3. QED
    BY <1>1, <1>2, <2>1, <2>2, FreshOwn DEF Fresh, Granted, Unsent
<1>5. QED
  BY <1>3, <1>4

\* From its claim to the spawn of its helper a worker goes on with its claim.
LEMMA UnsentOwn ==
  ASSUME DInv, NEW w \in Worker,
         \/ Recheck(w) \/ Prepare(w) \/ FinalFence(w) \/ Rebind(w) \/ LastFence(w)
         \/ Send(w)
  PROVE  WorkerInv(w)'
<1> USE DEF DInv
<1>1. UNCHANGED <<decision, receipt, lease, sent, request, call>>
  BY DEF Recheck, Prepare, FinalFence, Rebind, LastFence, Send, durable
<1>2. /\ pc[w] \in Unsent \ {"notStarted"}
      /\ pc'[w] \in (Unsent \ {"recheck"}) \cup {"uncertain", "wait"}
  BY DEF Recheck, Prepare, FinalFence, Rebind, LastFence, Send, Goto, TypeOK, Unsent
<1>3. helper[w] = "none" /\ \A e \in Event : <<e, w>> \notin sent
  BY <1>2 DEF WorkerInv, Traces
<1>4. Claiming(w) /\ ~Delivered(w)
  BY <1>2 DEF WorkerInv, Progress
<1>5. Claiming(w)' /\ ~Delivered(w)'
  BY <1>1, <1>4, Steady
<1>6. /\ pc'[w] \in {"finalFence", "rebind", "lastFence", "send"} =>
            evidence'[w] # "none"
      /\ pc'[w] \in Unsent \cup {"uncertain"} => helper'[w] = "none"
      /\ pc'[w] = "wait" => helper'[w] = "started" /\ evidence'[w] # "none"
  <2>1. CASE Recheck(w)
    BY <1>3, <2>1 DEF Recheck, Goto, TypeOK, durable
  <2>2. CASE Prepare(w)
    BY <1>3, <2>2 DEF Prepare, Goto, TypeOK
  <2>3. CASE FinalFence(w) \/ Rebind(w) \/ LastFence(w)
    BY <1>3, <2>3 DEF FinalFence, Rebind, LastFence, Goto, TypeOK, durable, WorkerInv,
       Traces
  <2>4. CASE Send(w)
    BY <2>4 DEF Send, Goto, TypeOK, durable, WorkerInv, Traces, Unsent
  <2>5. QED
    BY <2>1, <2>2, <2>3, <2>4
<1>7. Subject(w)'
  BY <1>1, <1>2, Steady DEF WorkerInv, Subject, Unsent
<1>8. Traces(w)'
  BY <1>1, <1>2, <1>3, <1>6 DEF Traces, Fresh, Unsent
<1>9. Progress(w)'
  BY <1>1, <1>2, <1>3, <1>5, <1>6 DEF Progress, HelperRuns
<1>10. Tokens(w)'
  BY <1>1, <1>2 DEF WorkerInv, Tokens, Granted, Unsent
<1>11. QED
  BY <1>7, <1>8, <1>9, <1>10 DEF WorkerInv

\* A helper sends with the claim of its worker in place.
LEMMA HelperOwn ==
  ASSUME DInv, NEW w \in Worker,
         \/ HelperOpens(w) \/ HelperCheckpoints(w) \/ HelperSubmits(w)
         \/ HelperFails(w) \/ HelperDies(w)
  PROVE  WorkerInv(w)'
<1> USE DEF DInv
<1>1. UNCHANGED <<decision, receipt, lease, request, pc, call>>
  BY DEF HelperOpens, HelperCheckpoints, HelperSubmits, HelperFails, HelperDies, durable
<1>2. HelperRuns(w) /\ helper[w] # "none"
  BY DEF HelperOpens, HelperCheckpoints, HelperSubmits, HelperFails, HelperDies,
     HelperMoves, HelperRuns
<1>3. /\ pc[w] \in {"wait", "dead"} /\ Claiming(w) /\ call[w].event \in Event
      /\ \A e \in Event : <<e, w>> \in sent => e = call[w].event
  BY <1>2 DEF WorkerInv, Progress, Subject
<1>4. Claiming(w)' /\ (Delivered(w)' <=> Delivered(w))
  BY <1>1, <1>3, Steady
<1>5. \/ /\ helper[w] = "started" /\ helper'[w] = "opened"
         /\ evidence'[w] \in {"opened", evidence[w]} /\ UNCHANGED sent
      \/ /\ helper[w] \in {"opened", "submitted"} /\ UNCHANGED <<helper, sent>>
         /\ evidence'[w] = "opened"
      \/ /\ helper[w] = "opened" /\ helper'[w] = "submitted" /\ UNCHANGED evidence
         /\ sent' = sent \cup {<<call[w].event, w>>}
      \/ helper'[w] = "over" /\ UNCHANGED <<evidence, sent>>
  BY DEF HelperOpens, HelperCheckpoints, HelperSubmits, HelperFails, HelperDies,
     HelperMoves, TypeOK, durable
<1>6. evidence[w] # "none"
  BY <1>2 DEF WorkerInv, Traces
<1>7. Subject(w)'
  BY <1>1, Steady DEF WorkerInv, Subject
<1>8. Traces(w)'
  BY <1>1, <1>3, <1>5, <1>6, Steady DEF WorkerInv, Traces, Fresh, Unsent
<1>9. Progress(w)'
  BY <1>1, <1>3, <1>4, <1>5 DEF WorkerInv, Progress, Unsent
<1>10. Tokens(w)'
  BY <1>1 DEF WorkerInv, Tokens
<1>11. QED
  BY <1>7, <1>8, <1>9, <1>10 DEF WorkerInv

\* A confirmed message was sent under the lease that is still current.
LEMMA ConfirmsOwn ==
  ASSUME DInv, NEW w \in Worker, HelperConfirms(w)
  PROVE  WorkerInv(w)'
<1> USE DEF DInv
<1>1. UNCHANGED <<decision, receipt, lease, request, pc, call, evidence, sent>>
      /\ helper[w] = "submitted"
      /\ helper'[w] = IF evidence[w] = "opened" /\ ReceiptCurrent(w)
                      THEN "confirmed" ELSE "over"
  BY DEF HelperConfirms, TypeOK, durable
<1>1a. /\ helper'[w] \in {"confirmed", "over"}
       /\ helper'[w] = "confirmed" => evidence[w] = "opened" /\ ReceiptCurrent(w)
  BY <1>1
<1>2. /\ pc[w] \in {"wait", "dead"} /\ Claiming(w) /\ <<call[w].event, w>> \in sent
      /\ evidence[w] # "none"
      /\ \A f \in Event : <<f, w>> \in sent => f = call[w].event
  BY <1>1 DEF WorkerInv, Progress, Traces, HelperRuns
<1>3. Claiming(w)' /\ (Delivered(w)' <=> Delivered(w))
  BY <1>1, <1>2, Steady
<1>4. ReceiptCurrent(w) => request[call[w].event] = call[w].gen
  <2>1. ASSUME ReceiptCurrent(w)
        PROVE  request[call[w].event] = call[w].gen
    <3>1. /\ pc[w] = "wait" /\ request[call[w].event] = gen
          /\ lease # None /\ lease.token = call[w].token /\ lease.gen = gen
      BY <2>1 DEF ReceiptCurrent, DeliveryCurrent, LeaseCurrent
    <3>2. lease.token \in Nat
      BY <3>1 DEF TypeOK, Lease
    <3>3. lease.gen = call[w].gen
      BY <3>1, <3>2 DEF WorkerInv, Tokens, Granted
    <3>4. QED
      BY <3>1, <3>3
  <2>2. QED
    BY <2>1
<1>5. Subject(w)'
  BY <1>1, Steady DEF WorkerInv, Subject
<1>6. Traces(w)'
  BY <1>1, <1>1a, <1>2 DEF WorkerInv, Traces, Fresh, Unsent
<1>7. Progress(w)'
  BY <1>1, <1>1a, <1>2, <1>3, <1>4 DEF Progress, Unsent
<1>8. Tokens(w)'
  BY <1>1 DEF WorkerInv, Tokens
<1>9. QED
  BY <1>5, <1>6, <1>7, <1>8 DEF WorkerInv

\* Its helper runs on when a worker dies.
LEMMA DiesOwn ==
  ASSUME DInv, NEW w \in Worker, Dies(w)
  PROVE  WorkerInv(w)'
<1> USE DEF DInv
<1>1. UNCHANGED <<decision, receipt, lease, request, call, evidence, sent, helper>>
      /\ pc'[w] = "dead" /\ Running(w)
  BY DEF Dies, Goto, TypeOK
<1>2. Subject(w)'
  BY <1>1, Steady DEF WorkerInv, Subject, Running
<1>3. Traces(w)'
  BY <1>1 DEF WorkerInv, Traces, Fresh, Unsent
<1>4. Progress(w)'
  BY <1>1, Steady DEF WorkerInv, Progress, HelperRuns, Unsent
<1>5. Tokens(w)'
  BY <1>1 DEF Tokens, Granted, Unsent
<1>6. QED
  BY <1>2, <1>3, <1>4, <1>5 DEF WorkerInv

LEMMA MovesOwn ==
  ASSUME DInv, NEW w \in Worker, Moves(w)
  PROVE  WorkerInv(w)'
  BY ApproachOwn, UnsentOwn, HelperOwn, ConfirmsOwn, DiesOwn DEF Moves

\* A grant of the lease is the newest, and its worker knows its token.
LEMMA AcquireOwn ==
  ASSUME DInv, TypeOK', NEW w \in Worker, Acquire(w)
  PROVE  WorkerInv(w)'
<1> USE DEF DInv
<1>1. UNCHANGED <<evidence, helper, decision, receipt, sent, request>>
      /\ pc[w] = "acquire"
  BY DEF Acquire
<1>2. CASE Exit(w)
  BY <1>1, <1>2, ExitOwn
<1>3. CASE /\ lease' \in Lease
           /\ lease'.owner = w /\ lease'.gen = call[w].gen
           /\ call' = [call EXCEPT ![w] = [call[w] EXCEPT !.token = lease'.token]]
           /\ Goto(w, "checkClaim")
  <2>1. pc'[w] = "checkClaim"
    BY <1>3 DEF Goto, TypeOK
  <2>2. /\ call'[w].event = call[w].event /\ call'[w].gen = call[w].gen
        /\ call'[w].token = lease'.token
    <3>1. call[w] \in Call
      BY CallUpdate
    <3>2. QED
      BY <1>3, <3>1 DEF TypeOK, Call
  <2>3. Subject(w)' /\ Traces(w)'
    BY <1>1, <2>1, <2>2, Steady DEF WorkerInv, Subject, Traces, Fresh, Unsent
  <2>4. Progress(w)'
    BY <1>1, <2>1 DEF WorkerInv, Traces, Progress, HelperRuns, Fresh, Unsent
  <2>5. Tokens(w)'
    <3>1. lease' # None
      BY <1>3, WakeAssumption
    <3>2. QED
      BY <1>3, <2>1, <2>2, <3>1 DEF Tokens
  <2>6. QED
    BY <2>3, <2>4, <2>5 DEF WorkerInv
<1>4. QED
  BY <1>2, <1>3, Grant

LEMMA ReleaseOwn ==
  ASSUME DInv, NEW w \in Worker, Release(w)
  PROVE  WorkerInv(w)'
  BY ExitOwn DEF DInv, Release

\* What w claims under the lease it was granted is its claim.
LEMMA ClaimOwn ==
  ASSUME DInv, TypeOK', NEW w \in Worker, Claim(w) \/ Reclaim(w)
  PROVE  WorkerInv(w)'
<1> USE DEF DInv
<1> DEFINE e == call[w].event
<1>1. UNCHANGED <<evidence, helper, receipt, lease, sent, request>>
      /\ pc[w] \in {"claim", "reclaim"}
      /\ pc'[w] \in {"recheck", "reclaim", "release"}
  BY DEF Claim, Reclaim, Goto, TypeOK
<1>2. e \in Event /\ \A f \in Event : ~Mine(w, f)
  BY <1>1 DEF WorkerInv, Subject, Traces, Fresh
<1>3. evidence[w] = "none" /\ helper[w] = "none" /\ \A f \in Event : <<f, w>> \notin sent
  BY <1>1 DEF WorkerInv, Traces, Fresh
<1>4. /\ call'[w].event = e /\ call'[w].token = call[w].token
      /\ call'[w].gen = call[w].gen
      /\ pc'[w] = "reclaim" => call'[w].seen = decision[e]
  <2>1. call[w] \in Call
    BY CallUpdate
  <2>2. \/ call' = call /\ pc'[w] # "reclaim"
        \/ call' = [call EXCEPT ![w] = [call[w] EXCEPT !.seen = decision[e]]]
        \/ call' = [call EXCEPT ![w] = [call[w] EXCEPT !.seen = None]]
           /\ pc'[w] # "reclaim"
    BY DEF Claim, Reclaim, Goto, TypeOK
  <2>3. QED
    BY <2>1, <2>2 DEF TypeOK, Call
<1>5. \A f \in Event \ {e} : ~Mine(w, f)'
  BY <1>2, ClaimEffect DEF Mine
<1>6. CASE pc'[w] = "recheck"
  <2>1. decision'[e] = Claimed(w)
    BY <1>2, <1>6 DEF Claim, Reclaim, Goto, TypeOK
  <2>2. Claimed(w) # None /\ Claimed(w).by = w /\ Claimed(w).status = "CLAIMED"
    <3>1. Claimed(w) # None
      BY ClaimEffect, WakeAssumption
    <3>2. QED
      BY <3>1 DEF Claimed
  <2>3. Claiming(w)'
    BY <1>4, <2>1, <2>2 DEF Claiming, Mine, StatusOf
  <2>4. ~Delivered(w)'
    <3>1. receipt[e] # None => Mine(receipt[e].by, e)
      BY <1>2 DEF ReceiptIsOfTheMessage
    <3>2. QED
      BY <1>1, <1>2, <1>4, <3>1 DEF Delivered
  <2>5. Subject(w)'
    BY <1>2, <1>4, <1>5 DEF Subject
  <2>6. Traces(w)'
    BY <1>1, <1>3, <1>6 DEF Traces, Fresh, Unsent
  <2>7. Progress(w)'
    BY <1>1, <1>3, <1>6, <2>3, <2>4 DEF Progress, HelperRuns
  <2>8. Tokens(w)'
    BY <1>1, <1>4, <1>6 DEF WorkerInv, Tokens, Granted
  <2>9. QED
    BY <2>5, <2>6, <2>7, <2>8 DEF WorkerInv
<1>7. CASE pc'[w] # "recheck"
  <2>1. UNCHANGED decision
    BY <1>7 DEF Claim, Reclaim, Goto, TypeOK
  <2>2. \A f \in Event : ~Mine(w, f)'
    BY <1>2, <2>1, Steady, <1>1
  <2>3. Subject(w)'
    BY <1>2, <1>4, <2>2 DEF Subject
  <2>4. Traces(w)'
    BY <1>1, <1>3, <2>2 DEF Traces, Fresh, Unsent
  <2>5. Progress(w)'
    BY <1>1, <1>3, <1>7 DEF Progress, HelperRuns, Unsent
  <2>6. Tokens(w)'
    <3>1. pc'[w] = "reclaim" =>
             /\ decision[e] # None /\ decision[e].status = "TRANSPORT_NOT_STARTED"
             /\ decision[e].token < call[w].token
      <4>1. ASSUME pc'[w] = "reclaim"
            PROVE  decision[e] # None /\ Open(e) /\ LeaseCurrent(w)
        BY <4>1 DEF Claim, Reclaim, Goto, TypeOK
      <4>2. decision[e] # None /\ LeaseCurrent(w) => decision[e].token < call[w].token
        BY <1>2 DEF DecisionsAreGranted, LeaseCurrent, Mine
      <4>3. decision[e] # None => decision[e].status # None
        BY <1>2, WakeAssumption DEF TypeOK, Decision
      <4>4. QED
        BY <4>1, <4>2, <4>3 DEF Open, StatusOf
    <3>2. QED
      BY <1>1, <1>4, <3>1 DEF WorkerInv, Tokens, Granted
  <2>7. QED
    BY <2>3, <2>4, <2>5, <2>6 DEF WorkerInv
<1>8. QED
  BY <1>6, <1>7

\* A worker keeps its claim until it has said what became of the transport.
LEMMA DecidesOwn ==
  ASSUME DInv, TypeOK', NEW w \in Worker, Decides(w)
  PROVE  WorkerInv(w)'
<1> USE DEF DInv
<1> DEFINE e == call[w].event
<1>1. e \in Event
  BY DecidesEvent
<1>2. UNCHANGED <<lease, receipt, request, sent, evidence, call>>
  BY DEF Decides, Wait, GiveUp, HelperDecides
<1>3. \A f \in Event : Mine(w, f)' <=> Mine(w, f)
  <2>1. CASE UNCHANGED decision
    BY <2>1 DEF Mine
  <2>2. CASE \E s \in Status : UpdateDecision(w, s)
    BY <1>1, <2>2, UpdateMine DEF Mine
  <2>3. QED
    BY <2>1, <2>2, DecidesEvent
<1>4. Delivered(w)' <=> Delivered(w)
  BY <1>2 DEF Delivered
<1>5. \/ /\ pc[w] = "wait" /\ helper[w] = "over" /\ UNCHANGED helper
         /\ \/ pc'[w] = "release"
            \/ pc'[w] = "uncertain" /\ ~Delivered(w) /\ UNCHANGED decision
      \/ /\ pc[w] \in {"uncertain", "notStarted"} /\ pc'[w] = "release"
         /\ UNCHANGED helper
      \/ /\ helper[w] = "committed" /\ helper'[w] = "over" /\ UNCHANGED pc
         /\ UpdateDecision(w, "DELIVERED")
  BY DEF Decides, Wait, GiveUp, HelperDecides, HelperMoves, Goto, TypeOK
<1>6. Subject(w)'
  BY <1>1, <1>2, <1>3, <1>5 DEF WorkerInv, Subject
<1>7. Traces(w)'
  BY <1>2, <1>3, <1>5 DEF WorkerInv, Traces, Fresh, Unsent
<1>8. Tokens(w)'
  BY <1>2, <1>5 DEF WorkerInv, Tokens, Granted, Unsent
<1>9. Progress(w)'
  <2>1. CASE pc[w] \in {"wait", "uncertain", "notStarted"} /\ pc'[w] \in {"release", "uncertain"}
    <3>1. ~HelperRuns(w)'
      <4>1. helper[w] = "over" \/ pc[w] \in {"uncertain", "notStarted"}
        BY <1>5, <2>1
      <4>2. helper'[w] = helper[w] /\ ~HelperRuns(w)
        BY <1>5, <2>1, <4>1 DEF WorkerInv, Progress, HelperRuns
      <4>3. QED
        BY <4>2 DEF HelperRuns
    <3>2. pc'[w] = "uncertain" => Claiming(w) /\ ~Delivered(w) /\ UNCHANGED decision
      BY <1>5, <2>1 DEF WorkerInv, Progress
    <3>3. pc'[w] = "uncertain" => Claiming(w)' /\ ~Delivered(w)'
      BY <1>2, <3>2, Steady
    <3>4. QED
      BY <2>1, <3>1, <3>3 DEF Progress, HelperRuns, Unsent
  <2>2. CASE helper[w] = "committed" /\ helper'[w] = "over" /\ UNCHANGED pc
    <3>1. pc[w] \in {"wait", "dead"}
      BY <2>2 DEF WorkerInv, Progress, HelperRuns
    <3>2. Delivered(w)
      BY <2>2 DEF WorkerInv, Progress
    <3>3. QED
      BY <1>4, <2>2, <3>1, <3>2 DEF Progress, HelperRuns, Unsent
  <2>3. QED
    BY <1>5, <2>1, <2>2
<1>10. QED
  BY <1>6, <1>7, <1>8, <1>9 DEF WorkerInv

\* The receipt of a helper is the one that its worker looks for.
LEMMA CommitsEffect ==
  ASSUME DInv, NEW w \in Worker, HelperCommits(w)
  PROVE  LET e == call[w].event
             r == [by |-> w, gen |-> call[w].gen, rev |-> call[w].rev]
         IN  /\ e \in Event
             /\ \A f \in Event \ {e} : receipt'[f] = receipt[f]
             /\ \/ /\ receipt[e] = None /\ r # None /\ receipt'[e] = r
                   /\ helper'[w] = "committed"
                \/ UNCHANGED receipt /\ helper'[w] = "over"
<1> USE DEF DInv
<1>1. call[w].event \in Event
  BY DEF WorkerInv, Subject, Progress, HelperCommits, HelperRuns
<1>2. [by |-> w, gen |-> call[w].gen, rev |-> call[w].rev] \in Receipt
  BY CallUpdate DEF Receipt, Call
<1>3. QED
  BY <1>1, <1>2, WakeAssumption DEF HelperCommits, TypeOK

LEMMA CommitsOwn ==
  ASSUME DInv, NEW w \in Worker, HelperCommits(w)
  PROVE  WorkerInv(w)'
<1> USE DEF DInv
<1> DEFINE e == call[w].event
           r == [by |-> w, gen |-> call[w].gen, rev |-> call[w].rev]
<1>1. UNCHANGED <<decision, lease, request, pc, call, evidence, sent>>
      /\ helper[w] = "confirmed"
  BY DEF HelperCommits
<1>2. /\ pc[w] \in {"wait", "dead"} /\ Claiming(w) /\ <<e, w>> \in sent
      /\ evidence[w] = "opened" /\ request[e] = call[w].gen
      /\ \A f \in Event : <<f, w>> \in sent => f = e
  BY <1>1 DEF WorkerInv, Progress, Traces, HelperRuns
<1>3. Claiming(w)' /\ \A f \in Event : Mine(w, f)' <=> Mine(w, f)
  BY <1>1, <1>2 DEF Claiming, Mine, StatusOf
<1>4. helper'[w] \in {"committed", "over"} /\ (helper'[w] = "committed" => Delivered(w)')
  <2>1. r.by = w
    OBVIOUS
  <2>2. QED
    BY <1>1, <2>1, CommitsEffect DEF Delivered
<1>5. Subject(w)'
  BY <1>1, <1>3 DEF WorkerInv, Subject
<1>6. Traces(w)'
  BY <1>1, <1>2, <1>4 DEF Traces, Fresh, Unsent
<1>7. Progress(w)'
  BY <1>1, <1>2, <1>3, <1>4 DEF Progress, Unsent
<1>8. Tokens(w)'
  BY <1>1 DEF WorkerInv, Tokens
<1>9. QED
  BY <1>5, <1>6, <1>7, <1>8 DEF WorkerInv

\* A launched worker starts from nothing.
LEMMA LaunchKeeps ==
  ASSUME DInv, TypeOK', NEW w \in Worker, NEW e \in Event,
         pc[w] = "idle", pc' = [pc EXCEPT ![w] = "preflight"],
         call' = [call EXCEPT ![w] = [NoCall EXCEPT !.event = e]],
         UNCHANGED <<durable, helper, sent, cli>>
  PROVE  \A v \in Worker : WorkerInv(v)'
<1> USE DEF DInv
<1>1. ASSUME NEW v \in Worker, v # w
      PROVE  WorkerInv(v)'
  <2>1. Rely(v)
    BY <1>1 DEF Rely, TypeOK, durable, LeaseAdvances, Mine
  <2>2. QED
    BY <2>1, RelyKeeps
<1>2. WorkerInv(w)'
  <2>1. pc'[w] = "preflight" /\ call'[w].event = e
    BY DEF TypeOK, NoCall
  <2>2. UNCHANGED <<decision, helper, evidence, sent>>
    BY DEF durable
  <2>3. Subject(w)'
    BY <2>1, <2>2 DEF WorkerInv, Subject, Traces, Fresh, Mine
  <2>4. Traces(w)'
    BY <2>1, <2>2 DEF WorkerInv, Traces, Fresh, Mine
  <2>5. Progress(w)' /\ Tokens(w)'
    BY <2>1, <2>2 DEF WorkerInv, Traces, Progress, Tokens, HelperRuns, Fresh, Unsent,
       Granted
  <2>6. QED
    BY <2>3, <2>4, <2>5 DEF WorkerInv
<1>3. QED
  BY <1>1, <1>2

-------------------------------------------------------------------------------
(***************************************************************************)
(* What a step does to the events                                          *)
(***************************************************************************)
EventsInv ==
    /\ DecisionsAreGranted /\ SentIsNeverReopened
    /\ ReceiptIsOfTheMessage /\ ConsumedIsReceipted

\* A step of one worker keeps the others, and itself when that is shown apart.
LEMMA Others ==
  ASSUME DInv, TypeOK', NEW w \in Worker, WorkerInv(w)',
         \A v \in Worker \ {w} : Rely(v)
  PROVE  \A v \in Worker : WorkerInv(v)'
<1>1. ASSUME NEW v \in Worker, v # w
      PROVE  WorkerInv(v)'
  BY <1>1, RelyKeeps DEF DInv
<1>2. QED
  BY <1>1

\* Decisions keep their owner, and what was recorded or receipted does not reopen.
Quiet ==
    /\ LeaseAdvances
    /\ UNCHANGED receipt
    /\ \A e \in Event : Recorded(e)' = Recorded(e)
    /\ \A e \in Event :
          /\ request[e] # None => request'[e] = request[e]
          /\ consumption'[e] # None => receipt[e] # None
          /\ decision[e] = None => decision'[e] = None
          /\ decision[e] # None =>
                /\ decision'[e] # None
                /\ decision'[e].by = decision[e].by
                /\ decision'[e].token = decision[e].token
          /\ \/ decision'[e] = decision[e]
             \/ /\ Recorded(e) # {} => ~Open(e)'
                /\ receipt[e] # None => decision'[e].status \in {"CLAIMED", "DELIVERED"}

LEMMA QuietKeeps ==
  ASSUME DInv, TypeOK', Quiet
  PROVE  EventsInv'
<1> USE DEF DInv
<1>1. ASSUME NEW e \in Event, decision'[e] # None
      PROVE  /\ lease' # None
             /\ \/ decision'[e].token < lease'.token
                \/ decision'[e].token = lease'.token /\ decision'[e].by = lease'.owner
  <2>1. /\ decision[e] # None
        /\ decision'[e].by = decision[e].by /\ decision'[e].token = decision[e].token
    BY <1>1 DEF Quiet
  <2>2. /\ lease # None
        /\ \/ decision[e].token < lease.token
           \/ decision[e].token = lease.token /\ decision[e].by = lease.owner
    BY <2>1 DEF DecisionsAreGranted
  <2>3. /\ lease' # None
        /\ \/ lease'.token = lease.token /\ lease'.owner = lease.owner
           \/ lease'.token > lease.token
    BY <2>2 DEF Quiet, LeaseAdvances
  <2>4. decision[e].token \in Nat /\ lease.token \in Nat /\ lease'.token \in Nat
    BY <2>1, <2>2, <2>3 DEF TypeOK, Decision, Lease
  <2>5. QED
    BY <2>1, <2>2, <2>3, <2>4
<1>2. ASSUME NEW e \in Event, NEW w \in Recorded(e)'
      PROVE  Mine(w, e)' /\ ~Open(e)'
  <2>1. Mine(w, e) /\ ~Open(e) /\ w \in Recorded(e)
    BY <1>2 DEF SentIsNeverReopened, Quiet
  <2>2. Mine(w, e)'
    BY <2>1 DEF Quiet, Mine
  <2>3. ~Open(e)'
    BY <2>1 DEF Quiet, Open, StatusOf
  <2>4. QED
    BY <2>2, <2>3
<1>3. ASSUME NEW e \in Event, receipt'[e] # None
      PROVE  /\ receipt'[e].by \in Recorded(e)'
             /\ Mine(receipt[e].by, e)'
             /\ decision'[e].status \in {"CLAIMED", "DELIVERED"}
             /\ receipt'[e].gen = request'[e]
  <2>1. /\ receipt[e] # None /\ receipt'[e] = receipt[e]
        /\ Recorded(e)' = Recorded(e) /\ receipt[e].by \in Recorded(e)
        /\ Mine(receipt[e].by, e)
        /\ decision[e].status \in {"CLAIMED", "DELIVERED"}
        /\ receipt[e].gen = request[e]
    BY <1>3 DEF ReceiptIsOfTheMessage, Quiet
  <2>2. request'[e] = request[e]
    <3>1. receipt[e] \in Receipt
      BY <2>1 DEF TypeOK
    <3>2. request[e] # None
      BY <2>1, <3>1, WakeAssumption DEF Receipt
    <3>3. QED
      BY <3>2 DEF Quiet
  <2>3. Mine(receipt[e].by, e)'
    BY <2>1 DEF Quiet, Mine
  <2>4. decision'[e].status \in {"CLAIMED", "DELIVERED"}
    BY <2>1 DEF Quiet
  <2>5. QED
    BY <2>1, <2>2, <2>3, <2>4
<1>4. ConsumedIsReceipted'
  BY DEF Quiet, ConsumedIsReceipted
<1>5. DecisionsAreGranted'
  BY <1>1 DEF DecisionsAreGranted
<1>6. SentIsNeverReopened'
  BY <1>2 DEF SentIsNeverReopened
<1>7. ReceiptIsOfTheMessage'
  BY <1>3 DEF ReceiptIsOfTheMessage
<1>8. QED
  BY <1>4, <1>5, <1>6, <1>7 DEF EventsInv

\* The submission of w becomes a recorded one under its claim.
Records(w) ==
    \E e \in Event :
        /\ Mine(w, e) /\ StatusOf(e) = "CLAIMED"
        /\ Recorded(e)' = Recorded(e) \cup {w}
        /\ \A f \in Event \ {e} : Recorded(f)' = Recorded(f)

\* A submission counts from when both it has happened and its evidence is opened.
LEMMA MovesRecord ==
  ASSUME DInv, NEW w \in Worker, Moves(w)
  PROVE  (\A e \in Event : Recorded(e)' = Recorded(e)) \/ Records(w)
<1> USE DEF DInv
<1>1. CASE UNCHANGED <<evidence, sent>>
  BY <1>1 DEF Recorded
<1>2. CASE Prepare(w)
  <2>1. \A e \in Event : <<e, w>> \notin sent
    BY <1>2 DEF Prepare, WorkerInv, Traces, Unsent
  <2>2. sent' = sent /\ \A v \in Worker \ {w} : evidence'[v] = evidence[v]
    BY <1>2 DEF Prepare, TypeOK
  <2>3. QED
    BY <2>1, <2>2 DEF Recorded
<1>3. CASE HelperSubmits(w) \/ HelperOpens(w) \/ HelperCheckpoints(w)
  <2>1. /\ Claiming(w) /\ call[w].event \in Event
        /\ \A e \in Event : <<e, w>> \in sent => e = call[w].event
    BY <1>3 DEF WorkerInv, Progress, Subject, HelperSubmits, HelperOpens,
       HelperCheckpoints, HelperMoves, HelperRuns
  <2>2. /\ \A v \in Worker \ {w} : evidence'[v] = evidence[v]
        /\ evidence[w] = "opened" => evidence'[w] = "opened"
        /\ sent' \in {sent, sent \cup {<<call[w].event, w>>}}
    BY <1>3 DEF HelperSubmits, HelperOpens, HelperCheckpoints, TypeOK, durable
  <2>3. PICK e \in Event : e = call[w].event
    BY <2>1
  <2>4. \A f \in Event \ {e} : Recorded(f)' = Recorded(f)
    BY <2>1, <2>2, <2>3 DEF Recorded
  <2>5. \A v \in Worker \ {w} : v \in Recorded(e)' <=> v \in Recorded(e)
    BY <2>2, <2>3 DEF Recorded
  <2>6. w \in Recorded(e) => w \in Recorded(e)'
    BY <2>2 DEF Recorded
  <2>7. Recorded(e) \subseteq Worker /\ Recorded(e)' \subseteq Worker
    BY DEF Recorded
  <2>8. Recorded(e)' \in {Recorded(e), Recorded(e) \cup {w}}
    BY <2>5, <2>6, <2>7
  <2>9. Mine(w, e) /\ StatusOf(e) = "CLAIMED"
    BY <2>1, <2>3 DEF Claiming
  <2>10. QED
    BY <2>4, <2>8, <2>9 DEF Records
<1>4. QED
  BY <1>1, <1>2, <1>3, OwnEvidence, OnlyOwnSent

LEMMA RecordsEvents ==
  ASSUME DInv, NEW w \in Worker, Moves(w), Records(w)
  PROVE  EventsInv'
<1> USE DEF DInv
<1>1. UNCHANGED <<decision, receipt, lease, request, consumption>>
  BY MovesAlone DEF Settled
<1>0. PICK e \in Event :
        /\ Mine(w, e) /\ StatusOf(e) = "CLAIMED"
        /\ Recorded(e)' = Recorded(e) \cup {w}
        /\ \A f \in Event \ {e} : Recorded(f)' = Recorded(f)
  BY DEF Records
<1>2. \A f \in Event : Recorded(f) \subseteq Recorded(f)'
  BY <1>0
<1>3. ASSUME NEW f \in Event, NEW v \in Recorded(f)'
      PROVE  Mine(v, f) /\ ~Open(f)
  <2>1. CASE v \in Recorded(f)
    BY <2>1 DEF SentIsNeverReopened
  <2>2. CASE f = e /\ v = w
    BY <1>0, <2>2, WakeAssumption DEF Open, Status
  <2>3. QED
    BY <1>0, <2>1, <2>2
<1>4. SentIsNeverReopened'
  BY <1>1, <1>3 DEF SentIsNeverReopened, Mine, Open, StatusOf
<1>5. ReceiptIsOfTheMessage'
  BY <1>1, <1>2 DEF ReceiptIsOfTheMessage, Mine
<1>6. DecisionsAreGranted' /\ ConsumedIsReceipted'
  BY <1>1 DEF DecisionsAreGranted, ConsumedIsReceipted
<1>7. QED
  BY <1>4, <1>5, <1>6 DEF EventsInv

\* Only a decision without a recorded message is taken over.
LEMMA ClaimEvents ==
  ASSUME DInv, NEW w \in Worker, Claim(w) \/ Reclaim(w)
  PROVE  EventsInv'
<1> USE DEF DInv
<1> DEFINE e == call[w].event
<1>1. UNCHANGED <<lease, receipt, request, consumption, sent, evidence>>
      /\ pc[w] \in {"claim", "reclaim"}
  BY DEF Claim, Reclaim
<1>0. \A f \in Event : Recorded(f)' = Recorded(f)
  BY <1>1 DEF Recorded
<1>2. CASE decision'[e] # decision[e]
  <2>1. /\ e \in Event /\ decision'[e] = Claimed(w) /\ Claimed(w) \in Decision
        /\ \A f \in Event \ {e} : decision'[f] = decision[f]
        /\ decision[e] = None \/ decision[e].status = "TRANSPORT_NOT_STARTED"
    BY <1>2, ClaimEffect
  <2>2. Open(e)
    BY <2>1 DEF Open, StatusOf
  <2>3. receipt[e] = None /\ Recorded(e) = {}
    <3>1. Recorded(e) = {}
      BY <2>1, <2>2 DEF SentIsNeverReopened
    <3>2. QED
      BY <2>1, <3>1 DEF ReceiptIsOfTheMessage
  <2>4. DecisionsAreGranted'
    <3>1. /\ lease # None
          /\ \/ call[w].token < lease.token
             \/ call[w].token = lease.token /\ lease.owner = w
      BY <1>1 DEF WorkerInv, Tokens, Granted
    <3>2. Claimed(w).token = call[w].token /\ Claimed(w).by = w
      BY DEF Claimed
    <3>3. QED
      BY <1>1, <2>1, <3>1, <3>2 DEF DecisionsAreGranted
  <2>5. SentIsNeverReopened'
    BY <1>0, <1>1, <2>1, <2>3 DEF SentIsNeverReopened, Mine, Open, StatusOf
  <2>6. ReceiptIsOfTheMessage'
    BY <1>0, <1>1, <2>1, <2>3 DEF ReceiptIsOfTheMessage, Mine
  <2>7. ConsumedIsReceipted'
    BY <1>1 DEF ConsumedIsReceipted
  <2>8. QED
    BY <2>4, <2>5, <2>6, <2>7 DEF EventsInv
<1>3. CASE decision'[e] = decision[e]
  <2>1. \A f \in Event : decision'[f] = decision[f]
    BY <1>3, ClaimEffect
  <2>2. QED
    BY <1>0, <1>1, <2>1 DEF EventsInv, DecisionsAreGranted, SentIsNeverReopened,
       ReceiptIsOfTheMessage, ConsumedIsReceipted, Mine, Open, StatusOf
<1>4. QED
  BY <1>2, <1>3

\* A receipt is created for the message of the worker, under its claim.
LEMMA CommitsEvents ==
  ASSUME DInv, NEW w \in Worker, HelperCommits(w)
  PROVE  EventsInv'
<1> USE DEF DInv
<1> DEFINE e == call[w].event
           r == [by |-> w, gen |-> call[w].gen, rev |-> call[w].rev]
<1>1. UNCHANGED <<lease, decision, request, consumption, sent, evidence>>
      /\ helper[w] = "confirmed"
  BY DEF HelperCommits
<1>2. /\ e \in Event
      /\ \A f \in Event \ {e} : receipt'[f] = receipt[f]
      /\ \/ receipt[e] = None /\ r # None /\ receipt'[e] = r
         \/ UNCHANGED receipt
  BY CommitsEffect
<1>3. Claiming(w) /\ w \in Recorded(e) /\ request[e] = call[w].gen
  BY <1>1 DEF WorkerInv, Progress, Traces, HelperRuns, Recorded
<1>0. \A f \in Event : Recorded(f)' = Recorded(f)
  BY <1>1 DEF Recorded
<1>4. ReceiptIsOfTheMessage'
  <2>1. ASSUME NEW f \in Event, receipt'[f] # None
        PROVE  /\ receipt'[f].by \in Recorded(f)
               /\ Mine(receipt'[f].by, f)
               /\ decision[f].status \in {"CLAIMED", "DELIVERED"}
               /\ receipt'[f].gen = request[f]
    <3>1. CASE receipt'[f] = receipt[f]
      BY <2>1, <3>1 DEF ReceiptIsOfTheMessage
    <3>2. CASE f = e /\ receipt'[e] = r
      <4>1. r.by = w /\ r.gen = call[w].gen
        OBVIOUS
      <4>2. Mine(w, e) /\ decision[e].status = "CLAIMED"
        BY <1>3 DEF Claiming, StatusOf, Mine
      <4>3. QED
        BY <1>3, <3>2, <4>1, <4>2
    <3>3. QED
      BY <1>2, <3>1, <3>2
  <2>2. QED
    BY <1>0, <1>1, <2>1 DEF ReceiptIsOfTheMessage, Mine
<1>5. ConsumedIsReceipted'
  BY <1>1, <1>2 DEF ConsumedIsReceipted
<1>6. DecisionsAreGranted' /\ SentIsNeverReopened'
  BY <1>0, <1>1 DEF DecisionsAreGranted, SentIsNeverReopened, Mine, Open, StatusOf
<1>7. QED
  BY <1>4, <1>5, <1>6 DEF EventsInv

\* What a worker says of its own decision is no more than it knows.
LEMMA DecidesQuiet ==
  ASSUME DInv, NEW w \in Worker, Decides(w)
  PROVE  Quiet
<1> USE DEF DInv
<1> DEFINE e == call[w].event
<1>1. e \in Event
  BY DecidesEvent
<1>2. UNCHANGED <<lease, receipt, request, sent, evidence, consumption>>
      /\ \A f \in Event : Recorded(f)' = Recorded(f)
  BY DEF Decides, Wait, GiveUp, HelperDecides, Recorded
<1>3. \/ UNCHANGED decision
      \/ \E s \in {"DELIVERED", "UNCERTAIN", "TRANSPORT_NOT_STARTED"} :
            /\ UpdateDecision(w, s)
            /\ s = "DELIVERED" \/ ~Delivered(w)
            /\ s = "TRANSPORT_NOT_STARTED" => \A f \in Event : <<f, w>> \notin sent
  <2>1. CASE Wait(w)
    BY <2>1 DEF Wait
  <2>2. CASE GiveUp(w)
    <3>1. ~Delivered(w)
      BY <2>2 DEF GiveUp, WorkerInv, Progress, Unsent
    <3>2. pc[w] = "notStarted" => \A f \in Event : <<f, w>> \notin sent
      BY DEF WorkerInv, Traces, Unsent
    <3>3. QED
      BY <2>2, <3>1, <3>2 DEF GiveUp
  <2>3. CASE HelperDecides(w)
    BY <2>3 DEF HelperDecides
  <2>4. QED
    BY <2>1, <2>2, <2>3 DEF Decides
<1>4. CASE UNCHANGED decision
  BY <1>2, <1>4 DEF Quiet, LeaseAdvances, ConsumedIsReceipted
<1>5. ASSUME NEW s \in {"DELIVERED", "UNCERTAIN", "TRANSPORT_NOT_STARTED"},
             UpdateDecision(w, s), s = "DELIVERED" \/ ~Delivered(w),
             s = "TRANSPORT_NOT_STARTED" => \A f \in Event : <<f, w>> \notin sent
      PROVE  Quiet
  <2>1. s \in Status
    BY DEF Status
  <2>2. ASSUME NEW f \in Event
        PROVE  /\ decision[f] = None => decision'[f] = None
               /\ decision[f] # None =>
                     /\ decision'[f] # None
                     /\ decision'[f].by = decision[f].by
                     /\ decision'[f].token = decision[f].token
    BY <1>1, <1>5, <2>1, UpdateMine
  <2>3. ASSUME NEW f \in Event, decision'[f] # decision[f]
        PROVE  /\ Recorded(f) # {} => ~Open(f)'
               /\ receipt[f] # None => decision'[f].status \in {"CLAIMED", "DELIVERED"}
    <3>1. f = e /\ Mine(w, e)
      BY <1>1, <1>5, <2>1, <2>3, UpdateMine
    <3>2. Claiming(w)
      BY <1>5, <2>3, <3>1 DEF UpdateDecision, Claiming
    <3>3. decision'[e] # None /\ decision'[e].status = s
      BY <1>1, <1>5, <2>1, <3>1, <3>2, UpdateMine DEF Mine
    <3>4. ASSUME NEW v \in Recorded(e)
          PROVE  v = w
      BY <1>1, <3>1, <3>4 DEF SentIsNeverReopened, Mine
    <3>5. Recorded(f) # {} => ~Open(f)'
      <4>1. Recorded(e) # {} => s # "TRANSPORT_NOT_STARTED"
        BY <1>1, <1>5, <3>4 DEF Recorded
      <4>2. s # None
        BY <2>1, WakeAssumption
      <4>3. Open(f)' => s \in {None, "TRANSPORT_NOT_STARTED"}
        BY <3>1, <3>3 DEF Open, StatusOf
      <4>4. QED
        BY <3>1, <4>1, <4>2, <4>3
    <3>6. receipt[e] # None => s = "DELIVERED"
      <4>1. receipt[e] # None => receipt[e].by = w
        BY <1>1, <3>1 DEF ReceiptIsOfTheMessage, Mine
      <4>2. QED
        BY <1>5, <4>1 DEF Delivered
    <3>7. QED
      BY <3>1, <3>3, <3>5, <3>6
  <2>4. QED
    BY <1>2, <2>2, <2>3 DEF Quiet, LeaseAdvances, ConsumedIsReceipted
<1>6. QED
  BY <1>3, <1>4, <1>5

\* What is reconciled has no recorded message: the evidence is as it was prepared.
LEMMA ReconcileQuiet ==
  ASSUME DInv, NEW e \in Event, Reconcile(e)
  PROVE  Quiet
<1> USE DEF DInv
<1>1. UNCHANGED <<lease, receipt, request, sent, evidence, consumption>>
      /\ \A f \in Event : Recorded(f)' = Recorded(f)
  BY DEF Reconcile, Recorded
<1>2. Recorded(e) = {}
  <2>1. ASSUME NEW w \in Recorded(e)
        PROVE  FALSE
    <3>1. decision[e].by = w /\ evidence[w] = "opened"
      BY <2>1 DEF SentIsNeverReopened, Mine, Recorded
    <3>2. QED
      BY <3>1, ReconcileEffect
  <2>2. QED
    BY <2>1
<1>3. QED
  BY <1>1, <1>2, ReconcileEffect DEF Quiet, LeaseAdvances, ConsumedIsReceipted

LEMMA ElsewhereQuiet ==
  ASSUME DInv, Elsewhere
  PROVE  Quiet
<1> USE DEF DInv
<1>1. UNCHANGED <<lease, decision, receipt, sent, evidence>>
  BY DEF Elsewhere, Launch, Enqueue, Evaluate, ConsumeDelivery, ConsumeNotStarted,
     RecordProcessed, CommitEvaluation, Recover, RefreshElsewhere, durable
<1>2. ASSUME NEW e \in Event, request[e] # None
      PROVE  request'[e] = request[e]
  BY <1>2 DEF Elsewhere, Launch, Enqueue, Evaluate, ConsumeDelivery, ConsumeNotStarted,
     RecordProcessed, CommitEvaluation, Recover, RefreshElsewhere, durable, TypeOK
<1>3. ASSUME NEW e \in Event, consumption'[e] # None
      PROVE  receipt[e] # None
  <2>1. consumption'[e] = consumption[e] \/ receipt[e] # None
    BY DEF Elsewhere, Launch, Enqueue, Evaluate, ConsumeDelivery, ConsumeNotStarted,
       RecordProcessed, CommitEvaluation, Recover, RefreshElsewhere, durable, TypeOK,
       Consumable
  <2>2. QED
    BY <1>3, <2>1 DEF ConsumedIsReceipted
<1>4. QED
  BY <1>1, <1>2, <1>3 DEF Quiet, LeaseAdvances, Recorded

-------------------------------------------------------------------------------
(***************************************************************************)
(* The inductive invariant                                                 *)
(***************************************************************************)
LEMMA MovesEvents ==
  ASSUME DInv, TypeOK', NEW w \in Worker, Moves(w)
  PROVE  EventsInv'
<1>1. CASE Records(w)
  BY <1>1, RecordsEvents
<1>2. CASE \A e \in Event : Recorded(e)' = Recorded(e)
  <2>1. Settled /\ UNCHANGED consumption
    BY MovesAlone DEF DInv
  <2>2. Quiet
    BY <1>2, <2>1 DEF Quiet, Settled, LeaseAdvances, DInv, ConsumedIsReceipted
  <2>3. QED
    BY <2>2, QuietKeeps
<1>3. QED
  BY <1>1, <1>2, MovesRecord

LEMMA LeaseEvents ==
  ASSUME DInv, TypeOK', NEW w \in Worker, Acquire(w) \/ Release(w)
  PROVE  EventsInv'
<1> USE DEF DInv
<1>1. LeaseAdvances
  BY LeaseMoves
<1>2. UNCHANGED <<decision, receipt, sent, evidence, request, consumption>>
  BY DEF Acquire, Release
<1>3. Quiet
  BY <1>1, <1>2 DEF Quiet, ConsumedIsReceipted, Recorded
<1>4. QED
  BY <1>3, QuietKeeps

LEMMA StepOfWorker ==
  ASSUME DInv, NEW w \in Worker, WorkerStep(w) \/ HelperStep(w) \/ HelperFails(w)
                                 \/ HelperDies(w) \/ Dies(w)
  PROVE  DInv'
<1> USE DEF EventsInv
<1>1. UNCHANGED cli
  BY DEF WorkerStep, HelperStep, Preflight, RefreshBinding, Classify, Fence,
     ReadGeneration, Acquire, CheckClaim, Claim, Reclaim, Recheck, Prepare, FinalFence,
     Rebind, LastFence, Send, Wait, GiveUp, Release, HelperOpens, HelperCheckpoints,
     HelperSubmits, HelperConfirms, HelperCommits, HelperDecides, HelperFails, HelperDies, Dies
<1>2. CASE Moves(w)
  <2>1. TypeOK' /\ EventsInv' /\ WorkerInv(w)'
    BY <1>2, MovesTypes, MovesEvents, MovesOwn
  <2>2. \A v \in Worker : WorkerInv(v)'
    BY <1>2, <2>1, MovesRely, Others DEF DInv
  <2>3. QED
    BY <1>1, <2>1, <2>2 DEF DInv
<1>3. CASE Acquire(w) \/ Release(w)
  <2>1. TypeOK'
    BY <1>3, LeaseTypes
  <2>2. EventsInv' /\ WorkerInv(w)'
    BY <1>3, <2>1, LeaseEvents, AcquireOwn, ReleaseOwn
  <2>3. \A v \in Worker : WorkerInv(v)'
    BY <1>3, <2>1, <2>2, LeaseRely, Others
  <2>4. QED
    BY <1>1, <2>1, <2>2, <2>3 DEF DInv
<1>4. CASE Claim(w) \/ Reclaim(w)
  <2>1. TypeOK'
    BY <1>4, DecisionTypes
  <2>2. EventsInv' /\ WorkerInv(w)'
    BY <1>4, <2>1, ClaimEvents, ClaimOwn
  <2>3. \A v \in Worker : WorkerInv(v)'
    BY <1>4, <2>1, <2>2, ClaimRely, Others
  <2>4. QED
    BY <1>1, <2>1, <2>2, <2>3 DEF DInv
<1>5. CASE Decides(w)
  <2>1. TypeOK'
    BY <1>5, DecisionTypes DEF Decides
  <2>2. EventsInv' /\ WorkerInv(w)'
    BY <1>5, <2>1, DecidesQuiet, QuietKeeps, DecidesOwn
  <2>3. \A v \in Worker : WorkerInv(v)'
    BY <1>5, <2>1, <2>2, DecidesRely, Others
  <2>4. QED
    BY <1>1, <2>1, <2>2, <2>3 DEF DInv
<1>6. CASE HelperCommits(w)
  <2>1. TypeOK'
    BY <1>6, DecisionTypes
  <2>2. EventsInv' /\ WorkerInv(w)'
    BY <1>6, <2>1, CommitsEvents, CommitsOwn
  <2>3. \A v \in Worker : WorkerInv(v)'
    BY <1>6, <2>1, <2>2, CommitsRely, Others
  <2>4. QED
    BY <1>1, <2>1, <2>2, <2>3 DEF DInv
<1>7. QED
  BY <1>2, <1>3, <1>4, <1>5, <1>6 DEF WorkerStep, HelperStep, Moves, Decides

LEMMA StepElsewhere ==
  ASSUME DInv, Elsewhere
  PROVE  DInv'
<1>1. TypeOK' /\ (cli.op # "idle" => cli.event \in Event)'
  BY ElsewhereTypes
<1>2. EventsInv'
  BY <1>1, ElsewhereQuiet, QuietKeeps
<1>3. \A v \in Worker : WorkerInv(v)'
  <2>1. CASE \A v \in Worker : Rely(v)
    BY <1>1, <2>1, RelyKeeps DEF DInv
  <2>2. CASE \E w \in Worker, e \in Event :
               /\ pc[w] = "idle" /\ pc' = [pc EXCEPT ![w] = "preflight"]
               /\ call' = [call EXCEPT ![w] = [NoCall EXCEPT !.event = e]]
               /\ UNCHANGED <<durable, helper, sent, cli>>
    BY <1>1, <2>2, LaunchKeeps
  <2>3. QED
    BY <2>1, <2>2, ElsewhereRely
<1>4. QED
  BY <1>1, <1>2, <1>3 DEF DInv, EventsInv

LEMMA InitInvariant ==
  ASSUME Init
  PROVE  DInv
<1>1. TypeOK
  <2>1. NoCall \in Call
    BY DEF NoCall, Call
  <2>2. 1 \in 1..MaxGen /\ binding \in [rev : Nat, gen : 1..gen]
    BY WakeAssumption DEF Init
  <2>3. pc \in [Worker -> PC] /\ call \in [Worker -> Call]
    BY <2>1 DEF Init, PC
  <2>4. cli \in [op : {"idle", "consume", "evaluate"}, event : Event \cup {None},
                 via : {None, "delivery", "notStarted"}]
    BY DEF Init, NoCommand
  <2>5. QED
    BY <2>2, <2>3, <2>4 DEF Init, TypeOK, Call
<1>2. \A w \in Worker : WorkerInv(w)
  BY DEF Init, WorkerInv, Subject, Traces, Progress, Tokens, Mine, HelperRuns, Fresh,
     Unsent, Granted
<1>3. QED
  BY <1>1, <1>2 DEF Init, NoCommand, DInv, DecisionsAreGranted, SentIsNeverReopened,
     ReceiptIsOfTheMessage, ConsumedIsReceipted, Recorded

LEMMA NextInvariant ==
  ASSUME DInv, [Next]_vars
  PROVE  DInv'
<1>1. ASSUME NEW w \in Worker, WorkerStep(w) \/ HelperStep(w) \/ HelperFails(w)
                               \/ HelperDies(w) \/ Dies(w)
      PROVE  DInv'
  BY <1>1, StepOfWorker
<1>2. ASSUME NEW e \in Event, Reconcile(e)
      PROVE  DInv'
  <2>1. TypeOK' /\ UNCHANGED cli
    BY <1>2, DecisionTypes DEF Reconcile
  <2>2. EventsInv'
    BY <1>2, <2>1, ReconcileQuiet, QuietKeeps
  <2>3. \A v \in Worker : WorkerInv(v)'
    BY <1>2, <2>1, ReconcileRely, RelyKeeps DEF DInv
  <2>4. QED
    BY <2>1, <2>2, <2>3 DEF DInv, EventsInv
<1>3. CASE Expire
  <2>1. PICK v \in Worker : lease.owner = v
    BY <1>3 DEF Expire, DInv, TypeOK, Lease
  <2>2. TypeOK' /\ UNCHANGED <<cli, decision, receipt, sent, evidence, request,
                                consumption>>
    BY <1>3, <2>1, LeaseTypes DEF Expire
  <2>3. LeaseAdvances
    BY <1>3, <2>1, ExpireRely DEF Rely
  <2>4. Quiet
    BY <2>2, <2>3 DEF Quiet, DInv, ConsumedIsReceipted, Recorded
  <2>5. \A u \in Worker : WorkerInv(u)'
    BY <1>3, <2>2, ExpireRely, RelyKeeps DEF DInv
  <2>6. QED
    BY <2>2, <2>4, <2>5, QuietKeeps DEF DInv, EventsInv
<1>4. CASE Elsewhere
  BY <1>4, StepElsewhere
<1>5. CASE UNCHANGED vars
  <2>1. UNCHANGED <<durable, pc, call, helper, cli, sent>>
    BY <1>5 DEF vars
  <2>2. UNCHANGED <<gen, binding, request, lease, leaseLock, decision, receipt,
                    consumption, processed, evaluated, evidence>>
    BY <2>1 DEF durable
  <2>3. TypeOK'
    BY <2>1, <2>2 DEF DInv, TypeOK
  <2>4. Quiet
    BY <2>1, <2>2 DEF Quiet, LeaseAdvances, DInv, ConsumedIsReceipted, Recorded
  <2>5. \A v \in Worker : Rely(v)
    BY <2>1, <2>2 DEF Rely, LeaseAdvances, Mine
  <2>6. QED
    BY <2>1, <2>3, <2>4, <2>5, QuietKeeps, RelyKeeps DEF DInv, EventsInv
<1>6. QED
  BY <1>1, <1>2, <1>3, <1>4, <1>5 DEF Next, CommandStep, Elsewhere

-------------------------------------------------------------------------------
\* The inductive invariant holds in every state of every run of the delivery
\* protocol, whatever dies, expires, is retried or is reconciled, and whichever
\* checkpoints of the evidence cannot be written.
THEOREM DeliveryInvariance == Spec => []DInv
<1>1. Init => DInv
  BY InitInvariant
<1>2. DInv /\ [Next]_vars => DInv'
  BY NextInvariant
<1>3. QED
  BY <1>1, <1>2, PTL DEF Spec

\* Every file and every process of the delivery protocol has its type.
THEOREM TypeCorrect == Spec => []TypeOK
<1>1. DInv => TypeOK
  BY DEF DInv
<1>2. QED
  BY <1>1, DeliveryInvariance, PTL

\* A message whose submission left evidence is never submitted again: its decision
\* stays with the worker that sent it and stays closed.  (One whose helper could not
\* write a single checkpoint may be, see Recorded.)
THEOREM NeverReopened == Spec => []SentIsNeverReopened
<1>1. DInv => SentIsNeverReopened
  BY DEF DInv
<1>2. QED
  BY <1>1, DeliveryInvariance, PTL

\* A receipt is only written for a message that was sent and left evidence, under the decision
\* that allowed it, and for the generation the request was made for.
THEOREM ReceiptsAreGenuine == Spec => []ReceiptIsOfTheMessage
<1>1. DInv => ReceiptIsOfTheMessage
  BY DEF DInv
<1>2. QED
  BY <1>1, DeliveryInvariance, PTL

\* A decision changes hands only by a claim, and a claim needs a newer token
\* than that of the decision it replaces.
LEMMA TakeoverStep ==
  ASSUME DInv, [Next]_vars
  PROVE  \A e \in Event : (decision[e] # None /\ decision'[e].by # decision[e].by)
            => decision'[e].token > decision[e].token
<1> USE DEF DInv
<1>1. ASSUME NEW w \in Worker, Claim(w) \/ Reclaim(w), NEW e \in Event,
             decision[e] # None, decision'[e].by # decision[e].by
      PROVE  decision'[e].token > decision[e].token
  <2>1. decision'[e] = Claimed(w) /\ decision[e].token < call[w].token
    BY <1>1, ClaimEffect
  <2>2. Claimed(w).token = call[w].token
    BY DEF Claimed
  <2>3. QED
    BY <2>1, <2>2
<1>2. CASE Quiet
  BY <1>2 DEF Quiet
<1>3. CASE UNCHANGED decision
  BY <1>3
<1>4. ASSUME NEW w \in Worker, WorkerStep(w) \/ HelperStep(w) \/ HelperFails(w)
                               \/ HelperDies(w) \/ Dies(w),
             ~(Claim(w) \/ Reclaim(w))
      PROVE  Quiet \/ UNCHANGED decision
  <2>1. CASE Moves(w) \/ Acquire(w) \/ Release(w) \/ HelperCommits(w)
    BY <2>1, MovesAlone DEF Settled, Acquire, Release, HelperCommits
  <2>2. CASE Decides(w)
    BY <2>2, DecidesQuiet
  <2>3. QED
    BY <1>4, <2>1, <2>2 DEF WorkerStep, HelperStep, Moves, Decides
<1>5. ASSUME NEW e \in Event, Reconcile(e)
      PROVE  Quiet
  BY <1>5, ReconcileQuiet
<1>6. CASE Elsewhere
  BY <1>2, <1>6, ElsewhereQuiet
<1>7. CASE Expire \/ UNCHANGED vars
  BY <1>3, <1>7 DEF Expire, vars, durable
<1>8. QED
  BY <1>1, <1>2, <1>3, <1>4, <1>5, <1>6, <1>7 DEF Next, CommandStep, Elsewhere

\* Whoever takes a decision over holds a newer fencing token than the worker it
\* takes it from.
THEOREM TakeoversAreFenced == Spec => TakeoverHasNewerToken
<1>1. DInv /\ [Next]_vars =>
         [\A e \in Event : (decision[e] # None /\ decision'[e].by # decision[e].by)
            => decision'[e].token > decision[e].token]_vars
  BY TakeoverStep
<1>2. QED
  BY <1>1, DeliveryInvariance, PTL DEF Spec, TakeoverHasNewerToken

-------------------------------------------------------------------------------
(***************************************************************************)
(* Delivery implements WakeOnce                                            *)
(***************************************************************************)
\* An event has at most one recorded submission: that of the owner of its decision.
LEMMA RecordedCount ==
  ASSUME DInv, NEW e \in Event
  PROVE  /\ Recorded(e) = {} => Cardinality(Recorded(e)) = 0
         /\ \A w \in Recorded(e) : Cardinality(Recorded(e)) = 1
<1>1. Recorded(e) = {} => Cardinality(Recorded(e)) = 0
  BY FS_EmptySet
<1>2. ASSUME NEW w \in Recorded(e)
      PROVE  Cardinality(Recorded(e)) = 1
  <2>1. Recorded(e) = {w}
    BY <1>2 DEF DInv, SentIsNeverReopened, Mine
  <2>2. QED
    BY <2>1, FS_Singleton
<1>3. QED
  BY <1>1, <1>2

\* The first message of an event that is recorded is its only one.
LEMMA RecordsImplements ==
  ASSUME DInv, NEW w \in Worker, Moves(w), Records(w)
  PROVE  (\E e \in Event : Contract!Submit(e)) \/ UNCHANGED Contract!vars
<1>1. PICK e \in Event :
        /\ Mine(w, e)
        /\ Recorded(e)' = Recorded(e) \cup {w}
        /\ \A f \in Event \ {e} : Recorded(f)' = Recorded(f)
  BY DEF Records
<1>2. UNCHANGED <<receipt, consumption>>
  BY MovesAlone DEF DInv, Settled
<1>3. CASE w \in Recorded(e)
  <2>1. \A f \in Event : Recorded(f)' = Recorded(f)
    BY <1>1, <1>3
  <2>2. QED
    BY <1>2, <2>1 DEF Contract!vars
<1>4. CASE w \notin Recorded(e)
  <2>1. Recorded(e) = {}
    BY <1>1, <1>4 DEF DInv, SentIsNeverReopened, Mine
  <2>2. Cardinality(Recorded(e)) = 0
    BY <2>1, RecordedCount
  <2>3. Recorded(e)' = {w}
    BY <1>1, <2>1
  <2>4. Cardinality(Recorded(e)') = 1
    BY <2>3, FS_Singleton
  <2>5. [f \in Event |-> Cardinality(Recorded(f)')] =
           [[f \in Event |-> Cardinality(Recorded(f))] EXCEPT ![e] = 1]
    BY <1>1, <2>4
  <2>6. Contract!Submit(e)
    BY <1>2, <2>2, <2>5 DEF Contract!Submit
  <2>7. QED
    BY <2>6
<1>5. QED
  BY <1>3, <1>4

\* A receipt confirms a message that was submitted.
LEMMA CommitImplements ==
  ASSUME DInv, NEW w \in Worker, HelperCommits(w)
  PROVE  (\E e \in Event : Contract!Confirm(e)) \/ UNCHANGED Contract!vars
<1> DEFINE e == call[w].event
<1>1. UNCHANGED <<sent, evidence, consumption>>
  BY DEF HelperCommits
<1>2. CASE UNCHANGED receipt
  BY <1>1, <1>2 DEF Contract!vars, Recorded
<1>3. CASE receipt' # receipt
  <2>1. /\ e \in Event /\ receipt[e] = None /\ receipt'[e] # None
        /\ \A f \in Event \ {e} : receipt'[f] = receipt[f]
    BY <1>3, CommitsEffect
  <2>2. w \in Recorded(e)
    BY DEF DInv, WorkerInv, Progress, Traces, HelperCommits, Recorded
  <2>3. Cardinality(Recorded(e)) = 1
    BY <2>1, <2>2, RecordedCount
  <2>4. {f \in Event : receipt'[f] # None} = {f \in Event : receipt[f] # None} \cup {e}
    BY <2>1
  <2>5. \E f \in Event : f = e
    BY <2>1
  <2>6. PICK f \in Event : f = e
    BY <2>5
  <2>7. Contract!Confirm(f)
    BY <1>1, <2>1, <2>3, <2>4, <2>6 DEF Contract!Confirm, Recorded
  <2>8. QED
    BY <2>7
<1>4. QED
  BY <1>2, <1>3

\* The first consumption of a receipt is the one that counts.
LEMMA ConsumeImplements ==
  ASSUME DInv, NEW e \in Event, ConsumeDelivery(e)
  PROVE  Contract!Consume(e) \/ UNCHANGED Contract!vars
<1>1. /\ UNCHANGED <<sent, evidence, receipt>> /\ receipt[e] # None
      /\ consumption' = [consumption EXCEPT ![e] = receipt[e].by]
  BY DEF ConsumeDelivery, Consumable
<1>2. receipt[e].by # None
  BY <1>1, WakeAssumption DEF DInv, TypeOK, Receipt
<1>3. {f \in Event : consumption'[f] # None} = {f \in Event : consumption[f] # None} \cup {e}
  BY <1>1, <1>2 DEF DInv, TypeOK
<1>4. CASE consumption[e] = None
  BY <1>1, <1>3, <1>4 DEF Contract!Consume, Recorded
<1>5. CASE consumption[e] # None
  BY <1>1, <1>3, <1>5 DEF Contract!vars, Recorded
<1>6. QED
  BY <1>4, <1>5

LEMMA StepImplements ==
  ASSUME DInv, [Next]_vars
  PROVE  [Contract!Next]_Contract!vars
<1>1. CASE /\ \A e \in Event : Recorded(e)' = Recorded(e)
           /\ UNCHANGED <<receipt, consumption>>
  BY <1>1 DEF Contract!vars
<1>2. CASE UNCHANGED <<sent, evidence, receipt, consumption>>
  BY <1>1, <1>2 DEF Recorded
<1>3. ASSUME NEW w \in Worker, WorkerStep(w) \/ HelperStep(w) \/ HelperFails(w)
                               \/ HelperDies(w) \/ Dies(w)
      PROVE  [Contract!Next]_Contract!vars
  <2>1. CASE Moves(w)
    <3>1. UNCHANGED <<receipt, consumption>>
      BY <2>1, MovesAlone DEF DInv, Settled
    <3>2. CASE Records(w)
      BY <2>1, <3>2, RecordsImplements DEF Contract!Next
    <3>3. QED
      BY <1>1, <2>1, <3>1, <3>2, MovesRecord
  <2>2. CASE HelperCommits(w)
    BY <2>2, CommitImplements DEF Contract!Next
  <2>3. CASE ~Moves(w) /\ ~HelperCommits(w)
    <3>1. UNCHANGED <<sent, evidence, receipt, consumption>>
      BY <1>3, <2>3 DEF WorkerStep, HelperStep, Moves, Acquire, Release, Claim, Reclaim,
         Wait, GiveUp, HelperDecides
    <3>2. QED
      BY <1>2, <3>1
  <2>4. QED
    BY <2>1, <2>2, <2>3
<1>4. ASSUME NEW e \in Event, ConsumeDelivery(e)
      PROVE  [Contract!Next]_Contract!vars
  BY <1>4, ConsumeImplements DEF Contract!Next
<1>5. ASSUME NEW e \in Event, Launch(e) \/ Enqueue(e) \/ Reconcile(e)
                              \/ ConsumeNotStarted(e) \/ Evaluate(e)
      PROVE  [Contract!Next]_Contract!vars
  BY <1>2, <1>5 DEF Launch, Enqueue, Reconcile, ConsumeNotStarted, Evaluate, durable
<1>6. CASE RecordProcessed \/ CommitEvaluation \/ Expire \/ Recover \/ RefreshElsewhere
           \/ UNCHANGED vars
  BY <1>2, <1>6 DEF RecordProcessed, CommitEvaluation, Expire, Recover,
     RefreshElsewhere, vars, durable
<1>7. QED
  BY <1>3, <1>4, <1>5, <1>6 DEF Next, CommandStep

\* Delivery implements the once-only contract: of each event's submissions at most
\* one leaves evidence, it is receipted after that and consumed after that.
THEOREM DeliveryIsOnce == Spec => ImplementsWakeOnce
<1>1. Init => Contract!Init
  <2>1. ASSUME Init, NEW e \in Event
        PROVE  Cardinality(Recorded(e)) = 0
    <3>1. Recorded(e) = {}
      BY <2>1 DEF Init, Recorded
    <3>2. QED
      BY <3>1, FS_EmptySet
  <2>2. ASSUME Init
        PROVE  /\ {e \in Event : receipt[e] # None} = {}
               /\ {e \in Event : consumption[e] # None} = {}
    BY <2>2 DEF Init
  <2>3. QED
    BY <2>1, <2>2 DEF Contract!Init
<1>2. DInv /\ [Next]_vars => [Contract!Next]_Contract!vars
  BY StepImplements
<1>3. QED
  BY <1>1, <1>2, DeliveryInvariance, PTL DEF Spec, ImplementsWakeOnce, Contract!Spec

===============================================================================
