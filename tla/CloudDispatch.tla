---------------------------- MODULE CloudDispatch ----------------------------
(***************************************************************************)
(* The hosted delivery of analysis runs (backend/core/dispatch.py) around  *)
(* the transactions of RunJobs: relays move the outbox into a task queue   *)
(* that delivers at least once, handlers claim a run and ask the runtime   *)
(* for one execution of it, the execution is `process_runs --run-id        *)
(* --fence`, and a reconciler releases slots on remote evidence only.      *)
(*                                                                         *)
(* Every process may die between two transactions and every remote call    *)
(* may have happened without an answer.  The task queue and the runtime    *)
(* are external and are modelled from how the code uses their answers.     *)
(* All slots here have runtime CLOUD_RUN.                                  *)
(***************************************************************************)
EXTENDS RunJobs

CONSTANTS
  Relays,    \* processes in dispatch_pending
  Handlers,  \* task deliveries in launch_dispatch
  MaxTries,  \* deliveries of one generation to the queue before ATTENTION, 8 in the code
  NoRun,
  Requests   \* the interventions an instance explores

ASSUME CloudAssumption ==
  /\ NoRun \notin Runs
  /\ Requests \subseteq Interventions
  /\ MaxTries \in Nat \ {0}

VARIABLES
  task,      \* SUBSET (Runs \X Generations): tasks the queue has taken
  spent,     \* those of them it has given up, all others are deliverable at any time
  relay,     \* where each relay is in dispatch_pending
  handler,   \* where each handler is in launch_dispatch
  remote,    \* the runtime's executions, by run and fence
  execution, \* ExecutionSlot.execution_name: the fence of the execution it names, 0 for none
  observer   \* the slot reconcile_cloud is looking at

cloudVars == <<task, spent, relay, handler, remote, execution, observer>>
vars == <<run, slot, budget, dispatch, asset, owner,
          task, spent, relay, handler, remote, execution, observer>>

(* A generation is added only when an attempt is requeued. *)
MaxGeneration == MaxAttempts + 1
Generations == 1..MaxGeneration
RelayIdle == [pc |-> "idle", run |-> NoRun, generation |-> 0]
HandlerIdle == [pc |-> "idle", run |-> NoRun, generation |-> 0, fence |-> 0]
ObserverIdle == [pc |-> "idle", run |-> NoRun, fence |-> 0, name |-> 0]

TypeOK ==
  /\ JobTypeOK
  /\ \A r \in Runs : dispatch[r].generation <= MaxGeneration
  /\ task \subseteq Runs \X Generations
  /\ spent \subseteq task
  /\ relay \in [Relays -> [pc : {"idle", "sending", "sent", "retry", "failed"},
                           run : Runs \cup {NoRun}, generation : 0..MaxGeneration]]
  /\ handler \in [Handlers ->
       [pc : {"idle", "claimed", "calling", "accepted", "ambiguous", "rejected",
              "release", "mark"},
        run : Runs \cup {NoRun}, generation : 0..MaxGeneration, fence : 0..MaxFence]]
  /\ remote \in [Runs -> [Fences -> {"none", "inflight", "created", "entered", "stopped"}]]
  /\ execution \in [Runs -> [Fences -> 0..MaxFence]]
  /\ observer \in [pc : {"idle", "reading", "looking", "named"}, run : Runs \cup {NoRun},
                   fence : 0..MaxFence, name : 0..MaxFence]

Init ==
  /\ JobInit
  /\ task = {}
  /\ spent = {}
  /\ relay = [d \in Relays |-> RelayIdle]
  /\ handler = [h \in Handlers |-> HandlerIdle]
  /\ remote = [r \in Runs |-> [f \in Fences |-> "none"]]
  /\ execution = [r \in Runs |-> [f \in Fences |-> 0]]
  /\ observer = ObserverIdle

(* RunDispatch rows that may still be handed to the queue.                  *)
Undelivered == {"PENDING", "RETRY"}
SameIntent(r, g) == dispatch[r].generation = g
-----------------------------------------------------------------------------
(* dispatch_pending, one row: lease it, send it outside any transaction,    *)
(* record the answer.  The tries are counted up to MaxTries, the only value *)
(* they are compared with.                                                  *)
RelayLeases(d, r) ==
  /\ relay[d].pc = "idle"
  /\ run[r].status = "QUEUED"
  /\ dispatch[r].status \in Undelivered
  /\ ~dispatch[r].leased
  /\ dispatch' = [dispatch EXCEPT ![r].leased = TRUE,
                   ![r].attempts = IF @ < MaxTries THEN @ + 1 ELSE @]
  /\ relay' = [relay EXCEPT ![d] = [pc |-> "sending", run |-> r,
                                    generation |-> dispatch[r].generation]]
  /\ UNCHANGED <<run, slot, budget, asset, owner, task, spent, handler, remote, execution, observer>>

(* provider.enqueue.  The task name is deterministic, so a second creation  *)
(* is no second task; a transport failure tells nothing.                    *)
RelaySends(d, answer) ==
  LET t == <<relay[d].run, relay[d].generation>> IN
  /\ relay[d].pc = "sending"
  /\ relay' = [relay EXCEPT ![d].pc = answer]
  /\ \/ answer \in {"sent", "retry"} /\ task' = task \cup {t}
     \/ answer \in {"retry", "failed"} /\ UNCHANGED task
  /\ UNCHANGED <<jobVars, spent, handler, remote, execution, observer>>

RelayRecordsAnyGenerationFault(d) ==
  LET r == relay[d].run
      status == CASE relay[d].pc = "sent" -> "ENQUEUED"
                  [] relay[d].pc = "retry" /\ dispatch[r].attempts < MaxTries -> "RETRY"
                  [] OTHER -> "ATTENTION"
  IN
  /\ relay[d].pc \in {"sent", "retry", "failed"}
  /\ dispatch' = IF dispatch[r].status \in Undelivered
                 THEN [dispatch EXCEPT ![r] = Mark(@, status)] ELSE dispatch
  /\ relay' = [relay EXCEPT ![d] = RelayIdle]
  /\ UNCHANGED <<run, slot, budget, asset, owner, task, spent, handler, remote, execution, observer>>

(* The answer is recorded only where the row is still the one that was sent.*)
RelayRecords(d) ==
  LET r == relay[d].run
      status == CASE relay[d].pc = "sent" -> "ENQUEUED"
                  [] relay[d].pc = "retry" /\ dispatch[r].attempts < MaxTries -> "RETRY"
                  [] OTHER -> "ATTENTION"
  IN
  /\ relay[d].pc \in {"sent", "retry", "failed"}
  /\ dispatch' = IF SameIntent(r, relay[d].generation) /\ dispatch[r].status \in Undelivered
                 THEN [dispatch EXCEPT ![r] = Mark(@, status)] ELSE dispatch
  /\ relay' = [relay EXCEPT ![d] = RelayIdle]
  /\ UNCHANGED <<run, slot, budget, asset, owner, task, spent, handler, remote, execution, observer>>

RelayCrashes(d) ==
  /\ relay[d].pc # "idle"
  /\ relay' = [relay EXCEPT ![d] = RelayIdle]
  /\ UNCHANGED <<jobVars, task, spent, handler, remote, execution, observer>>
-----------------------------------------------------------------------------
(* launch_dispatch: claim the run and make LAUNCHING durable before the RPC.*)
Launchable(r, g) ==
  /\ <<r, g>> \in task \ spent
  /\ SameIntent(r, g)
  /\ run[r].status = "QUEUED"
  /\ dispatch[r].status \in Undelivered \cup {"ENQUEUED"}

LaunchClaims(h, r, g) ==
  /\ handler[h].pc = "idle"
  /\ Launchable(r, g)
  /\ ClaimRows(r)
  /\ dispatch' = [dispatch EXCEPT ![r].status = "LAUNCHING", ![r].leased = TRUE]
  /\ handler' = [handler EXCEPT ![h] = [pc |-> "claimed", run |-> r, generation |-> g,
                                        fence |-> run[r].fence + 1]]
  /\ UNCHANGED <<task, spent, relay, remote, execution, observer>>

(* The runtime is not qualified for the run, or refuses its configuration:  *)
(* an operator is asked before anything is claimed.                         *)
LaunchUnqualified(r) ==
  /\ \E g \in Generations : Launchable(r, g)
  /\ dispatch' = [dispatch EXCEPT ![r].status = "ATTENTION"]
  /\ UNCHANGED <<run, slot, budget, asset, owner, cloudVars>>

(* The queue's retry_config: it gives a task up after eight deliveries that *)
(* failed within an hour, and a delivery fails for want of capacity (503)   *)
(* as it does in an outage.  Its name stays taken: a relay that asks again  *)
(* is told that the task exists.  A task that would be ignored makes no     *)
(* difference any more.                                                     *)
QueueGivesUp(r, g) ==
  /\ Launchable(r, g)
  /\ spent' = spent \cup {<<r, g>>}
  /\ UNCHANGED <<jobVars, task, relay, handler, remote, execution, observer>>

(* claim_run returns None but has written; the task will be retried (503).  *)
LaunchDenied(r) ==
  /\ \E g \in Generations : Launchable(r, g)
  /\ ClaimUnbudgeted(r) \/ ClaimExhausted(r) \/ ClaimDeferred(r)
  /\ UNCHANGED cloudVars

LaunchCalls(h) ==
  /\ handler[h].pc = "claimed"
  /\ remote' = [remote EXCEPT ![handler[h].run][handler[h].fence] = "inflight"]
  /\ handler' = [handler EXCEPT ![h].pc = "calling"]
  /\ UNCHANGED <<jobVars, task, spent, relay, execution, observer>>

(* The answer to provider.launch: an operation name, an explicit rejection, *)
(* or nothing that tells whether an execution exists.                       *)
LaunchAnswered(h, answer) ==
  LET r == handler[h].run  f == handler[h].fence IN
  /\ handler[h].pc = "calling"
  /\ answer = "accepted" => remote[r][f] \notin {"none", "inflight"}
  /\ answer = "rejected" => remote[r][f] = "inflight"
  /\ remote' = IF answer = "rejected" THEN [remote EXCEPT ![r][f] = "none"] ELSE remote
  /\ handler' = [handler EXCEPT ![h].pc = answer]
  /\ UNCHANGED <<jobVars, task, spent, relay, execution, observer>>

ReceiptOfAnyGenerationFault(h) ==
  LET r == handler[h].run IN
  /\ handler[h].pc = "accepted"
  /\ dispatch' = [dispatch EXCEPT ![r] =
       [(IF @.status = "LAUNCHING" THEN Mark(@, "SUBMITTED") ELSE @)
          EXCEPT !.operation = handler[h].fence]]
  /\ handler' = [handler EXCEPT ![h] = HandlerIdle]
  /\ UNCHANGED <<run, slot, budget, asset, owner, task, spent, relay, remote, execution, observer>>

ReceiptOverStartedFault(h) ==
  LET r == handler[h].run IN
  /\ handler[h].pc = "accepted"
  /\ dispatch' =
       IF ~SameIntent(r, handler[h].generation) THEN dispatch
       ELSE [dispatch EXCEPT ![r] = [Mark(@, "SUBMITTED") EXCEPT !.operation = handler[h].fence]]
  /\ handler' = [handler EXCEPT ![h] = HandlerIdle]
  /\ UNCHANGED <<run, slot, budget, asset, owner, task, spent, relay, remote, execution, observer>>

(* The receipt is kept whatever happened meanwhile to this generation, the  *)
(* status follows only while nothing else has moved it.                     *)
RecordReceipt(h) ==
  LET r == handler[h].run IN
  /\ handler[h].pc = "accepted"
  /\ dispatch' =
       IF ~SameIntent(r, handler[h].generation) THEN dispatch
       ELSE [dispatch EXCEPT ![r] =
              [(IF @.status = "LAUNCHING" THEN Mark(@, "SUBMITTED") ELSE @)
                 EXCEPT !.operation = handler[h].fence]]
  /\ handler' = [handler EXCEPT ![h] = HandlerIdle]
  /\ UNCHANGED <<run, slot, budget, asset, owner, task, spent, relay, remote, execution, observer>>

FailureOfAnyRowFault(h) ==
  LET r == handler[h].run
      status == IF handler[h].pc = "ambiguous" THEN "UNCERTAIN" ELSE "ATTENTION"
  IN
  /\ handler[h].pc \in {"ambiguous", "rejected"}
  /\ dispatch' = [dispatch EXCEPT ![r] = Mark(@, status)]
  /\ handler' = [handler EXCEPT ![h] = IF handler[h].pc = "ambiguous" THEN HandlerIdle
                                       ELSE [@ EXCEPT !.pc = "release"]]
  /\ UNCHANGED <<run, slot, budget, asset, owner, task, spent, relay, remote, execution, observer>>

AmbiguousIsRejectionFault(h) ==
  LET r == handler[h].run IN
  /\ handler[h].pc \in {"ambiguous", "rejected"}
  /\ dispatch' = IF SameIntent(r, handler[h].generation) /\ dispatch[r].status = "LAUNCHING"
                 THEN [dispatch EXCEPT ![r] = Mark(@, "ATTENTION")] ELSE dispatch
  /\ handler' = [handler EXCEPT ![h].pc = "release"]
  /\ UNCHANGED <<run, slot, budget, asset, owner, task, spent, relay, remote, execution, observer>>

(* UNCERTAIN when the call may have been carried out, ATTENTION when it was *)
(* refused, and only while this generation is still being launched.         *)
RecordFailure(h) ==
  LET r == handler[h].run
      status == IF handler[h].pc = "ambiguous" THEN "UNCERTAIN" ELSE "ATTENTION"
  IN
  /\ handler[h].pc \in {"ambiguous", "rejected"}
  /\ dispatch' = IF SameIntent(r, handler[h].generation) /\ dispatch[r].status = "LAUNCHING"
                 THEN [dispatch EXCEPT ![r] = Mark(@, status)] ELSE dispatch
  /\ handler' = [handler EXCEPT ![h] = IF handler[h].pc = "ambiguous" THEN HandlerIdle
                                       ELSE [@ EXCEPT !.pc = "release"]]
  /\ UNCHANGED <<run, slot, budget, asset, owner, task, spent, relay, remote, execution, observer>>

(* An explicit rejection means that no execution was created.               *)
ReleaseRejected(h) ==
  /\ handler[h].pc = "release"
  /\ AcknowledgeStopped(handler[h].run, handler[h].fence)
  /\ handler' = [handler EXCEPT ![h].pc = "mark"]
  /\ UNCHANGED <<task, spent, relay, remote, execution, observer>>

(* RunDispatch.filter(pk=item.pk).update(status="ATTENTION"): neither the   *)
(* generation nor the status of the row is looked at.                       *)
MarkRejected(h) ==
  /\ handler[h].pc = "mark"
  /\ dispatch' = [dispatch EXCEPT ![handler[h].run].status = "ATTENTION"]
  /\ handler' = [handler EXCEPT ![h] = HandlerIdle]
  /\ UNCHANGED <<run, slot, budget, asset, owner, task, spent, relay, remote, execution, observer>>

HandlerCrashes(h) ==
  /\ handler[h].pc # "idle"
  /\ handler' = [handler EXCEPT ![h] = HandlerIdle]
  /\ UNCHANGED <<jobVars, task, spent, relay, remote, execution, observer>>
-----------------------------------------------------------------------------
(* The runtime.  A call that is in flight may be carried out after its      *)
(* caller gave up; it is lost for good only when nobody waits for it.       *)
ExecutionCreated(r, f) ==
  /\ remote[r][f] = "inflight"
  /\ remote' = [remote EXCEPT ![r][f] = "created"]
  /\ UNCHANGED <<jobVars, task, spent, relay, handler, execution, observer>>

CallLost(r, f) ==
  /\ remote[r][f] = "inflight"
  /\ \A h \in Handlers : ~(handler[h].pc = "calling" /\ handler[h].run = r /\ handler[h].fence = f)
  /\ remote' = [remote EXCEPT ![r][f] = "none"]
  /\ UNCHANGED <<jobVars, task, spent, relay, handler, execution, observer>>

(* process_one inside the execution: it enters, reports, and ends without   *)
(* releasing the slot, because its report is no proof that its host ended.  *)
RemoteEnters(r, f) ==
  /\ remote[r][f] = "created"
  /\ BeginExecution(r, f)
  /\ remote' = [remote EXCEPT ![r][f] = "entered"]
  /\ UNCHANGED <<task, spent, relay, handler, execution, observer>>

RemoteReports(r, f, report) ==
  /\ remote[r][f] = "entered"
  /\ FinishRun(r, f, report)
  /\ UNCHANGED cloudVars

(* It is done, was refused, was cancelled by provider.cancel, or died.      *)
RemoteEnds(r, f) ==
  /\ remote[r][f] \in {"created", "entered"}
  /\ remote' = [remote EXCEPT ![r][f] = "stopped"]
  /\ UNCHANGED <<jobVars, task, spent, relay, handler, execution, observer>>
-----------------------------------------------------------------------------
(* reconcile_cloud.  One statement for the launches whose lease is over.    *)
ReconcileLaunching ==
  /\ dispatch' = [r \in Runs |-> IF dispatch[r].status = "LAUNCHING" /\ ~dispatch[r].leased
                                 THEN Mark(dispatch[r], "UNCERTAIN") ELSE dispatch[r]]
  /\ UNCHANGED <<run, slot, budget, asset, owner, cloudVars>>

(* Then slot by slot, from a list that was read once with the names the     *)
(* slots had; the outbox row is read when the slot's turn comes.            *)
ObserverReads(r, f) ==
  /\ observer.pc = "idle"
  /\ Open(r, f)
  /\ observer' = [pc |-> "reading", run |-> r, fence |-> f, name |-> execution[r][f]]
  /\ UNCHANGED <<jobVars, task, spent, relay, handler, remote, execution>>

ObserverLooks ==
  LET name == IF observer.name # 0 THEN observer.name ELSE dispatch[observer.run].operation IN
  /\ observer.pc = "reading"
  /\ name # 0
  /\ observer' = [observer EXCEPT !.pc = "looking", !.name = name]
  /\ UNCHANGED <<jobVars, task, spent, relay, handler, remote, execution>>

(* provider.observe_operation has answered: the slot gets its name unless   *)
(* it was released meanwhile.                                               *)
ObserverNames ==
  LET r == observer.run  f == observer.fence IN
  /\ observer.pc = "looking"
  /\ execution' = IF Open(r, f) THEN [execution EXCEPT ![r][f] = observer.name] ELSE execution
  /\ observer' = [observer EXCEPT !.pc = "named"]
  /\ UNCHANGED <<jobVars, task, spent, relay, handler, remote>>

ObserverReleases ==
  LET r == observer.run IN
  /\ observer.pc = "named"
  /\ remote[r][observer.name] = "stopped"
  /\ AcknowledgeStopped(r, observer.fence)
  /\ observer' = ObserverIdle
  /\ UNCHANGED <<task, spent, relay, handler, remote, execution>>

(* No name, not stopped yet, an outage, or a crash of the reconciler.       *)
ObserverLeaves ==
  /\ observer.pc # "idle"
  /\ observer' = ObserverIdle
  /\ UNCHANGED <<jobVars, task, spent, relay, handler, remote, execution>>

(* reconcile_runs --confirmed-stopped-run: the operator has seen in the     *)
(* runtime's inventory that nothing runs for this attempt, after the time   *)
(* in which a handler could still ask for it.                               *)
OperatorConfirms(r, f) ==
  /\ Open(r, f)
  /\ remote[r][f] \in {"none", "stopped"}
  /\ \A h \in Handlers : handler[h].run = r /\ handler[h].fence = f =>
                           handler[h].pc \notin {"claimed", "calling"}
  /\ AcknowledgeStopped(r, f)
  /\ UNCHANGED cloudVars

IntentLeaseEnds(r) ==
  /\ dispatch[r].leased
  /\ dispatch' = [dispatch EXCEPT ![r].leased = FALSE]
  /\ UNCHANGED <<run, slot, budget, asset, owner, cloudVars>>
-----------------------------------------------------------------------------
RelaySteps(d) ==
  \/ \E r \in Runs : RelayLeases(d, r)
  \/ \E answer \in {"sent", "retry", "failed"} : RelaySends(d, answer)
  \/ RelayRecords(d)
  \/ RelayCrashes(d)

HandlerSteps(h) ==
  \/ \E r \in Runs, g \in Generations : LaunchClaims(h, r, g)
  \/ LaunchCalls(h)
  \/ \E answer \in {"accepted", "ambiguous", "rejected"} : LaunchAnswered(h, answer)
  \/ RecordReceipt(h) \/ RecordFailure(h) \/ ReleaseRejected(h) \/ MarkRejected(h)
  \/ HandlerCrashes(h)

RemoteSteps(r, f) ==
  \/ ExecutionCreated(r, f) \/ CallLost(r, f)
  \/ RemoteEnters(r, f) \/ RemoteEnds(r, f)
  \/ \E report \in Published : RemoteReports(r, f, report)

ObserverSteps ==
  \/ \E r \in Runs, f \in Fences : ObserverReads(r, f)
  \/ ObserverLooks \/ ObserverNames \/ ObserverReleases \/ ObserverLeaves

Next ==
  \/ \E d \in Relays : RelaySteps(d)
  \/ \E h \in Handlers : HandlerSteps(h)
  \/ \E r \in Runs, g \in Generations : QueueGivesUp(r, g)
  \/ \E r \in Runs : LaunchDenied(r) \/ LaunchUnqualified(r) \/ IntentLeaseEnds(r)
  \/ \E r \in Runs, f \in Fences : RemoteSteps(r, f) \/ OperatorConfirms(r, f)
  \/ ObserverSteps
  \/ ReconcileLaunching
  \/ /\ Reconcile \/ OwnerActs(Requests) \/ ClockTicks(Requests)
     /\ UNCHANGED cloudVars

Spec == Init /\ [][Next]_vars
-----------------------------------------------------------------------------
(* Relays and handlers are restarted for ever, so that none of their steps  *)
(* is cut off for ever by a crash; the queue delivers a task again until it *)
(* is handled or given up, so that strong fairness asks for a claim only    *)
(* while the task is still there; the runtime carries a call out or loses   *)
(* it and bounds an execution by its timeout; the reconciler comes round,   *)
(* the purge job runs and the operator resolves what the runtime cannot     *)
(* name.                                                                    *)
Fairness ==
  /\ \A r \in Runs : WF_vars(IntentLeaseEnds(r))
  /\ \A r \in Runs : SF_vars(\E d \in Relays : RelayLeases(d, r))
  /\ \A d \in Relays : SF_vars(\E a \in {"sent", "retry", "failed"} : RelaySends(d, a))
  /\ \A d \in Relays : SF_vars(RelayRecords(d))
  /\ \A r \in Runs :
       SF_vars(LaunchDenied(r) \/ \E h \in Handlers, g \in Generations : LaunchClaims(h, r, g))
  /\ \A h \in Handlers : WF_vars(HandlerSteps(h) /\ handler[h].pc # "idle")
  /\ \A r \in Runs, f \in Fences :
       WF_vars(CallLost(r, f)) /\ WF_vars(RemoteEnds(r, f)) /\ WF_vars(OperatorConfirms(r, f))
  /\ \A r \in Runs : WF_vars(ReconcileIntent(r) /\ UNCHANGED cloudVars)
  /\ \A r \in Runs : WF_vars(ReconcileSettle(r) /\ UNCHANGED cloudVars)

FairSpec == Spec /\ Fairness
-----------------------------------------------------------------------------
(* An execution the runtime has, or may still create from a call in flight. *)
Live == {e \in Runs \X Fences : remote[e[1]][e[2]] \in {"inflight", "created", "entered"}}

(* "Cloud Tasks queue dispatch concurrency does not cap the number of       *)
(* running Jobs" (architecture.md): the slots do, for executions that exist *)
(* and for those a lost answer has left in doubt.                           *)
RemoteCap == Cardinality(Live) <= ActiveLimit

(* "Transport retries cannot create a second execution" (RunDispatch): not  *)
(* a second delivery of a task, a retried relay or a requeue, because what  *)
(* may be alive still holds the run's slot.                                 *)
LiveHoldsSlot == \A e \in Live : Open(e[1], e[2])

(* The reconciler observes the execution that belongs to the slot, never    *)
(* that of an earlier attempt whose receipt arrived late.                   *)
ReceiptNamesOwnExecution ==
  \A r \in Runs, f \in Fences : Open(r, f) =>
    /\ execution[r][f] \in {0, f}
    /\ dispatch[r].operation \in {0, f}

(* What the runtime may execute is covered by slots and named by its own    *)
(* attempt.                                                                 *)
RemoteSound == RemoteCap /\ LiveHoldsSlot /\ ReceiptNamesOwnExecution

(* A queued run is never left in an outbox state that nobody picks up.      *)
QueuedIsDispatchable ==
  \A r \in Runs : run[r].status = "QUEUED" =>
    dispatch[r].status \in Undelivered \cup {"ABSENT", "ENQUEUED", "ATTENTION"}

(* ENQUEUED is believed: no relay sends such a row again.  So the queue must*)
(* have taken a task of this very generation, though it may since have      *)
(* given it up.                                                             *)
EnqueuedHasTask ==
  \A r \in Runs : dispatch[r].status = "ENQUEUED" => <<r, dispatch[r].generation>> \in task

(* The outbox neither forgets a queued run nor believes in a task the queue *)
(* does not have.                                                           *)
OutboxSound == TypeOK /\ QueuedIsDispatchable /\ EnqueuedHasTask

(* An answer to enqueue or launch that comes after the worker has started   *)
(* leaves the row to the worker.                                            *)
ReceiptLeavesStarted ==
  [][\A r \in Runs :
       dispatch[r].status = "STARTED" /\ SameIntent(r, dispatch'[r].generation) =>
         dispatch'[r].status \notin Undelivered \cup {"ENQUEUED", "SUBMITTED", "UNCERTAIN"}]_vars

(* The task of the run's generation is gone while the row believes in it:   *)
(* nothing hands the run to the queue again, and no row says so.  Only the  *)
(* age of the oldest queued run (operations.py) shows it to an operator.    *)
Stranded(r) ==
  /\ run[r].status = "QUEUED"
  /\ <<r, dispatch[r].generation>> \in spent

(* Every accepted run ends with its reservation settled, or shows up for an *)
(* operator, or is stranded by the queue that gave its task up.  That is    *)
(* the one silence there is: none waits for a task that was never created,  *)
(* for a generation that is over or for a slot that is never released.      *)
EveryRunEndsOrIsFlagged ==
  \A r \in Runs :
    run[r].status \in Pending ~>
      \/ run[r].status \notin Pending /\ budget[r] # "open"
      \/ dispatch[r].status = "ATTENTION"
      \/ Stranded(r)

(* "Handler may already have started. Never regress its state."             *)
(* (dispatch.py:54): what an answer for one generation writes is lost on    *)
(* the next one.  A worker that has started keeps its row until it stops.   *)
NeverRegressStarted ==
  [][\A r \in Runs :
       dispatch[r].status = "STARTED" /\ SameIntent(r, dispatch'[r].generation) =>
         dispatch'[r].status \in {"STARTED", "DONE", "CANCELLED"}]_vars
=============================================================================
