------------------------------- MODULE RunJobs -------------------------------
(***************************************************************************)
(* Tables of the durable job state and one operator per transaction of     *)
(* backend/core/jobs.py, with the parts of budgets.py, consents.py and     *)
(* storage.py that write the same rows.  Every operator is one database    *)
(* transaction: the code takes the owner row, then the "capacity" mutex,   *)
(* before it reads a run, so transactions of one owner never interleave    *)
(* and admissions are globally serial.                                     *)
(*                                                                         *)
(* Time is not a number.  A lease is "live" until an environment step says *)
(* that the wall clock has passed lease_until; a heartbeat renews a live   *)
(* lease and can never revive an expired one.  deadline_at has no state of *)
(* its own: every writer of lease_until takes the minimum with deadline_at,*)
(* so a passed deadline is a passed lease, and both refuse the same calls. *)
(*                                                                         *)
(* The module has no specification of its own: LocalWorkers composes these *)
(* transactions with the processes that call them.                         *)
(***************************************************************************)
EXTENDS Naturals, FiniteSets

CONSTANTS
  Runs,         \* primary keys an AnalysisRun can have
  Assets,       \* ReplayAsset rows
  Owners,       \* accounts
  AssetOf,      \* [Runs -> Assets]: the evidence a run analyses, never rewritten
  AssetOwner,   \* [Assets -> Owners]
  MaxAttempts,  \* RUN_MAX_ATTEMPTS, snapshotted in RunBudget.max_attempts
  ActiveLimit,  \* GLOBAL_ACTIVE_RUNS
  MaxFence      \* bound of the model on AnalysisRun.fence

ASSUME RunsAssumption ==
  /\ IsFiniteSet(Runs)
  /\ AssetOf \in [Runs -> Assets]
  /\ AssetOwner \in [Assets -> Owners]

ASSUME LimitAssumption ==
  /\ MaxAttempts \in Nat \ {0}
  /\ ActiveLimit \in Nat \ {0}
  (* room for every claim, requeue, cancellation and first deletion of a run *)
  /\ MaxFence \in Nat /\ MaxFence >= 2 * MaxAttempts + 2

VARIABLES
  run,       \* AnalysisRun rows
  slot,      \* ExecutionSlot rows, by run and fence (UNIQUE (run, fence))
  budget,    \* RunBudget.state
  dispatch,  \* RunDispatch rows
  asset,     \* what deleted_at and retain_until say of a ReplayAsset
  owner      \* what is_active, deleted_at and processing_withdrawn_at say

jobVars == <<run, slot, budget, dispatch, asset, owner>>

Fences == 1..MaxFence
Owner(r) == AssetOwner[AssetOf[r]]
-----------------------------------------------------------------------------
(* Rows *)

Pending == {"QUEUED", "PROCESSING"}
(* REVIEW_REQUIRED, PARTIAL and COMPLETED are one status here: no code of   *)
(* the job lifecycle tells them apart.                                      *)
Published == {"COMPLETED", "FAILED"}
RunStatus == {"ABSENT", "CANCELLED"} \cup Pending \cup Published
Timer == {"none", "live", "expired"}
DispatchStatus == {"ABSENT", "PENDING", "RETRY", "ENQUEUED", "LAUNCHING",
  "SUBMITTED", "STARTED", "DONE", "CANCELLED", "UNCERTAIN", "ATTENTION"}

(* `result` is the fence of the attempt whose report the row holds, 0 for {}. *)
RunRow == [status : RunStatus, attempts : 0..MaxAttempts, fence : 0..MaxFence,
           lease : Timer, result : 0..MaxFence]
SlotRow == [state : {"none", "open", "released"},
            started : BOOLEAN, stop : BOOLEAN]
(* `leased`: lease_until lies ahead; `operation` is the fence of the attempt  *)
(* whose launch returned the recorded operation_name, 0 for none.           *)
DispatchRow == [status : DispatchStatus, generation : Nat, leased : BOOLEAN,
                attempts : Nat, operation : 0..MaxFence]

AbsentRun == [status |-> "ABSENT", attempts |-> 0, fence |-> 0,
              lease |-> "none", result |-> 0]
AbsentSlot == [state |-> "none", started |-> FALSE, stop |-> FALSE]
OpenedSlot == [state |-> "open", started |-> FALSE, stop |-> FALSE]
AbsentDispatch == [status |-> "ABSENT", generation |-> 0, leased |-> FALSE,
                   attempts |-> 0, operation |-> 0]
NewDispatch == [AbsentDispatch EXCEPT !.status = "PENDING", !.generation = 1]

JobTypeOK ==
  /\ run \in [Runs -> RunRow]
  /\ slot \in [Runs -> [Fences -> SlotRow]]
  /\ budget \in [Runs -> {"none", "open", "closed"}]
  /\ dispatch \in [Runs -> DispatchRow]
  /\ asset \in [Assets -> {"live", "expired", "deleted"}]
  /\ owner \in [Owners -> {"active", "withdrawn", "deleted"}]

(* A run that was queued before migrations 0009 and 0010 has neither an     *)
(* outbox intent nor a budget; every other run is created by EnqueueRun.    *)
JobInit ==
  /\ \E legacy \in SUBSET Runs :
        run = [r \in Runs |-> IF r \in legacy
                              THEN [AbsentRun EXCEPT !.status = "QUEUED"]
                              ELSE AbsentRun]
  /\ slot = [r \in Runs |-> [f \in Fences |-> AbsentSlot]]
  /\ budget = [r \in Runs |-> "none"]
  /\ dispatch = [r \in Runs |-> AbsentDispatch]
  /\ asset = [a \in Assets |-> "live"]
  /\ owner = [o \in Owners |-> "active"]
-----------------------------------------------------------------------------
(* Conditions the transactions share *)

Permitted(r) == owner[Owner(r)] = "active" /\ asset[AssetOf[r]] = "live"

Open(r, f) == slot[r][f].state = "open"
HasOpenSlot(r) == \E f \in Fences : Open(r, f)
OpenSlots == {s \in Runs \X Fences : Open(s[1], s[2])}

(* Operators named ...Fault are defects a change of the code could bring    *)
(* in; PROJECT.json runs the checks with each in place of the definition    *)
(* that follows it.                                                         *)
CapacityByStatusFault(r) ==
  LET counted == {s \in OpenSlots : run[s[1]].status = "PROCESSING"} IN
  /\ Cardinality(counted) < ActiveLimit
  /\ \A s \in counted : Owner(s[1]) # Owner(r)

CapacityOfOthersFault(r) == Cardinality(OpenSlots) < ActiveLimit

CapacityOffByOneFault(r) ==
  /\ Cardinality(OpenSlots) + 1 < ActiveLimit
  /\ \A s \in OpenSlots : Owner(s[1]) # Owner(r)

(* The global cap and one execution per owner, over unreleased slots. *)
CapacityFree(r) ==
  /\ Cardinality(OpenSlots) < ActiveLimit
  /\ \A s \in OpenSlots : Owner(s[1]) # Owner(r)

RetriesOffByOneFault(r) == run[r].attempts <= MaxAttempts

(* The snapshotted RUN_MAX_ATTEMPTS is not used up. *)
RetriesLeft(r) == run[r].attempts < MaxAttempts

SettledAtOnceFault(r, status, open) ==
  IF budget[r] = "open" /\ status \notin Pending THEN "closed" ELSE budget[r]

SettledIfPublishedFault(r, status, open) ==
  IF budget[r] = "open" /\ status \in Published /\ ~open THEN "closed" ELSE budget[r]

(* settle_run with the rows as they are after the calling transaction:      *)
(* neither a pending status nor an unreleased slot may be refunded.         *)
Settled(r, status, open) ==
  IF budget[r] = "open" /\ status \notin Pending /\ ~open
  THEN "closed" ELSE budget[r]

StopOpen(r) == [f \in Fences |-> [slot[r][f] EXCEPT !.stop = @ \/ Open(r, f)]]

CurrentAnyFenceFault(r, f) ==
  run[r].status = "PROCESSING" /\ run[r].lease = "live" /\ Permitted(r)

(* The row an attempt may still write: finish_run and heartbeat share it.   *)
Current(r, f) ==
  /\ run[r].fence = f
  /\ run[r].status = "PROCESSING"
  /\ run[r].lease = "live"
  /\ Permitted(r)

EnterableTwiceFault(r, f) == Open(r, f) /\ ~slot[r][f].stop

(* The slot begin_execution accepts: entered by nobody, not asked to stop.  *)
Enterable(r, f) == Open(r, f) /\ ~slot[r][f].started /\ ~slot[r][f].stop

GivenUpUnlessPublishedFault(r, f) == run[r].status \notin Published

(* The attempt whose slot is released is the run's current one: it goes     *)
(* back to the queue.                                                       *)
GivenUp(r, f) == run[r].fence = f /\ run[r].status = "PROCESSING"

(* AnalysisRun.update(status="CANCELLED", fence=F("fence") + 1,             *)
(* lease_until=None) over a set of rows, optionally with result={}.         *)
Revoked(rows, erase) ==
  [r \in Runs |-> IF r \in rows
     THEN [run[r] EXCEPT !.status = "CANCELLED", !.fence = @ + 1, !.lease = "none",
                         !.result = IF erase THEN 0 ELSE @]
     ELSE run[r]]

HasRow(r) == run[r].status # "ABSENT"

(* RunDispatch.get_or_create: a new row is PENDING, an old one is kept.     *)
WithIntent(d) == IF d.status = "ABSENT" THEN NewDispatch ELSE d

ReissuedKeepsReceiptFault(d) ==
  [WithIntent(d) EXCEPT !.generation = @ + 1, !.status = "PENDING", !.leased = FALSE,
                        !.attempts = 0]

(* The outbox row of a run that goes back to the queue: the next generation,*)
(* with nothing of the last one in it.                                      *)
Reissued(d) == [NewDispatch EXCEPT !.generation = WithIntent(d).generation + 1]

(* RunDispatch.filter(run=run).update(status=s, lease_until=None).          *)
Mark(d, s) ==
  IF d.status = "ABSENT" THEN d ELSE [d EXCEPT !.status = s, !.leased = FALSE]
-----------------------------------------------------------------------------
(* enqueue_run, for a request key that has no run yet: the other columns    *)
(* have the defaults that AbsentRun stands for.  An owner or asset          *)
(* that is not usable, or a budget that does not fit, raises and rolls the  *)
(* producer's transaction back.                                             *)
EnqueueRun(r) ==
  /\ ~HasRow(r)
  /\ Permitted(r)
  /\ run' = [run EXCEPT ![r].status = "QUEUED"]
  /\ budget' = [budget EXCEPT ![r] = "open"]
  /\ dispatch' = [dispatch EXCEPT ![r] = NewDispatch]
  /\ UNCHANGED <<slot, asset, owner>>

ClaimableCancelledFault(r) ==
  /\ Permitted(r)
  /\ run[r].status \in Pending \cup {"CANCELLED"}
  /\ ~HasOpenSlot(r)
  /\ ~(run[r].status = "PROCESSING" /\ run[r].lease = "live")

(* claim_run up to the reservation: an unreleased slot of the run refuses   *)
(* the claim even when its lease is over.                                   *)
Claimable(r) ==
  /\ Permitted(r)
  /\ run[r].status \in Pending
  /\ ~HasOpenSlot(r)
  /\ ~(run[r].status = "PROCESSING" /\ run[r].lease = "live")

(* claim_run, granted: the rows it writes besides the outbox.  Reserves a   *)
(* budget for a run that never had one.                                     *)
ClaimRows(r) ==
  LET f == run[r].fence + 1 IN
  /\ Claimable(r)
  /\ budget[r] # "closed"
  /\ RetriesLeft(r)
  /\ CapacityFree(r)
  /\ f \in Fences
  /\ run' = [run EXCEPT ![r].status = "PROCESSING", ![r].fence = f,
                        ![r].attempts = @ + 1, ![r].lease = "live"]
  /\ slot' = [slot EXCEPT ![r][f] = OpenedSlot]
  /\ budget' = [budget EXCEPT ![r] = "open"]
  /\ UNCHANGED <<asset, owner>>

(* claim_run, granted: a run that never had an outbox row gets one.         *)
ClaimGranted(r) ==
  /\ ClaimRows(r)
  /\ dispatch' = [dispatch EXCEPT ![r] = WithIntent(@)]

(* claim_run, reserve_run throttled: the day's budget is used up, or the    *)
(* run's own budget is settled.  RUN_BUDGET_EXHAUSTED.                      *)
ClaimUnbudgeted(r) ==
  /\ Claimable(r)
  /\ budget[r] # "open"
  /\ run' = [run EXCEPT ![r].status = "FAILED"]
  /\ UNCHANGED <<slot, budget, dispatch, asset, owner>>

(* claim_run, RETRY_BUDGET_EXHAUSTED: fails the run and settles it.         *)
ClaimExhausted(r) ==
  /\ Claimable(r)
  /\ budget[r] # "closed"
  /\ ~RetriesLeft(r)
  /\ run' = [run EXCEPT ![r].status = "FAILED"]
  /\ budget' = [budget EXCEPT ![r] = "closed"]
  /\ UNCHANGED <<slot, dispatch, asset, owner>>

(* claim_run returning None for want of a slot: the reservation it made for *)
(* a run that had none stays.                                               *)
ClaimDeferred(r) ==
  /\ Claimable(r)
  /\ budget[r] = "none"
  /\ RetriesLeft(r)
  /\ ~CapacityFree(r)
  /\ budget' = [budget EXCEPT ![r] = "open"]
  /\ UNCHANGED <<run, slot, dispatch, asset, owner>>

(* begin_execution, entered: the heartbeat inside it renews the lease.      *)
BeginExecution(r, f) ==
  /\ Current(r, f)
  /\ Enterable(r, f)
  /\ run' = [run EXCEPT ![r].lease = "live"]
  /\ slot' = [slot EXCEPT ![r][f].started = TRUE]
  /\ dispatch' = [dispatch EXCEPT ![r] = Mark(@, "STARTED")]
  /\ UNCHANGED <<budget, asset, owner>>

(* begin_execution, refused by the heartbeat or by the slot.  A refusal by  *)
(* the slot has renewed the lease already, which is live in that case.      *)
BeginRefused(r, f) ==
  /\ ~Current(r, f) \/ ~Enterable(r, f)
  /\ UNCHANGED jobVars

(* finish_run, accepted.                                                    *)
FinishRun(r, f, report) ==
  /\ Current(r, f)
  /\ run' = [run EXCEPT ![r].status = report, ![r].result = f, ![r].lease = "none"]
  /\ UNCHANGED <<slot, budget, dispatch, asset, owner>>

(* cancel_run, for a run that is queued or processing.                      *)
CancelRun(r) ==
  /\ run[r].status \in Pending
  /\ run[r].fence < MaxFence
  /\ run' = Revoked({r}, FALSE)
  /\ dispatch' = [dispatch EXCEPT ![r] = Mark(@, "CANCELLED")]
  /\ slot' = [slot EXCEPT ![r] = StopOpen(r)]
  /\ budget' = [budget EXCEPT ![r] = Settled(r, "CANCELLED", HasOpenSlot(r))]
  /\ UNCHANGED <<asset, owner>>

(* acknowledge_stopped(r, f): release the slot; the attempt that is still   *)
(* the run's current one goes back to the queue under a new fence and a new *)
(* outbox generation.  A slot that is not open makes the call a no-op.      *)
AcknowledgeStopped(r, f) ==
  LET requeue == GivenUp(r, f)
      status == IF requeue THEN "QUEUED" ELSE run[r].status
      stillOpen == \E g \in Fences \ {f} : Open(r, g)
  IN
  IF ~Open(r, f) THEN UNCHANGED jobVars
  ELSE /\ requeue => run[r].fence < MaxFence
       /\ slot' = [slot EXCEPT ![r][f].state = "released"]
       /\ run' = IF requeue
                 THEN [run EXCEPT ![r].fence = @ + 1, ![r].status = "QUEUED",
                                  ![r].lease = "none"]
                 ELSE run
       /\ dispatch' = [dispatch EXCEPT ![r] =
            IF requeue THEN Reissued(@)
            ELSE IF status # "QUEUED" THEN Mark(@, "DONE") ELSE @]
       /\ budget' = [budget EXCEPT ![r] = Settled(r, status, stillOpen)]
       /\ UNCHANGED <<asset, owner>>
-----------------------------------------------------------------------------
(* reconcile_runs is a sequence of transactions, each of them an action     *)
(* here.  Requests to stop: for a run whose lease is over ...               *)
ReconcileStale(r) ==
  /\ run[r].status = "PROCESSING" /\ run[r].lease # "live"
  /\ slot' = [slot EXCEPT ![r] = StopOpen(r)]
  /\ UNCHANGED <<run, budget, dispatch, asset, owner>>

(* ... and in one statement for every slot whose run is not processing.     *)
ReconcileOrphans ==
  /\ slot' = [r \in Runs |-> IF run[r].status = "PROCESSING" THEN slot[r] ELSE StopOpen(r)]
  /\ UNCHANGED <<run, budget, dispatch, asset, owner>>

(* The outbox follows the revocations that did not go through cancel_run,   *)
(* again in one statement ...                                               *)
ReconcileCancelled ==
  /\ dispatch' = [r \in Runs |-> IF run[r].status = "CANCELLED"
                                  THEN Mark(dispatch[r], "CANCELLED") ELSE dispatch[r]]
  /\ UNCHANGED <<run, slot, budget, asset, owner>>

(* ... and every queued run gets a row in it.  The list of queued runs is   *)
(* read once and nothing is locked: the run may have moved on.              *)
ReconcileIntent(r) ==
  /\ HasRow(r)
  /\ dispatch' = [dispatch EXCEPT ![r] = WithIntent(@)]
  /\ UNCHANGED <<run, slot, budget, asset, owner>>

(* The budget of a run that ended outside cancel_run and acknowledge_stopped. *)
ReconcileSettle(r) ==
  /\ budget' = [budget EXCEPT ![r] = Settled(r, run[r].status, HasOpenSlot(r))]
  /\ UNCHANGED <<run, slot, dispatch, asset, owner>>
-----------------------------------------------------------------------------
PendingOfAssetFault(a) == {r \in Runs : AssetOf[r] = a /\ run[r].status \in Pending}

(* What a deletion revokes: whatever was derived from the evidence. *)
RunsOfAsset(a) == {r \in Runs : AssetOf[r] = a /\ HasRow(r)}

QueuedOfFault(o) == {r \in Runs : Owner(r) = o /\ run[r].status = "QUEUED"}

(* What a withdrawal revokes: whatever is still to run. *)
PendingOf(o) == {r \in Runs : Owner(r) = o /\ run[r].status \in Pending}

(* The transaction at the head of delete_asset.  It may run again for an    *)
(* asset that is deleted already, when the purge is retried.                *)
DeleteAsset(a) ==
  /\ \A r \in RunsOfAsset(a) : run[r].fence < MaxFence
  /\ asset' = [asset EXCEPT ![a] = "deleted"]
  /\ run' = Revoked(RunsOfAsset(a), TRUE)
  /\ UNCHANGED <<slot, budget, dispatch, owner>>

(* The transaction at the head of delete_account; one delete_asset for each *)
(* of the owner's assets follows it.                                        *)
DeleteAccount(o) ==
  LET rows == {r \in Runs : Owner(r) = o /\ HasRow(r)} IN
  /\ \A r \in rows : run[r].fence < MaxFence
  /\ owner' = [owner EXCEPT ![o] = "deleted"]
  /\ asset' = [a \in Assets |-> IF AssetOwner[a] = o THEN "deleted" ELSE asset[a]]
  /\ run' = Revoked(rows, TRUE)
  /\ UNCHANGED <<slot, budget, dispatch>>

(* record_consent(PROCESSING, WITHDRAW): pending runs are cancelled, the    *)
(* results of finished ones stay.  A second withdrawal would find nothing.  *)
WithdrawProcessing(o) ==
  /\ owner[o] = "active"
  /\ \A r \in PendingOf(o) : run[r].fence < MaxFence
  /\ owner' = [owner EXCEPT ![o] = "withdrawn"]
  /\ run' = Revoked(PendingOf(o), FALSE)
  /\ UNCHANGED <<slot, budget, dispatch, asset>>

(* record_consent(PROCESSING, GRANT): cancelled runs are not restarted.     *)
GrantProcessing(o) ==
  /\ owner[o] = "withdrawn"
  /\ owner' = [owner EXCEPT ![o] = "active"]
  /\ UNCHANGED <<run, slot, budget, dispatch, asset>>
-----------------------------------------------------------------------------
(* The clock. *)

LeaseExpires(r) ==
  /\ run[r].lease = "live"
  /\ run' = [run EXCEPT ![r].lease = "expired"]
  /\ UNCHANGED <<slot, budget, dispatch, asset, owner>>

(* retain_until passes. *)
AssetExpires(a) ==
  /\ asset[a] = "live"
  /\ asset' = [asset EXCEPT ![a] = "expired"]
  /\ UNCHANGED <<run, slot, budget, dispatch, owner>>
-----------------------------------------------------------------------------
(* The steps the composing modules share.  `requests` are the interventions *)
(* an instance explores; leaving one out is a bound of that instance.       *)
Interventions == {"CANCEL", "DELETE_ASSET", "DELETE_ACCOUNT", "CONSENT", "RETENTION"}

OwnerActs(requests) ==
  \/ \E r \in Runs : EnqueueRun(r)
  \/ "CANCEL" \in requests /\ \E r \in Runs : CancelRun(r)
  \/ "DELETE_ASSET" \in requests /\ \E a \in Assets : DeleteAsset(a)
  \/ "DELETE_ACCOUNT" \in requests /\ \E o \in Owners : DeleteAccount(o)
  \/ "CONSENT" \in requests /\ \E o \in Owners : WithdrawProcessing(o) \/ GrantProcessing(o)

ClockTicks(requests) ==
  \/ \E r \in Runs : LeaseExpires(r)
  \/ "RETENTION" \in requests /\ \E a \in Assets : AssetExpires(a)

Reconcile ==
  \/ \E r \in Runs : ReconcileStale(r) \/ ReconcileIntent(r) \/ ReconcileSettle(r)
  \/ ReconcileOrphans
  \/ ReconcileCancelled
-----------------------------------------------------------------------------
(* What every transaction keeps, and what the composing modules rest on.    *)
(* Slots are created in the order of the fences, the current attempt of a   *)
(* run holds its slot for as long as it may publish, a run that waits holds *)
(* none, and the unreleased slots never exceed either limit.                *)
SlotDiscipline ==
  /\ \A r \in Runs, f \in Fences : slot[r][f].state # "none" => f <= run[r].fence
  /\ \A r \in Runs : run[r].status = "PROCESSING" =>
       run[r].fence \in Fences /\ Open(r, run[r].fence)
  /\ \A r \in Runs : run[r].status \in {"ABSENT", "QUEUED"} => ~HasOpenSlot(r)
  /\ \A s, t \in OpenSlots : Owner(s[1]) = Owner(t[1]) => s = t
  /\ Cardinality(OpenSlots) <= ActiveLimit

(* "Physical work cannot refund itself early" (budgets.py): a reservation   *)
(* is settled only when its run cannot go on and holds no slot.             *)
BudgetDiscipline ==
  \A r \in Runs : budget[r] = "closed" =>
    run[r].status \notin Pending /\ ~HasOpenSlot(r)
=============================================================================
