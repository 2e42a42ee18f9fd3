---------------------------- MODULE RunJobsProofs ----------------------------
(***************************************************************************)
(* Lemmas about the transactions of RunJobs, for every value of the        *)
(* constants: each keeps the types of the rows, and each but the claim and *)
(* the acknowledgement is quiet, that is, it neither takes nor gives back  *)
(* a slot and makes no run wait or process that did not already.           *)
(***************************************************************************)
EXTENDS RunJobs, FiniteSetTheorems, TLAPS

(* What a quiet transaction leaves of slots, fences and pending runs.       *)
Quiet ==
  /\ \A r \in Runs, f \in Fences :
       /\ slot'[r][f].state = slot[r][f].state
       /\ slot'[r][f].started = slot[r][f].started
  /\ \A r \in Runs :
       /\ run'[r].fence >= run[r].fence
       /\ run'[r].status = "PROCESSING" =>
            run[r].status = "PROCESSING" /\ run'[r].fence = run[r].fence
       /\ run'[r].status \in {"ABSENT", "QUEUED"} => run[r].status \in {"ABSENT", "QUEUED"}
-----------------------------------------------------------------------------
(* A row put in the place of a slot keeps the type of the table.            *)
LEMMA PutTyped ==
  ASSUME NEW r \in Runs, NEW f \in Fences, NEW row \in SlotRow,
         slot \in [Runs -> [Fences -> SlotRow]]
  PROVE  [slot EXCEPT ![r][f] = row] \in [Runs -> [Fences -> SlotRow]]
<1>1. [slot[r] EXCEPT ![f] = row] \in [Fences -> SlotRow]
  OBVIOUS
<1> QED BY <1>1

(* StopOpen only sets stop flags, of slots of the run.                      *)
LEMMA StopOpenLemma ==
  ASSUME NEW r \in Runs, slot \in [Runs -> [Fences -> SlotRow]]
  PROVE  /\ StopOpen(r) \in [Fences -> SlotRow]
         /\ \A f \in Fences : /\ StopOpen(r)[f].state = slot[r][f].state
                              /\ StopOpen(r)[f].started = slot[r][f].started
<1>1. slot[r] \in [Fences -> SlotRow]
  OBVIOUS
<1>2. ASSUME NEW f \in Fences
      PROVE  /\ StopOpen(r)[f] \in SlotRow
             /\ StopOpen(r)[f].state = slot[r][f].state
             /\ StopOpen(r)[f].started = slot[r][f].started
  BY <1>1 DEF StopOpen, SlotRow, Open
<1> QED BY <1>2 DEF StopOpen

(* A revocation keeps the types, cancels the rows it covers under a higher  *)
(* fence and leaves the others alone.                                       *)
LEMMA RevokedLemma ==
  ASSUME run \in [Runs -> RunRow], NEW rows \in SUBSET Runs, NEW erase \in BOOLEAN,
         \A r \in rows : run[r].fence < MaxFence
  PROVE  /\ Revoked(rows, erase) \in [Runs -> RunRow]
         /\ \A r \in rows : /\ Revoked(rows, erase)[r].status = "CANCELLED"
                            /\ Revoked(rows, erase)[r].fence >= run[r].fence
                            /\ Revoked(rows, erase)[r].result \in {0, run[r].result}
                            /\ erase => Revoked(rows, erase)[r].result = 0
         /\ \A r \in Runs \ rows : Revoked(rows, erase)[r] = run[r]
<1>1. ASSUME NEW r \in rows
      PROVE  /\ Revoked(rows, erase)[r] \in RunRow
             /\ Revoked(rows, erase)[r].status = "CANCELLED"
             /\ Revoked(rows, erase)[r].fence >= run[r].fence
             /\ Revoked(rows, erase)[r].result \in {0, run[r].result}
             /\ erase => Revoked(rows, erase)[r].result = 0
  <2>1. run[r] \in RunRow
    OBVIOUS
  <2>2. run[r].fence + 1 \in 0..MaxFence /\ run[r].fence + 1 >= run[r].fence
    BY <2>1, LimitAssumption DEF RunRow
  <2>3. (IF erase THEN 0 ELSE run[r].result) \in 0..MaxFence
    BY <2>1, LimitAssumption DEF RunRow
  <2>4. Revoked(rows, erase)[r] =
          [run[r] EXCEPT !.status = "CANCELLED", !.fence = @ + 1, !.lease = "none",
                         !.result = IF erase THEN 0 ELSE @]
    BY DEF Revoked
  <2> QED BY <2>1, <2>2, <2>3, <2>4 DEF RunRow, RunStatus, Timer
<1>2. \A r \in Runs \ rows : Revoked(rows, erase)[r] = run[r]
  BY DEF Revoked
<1>3. Revoked(rows, erase) \in [Runs -> RunRow]
  BY <1>1, <1>2 DEF Revoked
<1> QED BY <1>1, <1>2, <1>3

(* A new outbox row is an outbox row.                                       *)
LEMMA NewDispatchTyped == NewDispatch \in DispatchRow
<1>1. AbsentDispatch \in DispatchRow
  BY LimitAssumption DEF AbsentDispatch, DispatchRow, DispatchStatus
<1> QED BY <1>1 DEF NewDispatch, DispatchRow, DispatchStatus

(* The steps on an outbox row keep its type.                                *)
LEMMA DispatchLemma ==
  ASSUME NEW d \in DispatchRow, NEW s \in DispatchStatus
  PROVE  /\ WithIntent(d) \in DispatchRow
         /\ Mark(d, s) \in DispatchRow
         /\ NewDispatch \in DispatchRow
         /\ Reissued(d) \in DispatchRow
<1>1. NewDispatch \in DispatchRow
  BY NewDispatchTyped
<1>2. WithIntent(d) \in DispatchRow
  BY <1>1 DEF WithIntent
<1>3. Mark(d, s) \in DispatchRow
  BY DEF Mark, DispatchRow
<1>4. WithIntent(d).generation + 1 \in Nat
  BY <1>2 DEF DispatchRow
<1>5. Reissued(d) \in DispatchRow
  BY <1>1, <1>4 DEF Reissued, DispatchRow
<1> QED BY <1>1, <1>2, <1>3, <1>5
-----------------------------------------------------------------------------
(* Types and quietness, transaction by transaction.                         *)

LEMMA EnqueueStep ==
  ASSUME JobTypeOK, NEW r \in Runs, EnqueueRun(r)
  PROVE  JobTypeOK' /\ Quiet
<1>1. run[r] \in RunRow
  BY DEF JobTypeOK
<1>2. run' \in [Runs -> RunRow]
  BY <1>1 DEF JobTypeOK, EnqueueRun, RunRow, RunStatus, Pending
<1>3. dispatch' \in [Runs -> DispatchRow]
  BY NewDispatchTyped DEF JobTypeOK, EnqueueRun
<1>4. JobTypeOK'
  BY <1>2, <1>3 DEF JobTypeOK, EnqueueRun
<1>5. Quiet
  <2>1. \A s \in Runs : run[s] \in RunRow
    BY DEF JobTypeOK
  <2> QED BY <2>1 DEF Quiet, EnqueueRun, HasRow, JobTypeOK, RunRow
<1> QED BY <1>4, <1>5

LEMMA UnbudgetedStep ==
  ASSUME JobTypeOK, NEW r \in Runs, ClaimUnbudgeted(r)
  PROVE  JobTypeOK' /\ Quiet
<1>1. \A s \in Runs : run[s] \in RunRow
  BY DEF JobTypeOK
<1>2. [run[r] EXCEPT !.status = "FAILED"] \in RunRow
  BY <1>1 DEF RunRow, RunStatus, Published
<1>3. run' = [run EXCEPT ![r] = [run[r] EXCEPT !.status = "FAILED"]]
  BY DEF ClaimUnbudgeted
<1>4. JobTypeOK'
  BY <1>2, <1>3 DEF JobTypeOK, ClaimUnbudgeted
<1>5. Quiet
  BY <1>1, <1>3 DEF Quiet, JobTypeOK, ClaimUnbudgeted, RunRow
<1> QED BY <1>4, <1>5

LEMMA ExhaustedStep ==
  ASSUME JobTypeOK, NEW r \in Runs, ClaimExhausted(r)
  PROVE  JobTypeOK' /\ Quiet
<1>1. \A s \in Runs : run[s] \in RunRow
  BY DEF JobTypeOK
<1>2. [run[r] EXCEPT !.status = "FAILED"] \in RunRow
  BY <1>1 DEF RunRow, RunStatus, Published
<1>3. run' = [run EXCEPT ![r] = [run[r] EXCEPT !.status = "FAILED"]]
  BY DEF ClaimExhausted
<1>4. JobTypeOK'
  BY <1>2, <1>3 DEF JobTypeOK, ClaimExhausted
<1>5. Quiet
  BY <1>1, <1>3 DEF Quiet, JobTypeOK, ClaimExhausted, RunRow
<1> QED BY <1>4, <1>5

LEMMA DeferredStep ==
  ASSUME JobTypeOK, NEW r \in Runs, ClaimDeferred(r)
  PROVE  JobTypeOK' /\ Quiet
<1>1. \A s \in Runs : run[s] \in RunRow
  BY DEF JobTypeOK
<1>2. JobTypeOK'
  BY DEF JobTypeOK, ClaimDeferred
<1>3. Quiet
  BY <1>1 DEF Quiet, JobTypeOK, ClaimDeferred, RunRow
<1> QED BY <1>2, <1>3

LEMMA BeginStep ==
  ASSUME JobTypeOK, NEW r \in Runs, NEW f \in Fences, BeginExecution(r, f)
  PROVE  /\ JobTypeOK'
         /\ \A s \in Runs, g \in Fences :
              /\ slot'[s][g].state = slot[s][g].state
              /\ slot[s][g].started => slot'[s][g].started
         /\ slot'[r][f].started
         /\ \A s \in Runs : /\ run'[s].status = run[s].status
                            /\ run'[s].fence = run[s].fence
                            /\ run'[s].result = run[s].result
<1>1. \A s \in Runs : run[s] \in RunRow /\ slot[s] \in [Fences -> SlotRow]
  BY DEF JobTypeOK
<1>2. run' \in [Runs -> RunRow]
  BY <1>1 DEF JobTypeOK, BeginExecution, RunRow, Timer
<1>3. slot' = [slot EXCEPT ![r][f] = [slot[r][f] EXCEPT !.started = TRUE]]
  BY DEF BeginExecution
<1>4. [slot[r][f] EXCEPT !.started = TRUE] \in SlotRow
  BY <1>1 DEF SlotRow
<1>5. slot' \in [Runs -> [Fences -> SlotRow]]
  BY <1>3, <1>4, PutTyped DEF JobTypeOK
<1>6. dispatch' \in [Runs -> DispatchRow]
  <2>1. Mark(dispatch[r], "STARTED") \in DispatchRow
    BY DispatchLemma DEF JobTypeOK, DispatchStatus
  <2> QED BY <2>1 DEF JobTypeOK, BeginExecution
<1>7. JobTypeOK'
  BY <1>2, <1>5, <1>6 DEF JobTypeOK, BeginExecution
<1>8. \A s \in Runs, g \in Fences :
        /\ slot'[s][g].state = slot[s][g].state
        /\ slot[s][g].started => slot'[s][g].started
  BY <1>1, <1>3 DEF JobTypeOK, SlotRow
<1>9. slot'[r][f].started
  BY <1>1, <1>3 DEF JobTypeOK, SlotRow
<1>10. \A s \in Runs : /\ run'[s].status = run[s].status
                      /\ run'[s].fence = run[s].fence
                      /\ run'[s].result = run[s].result
  BY <1>1 DEF JobTypeOK, BeginExecution, RunRow
<1> QED BY <1>7, <1>8, <1>9, <1>10

LEMMA FinishStep ==
  ASSUME JobTypeOK, NEW r \in Runs, NEW f \in Fences, NEW report \in Published,
         FinishRun(r, f, report)
  PROVE  JobTypeOK' /\ Quiet
<1>1. \A s \in Runs : run[s] \in RunRow
  BY DEF JobTypeOK
<1>2. run' \in [Runs -> RunRow]
  <2>1. f \in 0..MaxFence /\ report \in RunStatus
    BY LimitAssumption DEF Fences, RunStatus
  <2>2. [run[r] EXCEPT !.status = report, !.result = f, !.lease = "none"] \in RunRow
    BY <1>1, <2>1 DEF RunRow, Timer
  <2>3. run' = [run EXCEPT ![r] = [run[r] EXCEPT !.status = report, !.result = f,
                                                 !.lease = "none"]]
    BY DEF FinishRun
  <2> QED BY <2>2, <2>3 DEF JobTypeOK
<1>3. JobTypeOK'
  BY <1>2 DEF JobTypeOK, FinishRun
<1>4. Quiet
  BY <1>1 DEF Quiet, JobTypeOK, FinishRun, RunRow, Published
<1> QED BY <1>3, <1>4

LEMMA CancelStep ==
  ASSUME JobTypeOK, NEW r \in Runs, CancelRun(r)
  PROVE  JobTypeOK' /\ Quiet
<1>1. run' = Revoked({r}, FALSE) /\ run[r].fence < MaxFence
  BY DEF CancelRun
<1>2. /\ run' \in [Runs -> RunRow]
      /\ run'[r].status = "CANCELLED" /\ run'[r].fence >= run[r].fence
      /\ \A s \in Runs \ {r} : run'[s] = run[s]
  <2>1. {r} \in SUBSET Runs /\ FALSE \in BOOLEAN /\ \A s \in {r} : run[s].fence < MaxFence
    BY <1>1
  <2>2. run \in [Runs -> RunRow]
    BY DEF JobTypeOK
  <2>3. r \in {r}
    OBVIOUS
  <2> HIDE DEF Revoked
  <2>4. /\ Revoked({r}, FALSE) \in [Runs -> RunRow]
        /\ \A s \in {r} : /\ Revoked({r}, FALSE)[s].status = "CANCELLED"
                          /\ Revoked({r}, FALSE)[s].fence >= run[s].fence
        /\ \A s \in Runs \ {r} : Revoked({r}, FALSE)[s] = run[s]
    BY <2>1, <2>2, RevokedLemma
  <2> QED BY <1>1, <2>3, <2>4
<1>3. slot' = [slot EXCEPT ![r] = StopOpen(r)]
  BY DEF CancelRun
<1>4. slot' \in [Runs -> [Fences -> SlotRow]]
  BY <1>3, StopOpenLemma DEF JobTypeOK
<1>5. dispatch' \in [Runs -> DispatchRow]
  <2>1. Mark(dispatch[r], "CANCELLED") \in DispatchRow
    BY DispatchLemma DEF JobTypeOK, DispatchStatus
  <2> QED BY <2>1 DEF JobTypeOK, CancelRun
<1>6. budget' \in [Runs -> {"none", "open", "closed"}]
  BY DEF JobTypeOK, CancelRun, Settled
<1>7. JobTypeOK'
  BY <1>2, <1>4, <1>5, <1>6 DEF JobTypeOK, CancelRun
<1>8. \A s \in Runs : run[s] \in RunRow
  BY DEF JobTypeOK
<1>9. Quiet
  <2>1. \A s \in Runs, f \in Fences : /\ slot'[s][f].state = slot[s][f].state
                                      /\ slot'[s][f].started = slot[s][f].started
    <3>1. slot \in [Runs -> [Fences -> SlotRow]]
      BY DEF JobTypeOK
    <3> QED BY <1>3, <3>1, StopOpenLemma
  <2>2. \A s \in Runs : /\ run'[s].fence >= run[s].fence
                        /\ run'[s].status = "PROCESSING" =>
                             run[s].status = "PROCESSING" /\ run'[s].fence = run[s].fence
                        /\ run'[s].status \in {"ABSENT", "QUEUED"} =>
                             run[s].status \in {"ABSENT", "QUEUED"}
    BY <1>2, <1>8 DEF RunRow
  <2> QED BY <2>1, <2>2 DEF Quiet
<1> QED BY <1>7, <1>9

LEMMA StopStep ==
  ASSUME JobTypeOK, UNCHANGED <<run, budget, dispatch, asset, owner>>,
         NEW rows \in SUBSET Runs,
         slot' = [r \in Runs |-> IF r \in rows THEN StopOpen(r) ELSE slot[r]]
  PROVE  JobTypeOK' /\ Quiet
<1>1. slot \in [Runs -> [Fences -> SlotRow]]
  BY DEF JobTypeOK
<1>2. ASSUME NEW r \in Runs
      PROVE  /\ slot'[r] \in [Fences -> SlotRow]
             /\ \A f \in Fences : /\ slot'[r][f].state = slot[r][f].state
                                  /\ slot'[r][f].started = slot[r][f].started
  BY <1>1, StopOpenLemma
<1>3. slot' \in [Runs -> [Fences -> SlotRow]]
  BY <1>2
<1>4. JobTypeOK'
  BY <1>3 DEF JobTypeOK
<1>5. \A r \in Runs : run'[r] = run[r] /\ run[r] \in RunRow
  BY DEF JobTypeOK
<1>6. Quiet
  BY <1>2, <1>5 DEF Quiet, RunRow
<1> QED BY <1>4, <1>6

LEMMA ReconcileStep ==
  ASSUME JobTypeOK, Reconcile
  PROVE  JobTypeOK' /\ Quiet
<1>1. \A r \in Runs : run[r] \in RunRow
  BY DEF JobTypeOK
<1>2. ASSUME NEW r \in Runs, ReconcileStale(r)
      PROVE  JobTypeOK' /\ Quiet
  <2>1. slot' = [s \in Runs |-> IF s \in {r} THEN StopOpen(s) ELSE slot[s]]
    BY <1>2 DEF ReconcileStale, JobTypeOK
  <2>2. {r} \in SUBSET Runs
    OBVIOUS
  <2>3. UNCHANGED <<run, budget, dispatch, asset, owner>>
    BY <1>2 DEF ReconcileStale
  <2> QED BY <2>1, <2>2, <2>3, StopStep
<1>3. ASSUME NEW r \in Runs, ReconcileIntent(r)
      PROVE  JobTypeOK' /\ Quiet
  <2>1. WithIntent(dispatch[r]) \in DispatchRow
    BY NewDispatchTyped DEF JobTypeOK, WithIntent
  <2>2. JobTypeOK'
    BY <1>3, <2>1 DEF JobTypeOK, ReconcileIntent
  <2>3. Quiet
    BY <1>1, <1>3 DEF Quiet, ReconcileIntent, RunRow
  <2> QED BY <2>2, <2>3
<1>4. ASSUME NEW r \in Runs, ReconcileSettle(r)
      PROVE  JobTypeOK' /\ Quiet
  <2>1. JobTypeOK'
    BY <1>4 DEF JobTypeOK, ReconcileSettle, Settled
  <2>2. Quiet
    BY <1>1, <1>4 DEF Quiet, ReconcileSettle, RunRow
  <2> QED BY <2>1, <2>2
<1>5. ASSUME ReconcileOrphans
      PROVE  JobTypeOK' /\ Quiet
  <2> DEFINE rows == {r \in Runs : run[r].status # "PROCESSING"}
  <2>1. slot' = [r \in Runs |-> IF r \in rows THEN StopOpen(r) ELSE slot[r]]
    BY <1>5 DEF ReconcileOrphans
  <2>2. rows \in SUBSET Runs
    OBVIOUS
  <2>3. UNCHANGED <<run, budget, dispatch, asset, owner>>
    BY <1>5 DEF ReconcileOrphans
  <2> HIDE DEF rows
  <2> QED BY <2>1, <2>2, <2>3, StopStep
<1>6. ASSUME ReconcileCancelled
      PROVE  JobTypeOK' /\ Quiet
  <2>1. ASSUME NEW r \in Runs
        PROVE  dispatch'[r] \in DispatchRow
    <3>1. Mark(dispatch[r], "CANCELLED") \in DispatchRow
      BY DispatchLemma DEF JobTypeOK, DispatchStatus
    <3> QED BY <1>6, <3>1 DEF ReconcileCancelled, JobTypeOK
  <2>2. JobTypeOK'
    BY <1>6, <2>1 DEF JobTypeOK, ReconcileCancelled
  <2>3. Quiet
    BY <1>1, <1>6 DEF Quiet, ReconcileCancelled, RunRow
  <2> QED BY <2>2, <2>3
<1> QED BY <1>2, <1>3, <1>4, <1>5, <1>6 DEF Reconcile

(* The revocations that leave slots, budgets and outbox to reconciliation.  *)
LEMMA RevokingStep ==
  ASSUME JobTypeOK, NEW rows \in SUBSET Runs, NEW erase \in BOOLEAN,
         \A r \in rows : run[r].fence < MaxFence,
         run' = Revoked(rows, erase), UNCHANGED <<slot, budget, dispatch>>,
         asset' \in [Assets -> {"live", "expired", "deleted"}],
         owner' \in [Owners -> {"active", "withdrawn", "deleted"}]
  PROVE  JobTypeOK' /\ Quiet
<1>1. run \in [Runs -> RunRow] /\ \A r \in Runs : run[r] \in RunRow
  BY DEF JobTypeOK
<1>2. /\ run' \in [Runs -> RunRow]
      /\ \A r \in rows : run'[r].status = "CANCELLED" /\ run'[r].fence >= run[r].fence
      /\ \A r \in Runs \ rows : run'[r] = run[r]
  BY <1>1, RevokedLemma
<1>3. JobTypeOK'
  BY <1>2 DEF JobTypeOK
<1>4. Quiet
  <2>1. ASSUME NEW r \in Runs
        PROVE  /\ run'[r].fence >= run[r].fence
               /\ run'[r].status = "PROCESSING" =>
                    run[r].status = "PROCESSING" /\ run'[r].fence = run[r].fence
               /\ run'[r].status \in {"ABSENT", "QUEUED"} =>
                    run[r].status \in {"ABSENT", "QUEUED"}
    BY <1>1, <1>2 DEF RunRow
  <2> QED BY <2>1 DEF Quiet
<1> QED BY <1>3, <1>4

LEMMA DeleteAssetStep ==
  ASSUME JobTypeOK, NEW a \in Assets, DeleteAsset(a)
  PROVE  JobTypeOK' /\ Quiet
<1> DEFINE rows == RunsOfAsset(a)
<1>1. rows \in SUBSET Runs /\ TRUE \in BOOLEAN
  BY DEF RunsOfAsset
<1>2. /\ \A r \in rows : run[r].fence < MaxFence
      /\ run' = Revoked(rows, TRUE)
      /\ UNCHANGED <<slot, budget, dispatch, owner>>
  BY DEF DeleteAsset
<1>3. asset' \in [Assets -> {"live", "expired", "deleted"}]
  BY DEF DeleteAsset, JobTypeOK
<1>4. owner' \in [Owners -> {"active", "withdrawn", "deleted"}]
  BY DEF DeleteAsset, JobTypeOK
<1> HIDE DEF rows
<1> QED BY <1>1, <1>2, <1>3, <1>4, RevokingStep

LEMMA DeleteAccountStep ==
  ASSUME JobTypeOK, NEW o \in Owners, DeleteAccount(o)
  PROVE  JobTypeOK' /\ Quiet
<1> DEFINE rows == {r \in Runs : Owner(r) = o /\ HasRow(r)}
<1>1. rows \in SUBSET Runs /\ TRUE \in BOOLEAN
  OBVIOUS
<1>2. /\ \A r \in rows : run[r].fence < MaxFence
      /\ run' = Revoked(rows, TRUE)
      /\ UNCHANGED <<slot, budget, dispatch>>
  BY DEF DeleteAccount
<1>3. asset' \in [Assets -> {"live", "expired", "deleted"}]
  BY DEF DeleteAccount, JobTypeOK
<1>4. owner' \in [Owners -> {"active", "withdrawn", "deleted"}]
  BY DEF DeleteAccount, JobTypeOK
<1> HIDE DEF rows
<1> QED BY <1>1, <1>2, <1>3, <1>4, RevokingStep

LEMMA ConsentStep ==
  ASSUME JobTypeOK, NEW o \in Owners, WithdrawProcessing(o) \/ GrantProcessing(o)
  PROVE  JobTypeOK' /\ Quiet
<1>1. CASE WithdrawProcessing(o)
  <2> DEFINE rows == PendingOf(o)
  <2>1. rows \in SUBSET Runs /\ FALSE \in BOOLEAN
    BY DEF PendingOf
  <2>2. /\ \A r \in rows : run[r].fence < MaxFence
        /\ run' = Revoked(rows, FALSE)
        /\ UNCHANGED <<slot, budget, dispatch, asset>>
    BY <1>1 DEF WithdrawProcessing
  <2>3. asset' \in [Assets -> {"live", "expired", "deleted"}]
    BY <1>1 DEF WithdrawProcessing, JobTypeOK
  <2>4. owner' \in [Owners -> {"active", "withdrawn", "deleted"}]
    BY <1>1 DEF WithdrawProcessing, JobTypeOK
  <2> HIDE DEF rows
  <2> QED BY <2>1, <2>2, <2>3, <2>4, RevokingStep
<1>2. CASE GrantProcessing(o)
  <2>1. JobTypeOK'
    BY <1>2 DEF GrantProcessing, JobTypeOK
  <2>2. \A r \in Runs : run[r] \in RunRow
    BY DEF JobTypeOK
  <2>3. Quiet
    BY <1>2, <2>2 DEF GrantProcessing, Quiet, RunRow
  <2> QED BY <2>1, <2>3
<1> QED BY <1>1, <1>2

LEMMA ClockStep ==
  ASSUME JobTypeOK, NEW requests, ClockTicks(requests)
  PROVE  JobTypeOK' /\ Quiet
<1>1. \A r \in Runs : run[r] \in RunRow
  BY DEF JobTypeOK
<1>2. ASSUME NEW r \in Runs, LeaseExpires(r)
      PROVE  JobTypeOK' /\ Quiet
  <2>1. run' = [run EXCEPT ![r] = [run[r] EXCEPT !.lease = "expired"]]
    BY <1>2 DEF LeaseExpires
  <2>2. [run[r] EXCEPT !.lease = "expired"] \in RunRow
    BY <1>1 DEF RunRow, Timer
  <2>3. JobTypeOK'
    BY <1>2, <2>1, <2>2 DEF JobTypeOK, LeaseExpires
  <2>4. Quiet
    BY <1>1, <1>2, <2>1 DEF Quiet, JobTypeOK, LeaseExpires, RunRow
  <2> QED BY <2>3, <2>4
<1>3. ASSUME NEW a \in Assets, AssetExpires(a)
      PROVE  JobTypeOK' /\ Quiet
  <2>1. JobTypeOK'
    BY <1>3 DEF JobTypeOK, AssetExpires
  <2>2. Quiet
    BY <1>1, <1>3 DEF Quiet, AssetExpires, RunRow
  <2> QED BY <2>1, <2>2
<1> QED BY <1>2, <1>3 DEF ClockTicks

(* Everything the owner can ask for.                                        *)
LEMMA OwnerStep ==
  ASSUME JobTypeOK, NEW requests, OwnerActs(requests)
  PROVE  JobTypeOK' /\ Quiet
BY EnqueueStep, CancelStep, DeleteAssetStep, DeleteAccountStep, ConsentStep DEF OwnerActs
-----------------------------------------------------------------------------
(* The slots. *)

(* There are finitely many slots, so counting the open ones means something. *)
LEMMA OpenSlotsFinite == IsFiniteSet(OpenSlots) /\ Cardinality(OpenSlots) \in Nat
<1>1. IsFiniteSet(Fences)
  <2>1. 1 \in Int /\ MaxFence \in Int
    BY LimitAssumption
  <2> QED BY <2>1, FS_Interval DEF Fences
<1>2. IsFiniteSet(Runs \X Fences)
  BY <1>1, RunsAssumption, FS_Product
<1>3. OpenSlots \subseteq Runs \X Fences
  BY DEF OpenSlots
<1> QED BY <1>2, <1>3, FS_Subset, FS_CardinalityType

(* A pair is an open slot exactly when its row is open.                     *)
LEMMA OpenSlotsMember ==
  ASSUME NEW r \in Runs, NEW f \in Fences
  PROVE  <<r, f>> \in OpenSlots <=> Open(r, f)
BY DEF OpenSlots

(* Steps that change no slot state and make nobody wait or run keep the     *)
(* discipline.                                                              *)
LEMMA QuietKeepsSlots ==
  ASSUME JobTypeOK, JobTypeOK', SlotDiscipline, Quiet
  PROVE  SlotDiscipline'
<1>1. \A r \in Runs, f \in Fences : Open(r, f)' <=> Open(r, f)
  BY DEF Open, Quiet
<1>2. OpenSlots' = OpenSlots
  BY <1>1 DEF OpenSlots
<1>3. \A r \in Runs : run[r] \in RunRow /\ run'[r] \in RunRow
  BY DEF JobTypeOK
<1>4. ASSUME NEW r \in Runs, NEW f \in Fences, slot'[r][f].state # "none"
      PROVE  f <= run'[r].fence
  <2>1. slot[r][f].state # "none" /\ run[r].fence <= run'[r].fence
    BY <1>3, <1>4 DEF Quiet, RunRow
  <2>2. f <= run[r].fence
    BY <2>1 DEF SlotDiscipline
  <2>3. f \in Nat /\ run[r].fence \in Nat /\ run'[r].fence \in Nat
    BY <1>3, LimitAssumption DEF Fences, RunRow
  <2> QED BY <2>1, <2>2, <2>3
<1>5. ASSUME NEW r \in Runs, run'[r].status = "PROCESSING"
      PROVE  run'[r].fence \in Fences /\ Open(r, run[r].fence)'
  <2>1. run[r].status = "PROCESSING" /\ run'[r].fence = run[r].fence
    BY <1>5 DEF Quiet
  <2>2. run[r].fence \in Fences /\ Open(r, run[r].fence)
    BY <2>1 DEF SlotDiscipline
  <2> QED BY <1>1, <2>1, <2>2 DEF Open
<1>6. ASSUME NEW r \in Runs, run'[r].status \in {"ABSENT", "QUEUED"}
      PROVE  ~HasOpenSlot(r)'
  <2>1. ~HasOpenSlot(r)
    BY <1>6 DEF Quiet, SlotDiscipline
  <2> QED BY <1>1, <2>1 DEF HasOpenSlot
<1>7. /\ \A s, t \in OpenSlots' : Owner(s[1]) = Owner(t[1]) => s = t
      /\ Cardinality(OpenSlots') <= ActiveLimit
  BY <1>2 DEF SlotDiscipline
<1> QED BY <1>4, <1>5, <1>6, <1>7 DEF SlotDiscipline

(* A granted claim opens one new slot and leaves the others as they were,   *)
(* whatever becomes of its outbox row.                                      *)
LEMMA ClaimRowsStep ==
  ASSUME JobTypeOK, NEW r \in Runs, ClaimRows(r), dispatch' \in [Runs -> DispatchRow]
  PROVE  /\ JobTypeOK'
         /\ run[r].fence + 1 \in Fences
         /\ \A s \in Runs, g \in Fences :
              slot'[s][g] = IF s = r /\ g = run[r].fence + 1
                            THEN OpenedSlot
                            ELSE slot[s][g]
         /\ run'[r].status = "PROCESSING" /\ run'[r].fence = run[r].fence + 1
         /\ run'[r].result = run[r].result
         /\ \A s \in Runs \ {r} : run'[s] = run[s]
<1> DEFINE f == run[r].fence + 1
<1>1. /\ f \in Fences /\ run[r].attempts < MaxAttempts
      /\ run' = [run EXCEPT ![r] = [run[r] EXCEPT !.status = "PROCESSING", !.fence = f,
                                     !.attempts = @ + 1, !.lease = "live"]]
      /\ slot' = [slot EXCEPT ![r][f] = OpenedSlot]
      /\ budget' = [budget EXCEPT ![r] = "open"]
      /\ UNCHANGED <<asset, owner>>
  BY DEF ClaimRows, RetriesLeft
<1>2. \A s \in Runs : run[s] \in RunRow /\ slot[s] \in [Fences -> SlotRow]
  BY DEF JobTypeOK
<1>3. run' \in [Runs -> RunRow]
  <2>1. run[r].attempts + 1 \in 0..MaxAttempts
    BY <1>1, <1>2, LimitAssumption DEF RunRow
  <2>2. f \in 0..MaxFence
    BY <1>1, LimitAssumption DEF Fences
  <2>3. [run[r] EXCEPT !.status = "PROCESSING", !.fence = f,
                       !.attempts = @ + 1, !.lease = "live"] \in RunRow
    BY <1>2, <2>1, <2>2 DEF RunRow, RunStatus, Pending, Timer
  <2> QED BY <1>1, <2>3 DEF JobTypeOK
<1>4. slot' \in [Runs -> [Fences -> SlotRow]]
  <2>1. OpenedSlot \in SlotRow
    BY DEF SlotRow, OpenedSlot
  <2>2. slot \in [Runs -> [Fences -> SlotRow]]
    BY DEF JobTypeOK
  <2> HIDE DEF f
  <2> QED BY <1>1, <2>1, <2>2, PutTyped
<1>5. JobTypeOK'
  BY <1>1, <1>3, <1>4 DEF JobTypeOK
<1>6. \A s \in Runs, g \in Fences :
        slot'[s][g] = IF s = r /\ g = f THEN OpenedSlot ELSE slot[s][g]
  <2> HIDE DEF f
  <2> QED BY <1>1, <1>2 DEF JobTypeOK
<1>7. /\ run'[r].status = "PROCESSING" /\ run'[r].fence = f
      /\ run'[r].result = run[r].result
      /\ \A s \in Runs \ {r} : run'[s] = run[s]
  BY <1>1, <1>2 DEF JobTypeOK, RunRow
<1> QED BY <1>1, <1>5, <1>6, <1>7

LEMMA ClaimGrantedRows ==
  ASSUME JobTypeOK, NEW r \in Runs, ClaimGranted(r)
  PROVE  ClaimRows(r) /\ dispatch' \in [Runs -> DispatchRow]
<1>1. WithIntent(dispatch[r]) \in DispatchRow
  BY NewDispatchTyped DEF JobTypeOK, WithIntent
<1> QED BY <1>1 DEF JobTypeOK, ClaimGranted

LEMMA ClaimStep ==
  ASSUME JobTypeOK, NEW r \in Runs, ClaimGranted(r)
  PROVE  /\ JobTypeOK'
         /\ run[r].fence + 1 \in Fences
         /\ \A s \in Runs, g \in Fences :
              slot'[s][g] = IF s = r /\ g = run[r].fence + 1
                            THEN OpenedSlot
                            ELSE slot[s][g]
         /\ run'[r].status = "PROCESSING" /\ run'[r].fence = run[r].fence + 1
         /\ run'[r].result = run[r].result
         /\ \A s \in Runs \ {r} : run'[s] = run[s]
  BY ClaimGrantedRows, ClaimRowsStep

(* A granted claim keeps both limits: the claimant saw every unreleased slot. *)
LEMMA ClaimRowsKeepSlots ==
  ASSUME JobTypeOK, NEW r \in Runs, SlotDiscipline, ClaimRows(r),
         dispatch' \in [Runs -> DispatchRow]
  PROVE  SlotDiscipline'
<1> DEFINE f == run[r].fence + 1
<1>1. /\ f \in Fences
      /\ \A s \in Runs, g \in Fences :
           slot'[s][g].state = IF s = r /\ g = f THEN "open" ELSE slot[s][g].state
      /\ run'[r].status = "PROCESSING" /\ run'[r].fence = f
      /\ \A s \in Runs \ {r} : run'[s] = run[s]
  BY ClaimRowsStep DEF OpenedSlot
<1>2. ~HasOpenSlot(r) /\ CapacityFree(r)
  BY DEF ClaimRows, Claimable
<1>3. \A s \in Runs : run[s] \in RunRow
  BY DEF JobTypeOK
<1>4. run[r].fence \in Nat /\ f = run[r].fence + 1
  BY <1>3, LimitAssumption DEF RunRow
<1> HIDE DEF f
<1>5. \A s \in Runs, g \in Fences : Open(s, g)' <=> Open(s, g) \/ (s = r /\ g = f)
  BY <1>1, <1>2 DEF Open, HasOpenSlot
<1>6. OpenSlots' = OpenSlots \cup {<<r, f>>}
  <2>1. ASSUME NEW s PROVE s \in OpenSlots' <=> s \in OpenSlots \cup {<<r, f>>}
    BY <1>1, <1>5 DEF OpenSlots
  <2> QED BY <2>1
<1>7. <<r, f>> \notin OpenSlots
  BY <1>1, <1>2 DEF OpenSlots, HasOpenSlot
<1>8. Cardinality(OpenSlots') <= ActiveLimit
  <2>1. Cardinality(OpenSlots') = Cardinality(OpenSlots) + 1
    BY <1>6, <1>7, OpenSlotsFinite, FS_AddElement
  <2>2. Cardinality(OpenSlots) < ActiveLimit
    BY <1>2 DEF CapacityFree
  <2> QED BY <2>1, <2>2, OpenSlotsFinite, LimitAssumption
<1>9. \A s, t \in OpenSlots' : Owner(s[1]) = Owner(t[1]) => s = t
  <2>1. \A s \in OpenSlots : Owner(s[1]) # Owner(r)
    BY <1>2 DEF CapacityFree
  <2>2. \A s, t \in OpenSlots : Owner(s[1]) = Owner(t[1]) => s = t
    BY DEF SlotDiscipline
  <2> QED BY <1>6, <2>1, <2>2
<1>10. ASSUME NEW s \in Runs, NEW g \in Fences, slot'[s][g].state # "none"
       PROVE  g <= run'[s].fence
  <2>1. CASE s = r
    <3>1. g = f \/ g <= run[r].fence
      BY <1>1, <1>10, <2>1 DEF SlotDiscipline
    <3>2. g \in Nat
      BY LimitAssumption DEF Fences
    <3> QED BY <1>1, <1>4, <2>1, <3>1, <3>2
  <2>2. CASE s # r
    BY <1>1, <1>10, <2>2 DEF SlotDiscipline
  <2> QED BY <2>1, <2>2
<1>11. ASSUME NEW s \in Runs, run'[s].status = "PROCESSING"
       PROVE  run'[s].fence \in Fences /\ Open(s, run[s].fence)'
  <2>1. CASE s = r
    BY <1>1, <1>5, <2>1 DEF Open
  <2>2. CASE s # r
    BY <1>1, <1>5, <1>11, <2>2 DEF SlotDiscipline, Open
  <2> QED BY <2>1, <2>2
<1>12. ASSUME NEW s \in Runs, run'[s].status \in {"ABSENT", "QUEUED"}
       PROVE  ~HasOpenSlot(s)'
  <2>1. s # r
    BY <1>1, <1>12
  <2>2. ~HasOpenSlot(s)
    BY <1>1, <1>12, <2>1 DEF SlotDiscipline
  <2> QED BY <1>5, <2>1, <2>2 DEF HasOpenSlot
<1> QED BY <1>8, <1>9, <1>10, <1>11, <1>12 DEF SlotDiscipline

LEMMA ClaimKeepsSlots ==
  ASSUME JobTypeOK, NEW r \in Runs, SlotDiscipline, ClaimGranted(r)
  PROVE  SlotDiscipline'
  BY ClaimGrantedRows, ClaimRowsKeepSlots

(* An acknowledgement releases exactly its slot; it gives the run a new     *)
(* fence and puts it back in the queue, or leaves it as it was.             *)
LEMMA AckStep ==
  ASSUME JobTypeOK, NEW r \in Runs, NEW f \in Fences,
         Open(r, f), AcknowledgeStopped(r, f)
  PROVE  /\ JobTypeOK'
         /\ \A s \in Runs, g \in Fences :
              /\ slot'[s][g].state = IF s = r /\ g = f THEN "released" ELSE slot[s][g].state
              /\ slot'[s][g].started = slot[s][g].started
         /\ \A s \in Runs \ {r} : run'[s] = run[s]
         /\ IF GivenUp(r, f)
            THEN /\ run'[r].status = "QUEUED" /\ run'[r].fence = f + 1
                 /\ run'[r].result = run[r].result
            ELSE run'[r] = run[r]
<1> DEFINE requeue == GivenUp(r, f)
<1> DEFINE status == IF requeue THEN "QUEUED" ELSE run[r].status
<1> DEFINE stillOpen == \E g \in Fences \ {f} : Open(r, g)
<1> DEFINE intent == IF requeue
                     THEN Reissued(dispatch[r])
                     ELSE IF status # "QUEUED" THEN Mark(dispatch[r], "DONE") ELSE dispatch[r]
<1>1. \A s \in Runs : run[s] \in RunRow /\ slot[s] \in [Fences -> SlotRow]
  BY DEF JobTypeOK
<1>2. /\ requeue => run[r].fence < MaxFence
      /\ slot' = [slot EXCEPT ![r][f] = [slot[r][f] EXCEPT !.state = "released"]]
      /\ run' = IF requeue
                THEN [run EXCEPT ![r] = [run[r] EXCEPT !.fence = @ + 1, !.status = "QUEUED",
                                                       !.lease = "none"]]
                ELSE run
      /\ dispatch' = [dispatch EXCEPT ![r] = intent]
      /\ budget' = [budget EXCEPT ![r] = Settled(r, status, stillOpen)]
      /\ UNCHANGED <<asset, owner>>
  BY DEF AcknowledgeStopped
<1>3. slot' \in [Runs -> [Fences -> SlotRow]]
  <2>1. [slot[r][f] EXCEPT !.state = "released"] \in SlotRow
    BY <1>1 DEF SlotRow
  <2>2. slot \in [Runs -> [Fences -> SlotRow]]
    BY DEF JobTypeOK
  <2> QED BY <1>2, <2>1, <2>2, PutTyped
<1>4. \A s \in Runs, g \in Fences :
        /\ slot'[s][g].state = IF s = r /\ g = f THEN "released" ELSE slot[s][g].state
        /\ slot'[s][g].started = slot[s][g].started
  BY <1>1, <1>2 DEF JobTypeOK, SlotRow
<1>5. /\ run' \in [Runs -> RunRow]
      /\ \A s \in Runs \ {r} : run'[s] = run[s]
      /\ IF requeue
         THEN /\ run'[r].status = "QUEUED" /\ run'[r].fence = f + 1
              /\ run'[r].result = run[r].result
         ELSE run'[r] = run[r]
  <2>1. CASE requeue
    <3>1. run[r].fence + 1 \in 0..MaxFence
      BY <1>1, <1>2, <2>1, LimitAssumption DEF RunRow
    <3>2. [run[r] EXCEPT !.fence = @ + 1, !.status = "QUEUED", !.lease = "none"] \in RunRow
      BY <1>1, <3>1 DEF RunRow, RunStatus, Pending, Timer
    <3>3. run' = [run EXCEPT ![r] = [run[r] EXCEPT !.fence = @ + 1, !.status = "QUEUED",
                                                   !.lease = "none"]]
      BY <1>2, <2>1
    <3>4. run' \in [Runs -> RunRow]
      BY <3>2, <3>3 DEF JobTypeOK
    <3> QED BY <1>1, <2>1, <3>3, <3>4 DEF JobTypeOK, RunRow, GivenUp
  <2>2. CASE ~requeue
    BY <1>2, <2>2 DEF JobTypeOK
  <2> QED BY <2>1, <2>2
<1>6. dispatch' \in [Runs -> DispatchRow]
  <2>1. dispatch[r] \in DispatchRow /\ "DONE" \in DispatchStatus
    BY DEF JobTypeOK, DispatchStatus
  <2>2. intent \in DispatchRow
    BY <2>1, DispatchLemma
  <2> HIDE DEF intent
  <2> QED BY <1>2, <2>2 DEF JobTypeOK
<1>7. budget' \in [Runs -> {"none", "open", "closed"}]
  <2> HIDE DEF status, stillOpen
  <2>1. Settled(r, status, stillOpen) \in {"none", "open", "closed"}
    BY DEF Settled, JobTypeOK
  <2> QED BY <1>2, <2>1 DEF JobTypeOK
<1>8. JobTypeOK'
  BY <1>2, <1>3, <1>5, <1>6, <1>7 DEF JobTypeOK
<1> QED BY <1>4, <1>5, <1>8

(* It keeps the discipline: the run that goes back to the queue has no      *)
(* other unreleased slot.                                                   *)
LEMMA AckKeepsSlots ==
  ASSUME JobTypeOK, SlotDiscipline, NEW r \in Runs, NEW f \in Fences,
         Open(r, f), AcknowledgeStopped(r, f)
  PROVE  SlotDiscipline'
<1> DEFINE requeue == GivenUp(r, f)
<1>1. /\ \A s \in Runs, g \in Fences :
           slot'[s][g].state = IF s = r /\ g = f THEN "released" ELSE slot[s][g].state
      /\ \A s \in Runs \ {r} : run'[s] = run[s]
      /\ requeue => run'[r].status = "QUEUED" /\ run'[r].fence = f + 1
      /\ ~requeue => run'[r] = run[r]
  BY AckStep
<1>2. \A s \in Runs : run[s].fence \in Nat
  BY LimitAssumption DEF JobTypeOK, RunRow
<1>3. f \in Nat
  BY LimitAssumption DEF Fences
<1>4. \A s \in Runs, g \in Fences : Open(s, g)' <=> Open(s, g) /\ ~(s = r /\ g = f)
  BY <1>1 DEF Open
<1>5. OpenSlots' \subseteq OpenSlots
  BY <1>4 DEF OpenSlots
<1>6. \A g \in Fences : Open(r, g) => g = f
  <2>1. ASSUME NEW g \in Fences, Open(r, g) PROVE g = f
    <3>1. <<r, g>> \in OpenSlots /\ <<r, f>> \in OpenSlots
      BY <2>1 DEF OpenSlots
    <3>2. <<r, g>> = <<r, f>>
      BY <3>1 DEF SlotDiscipline
    <3> QED BY <3>2
  <2> QED BY <2>1
<1>7. Cardinality(OpenSlots') <= ActiveLimit
  <2>1. /\ Cardinality(OpenSlots') \in Nat
        /\ Cardinality(OpenSlots') <= Cardinality(OpenSlots)
    BY <1>5, OpenSlotsFinite, FS_Subset, FS_CardinalityType
  <2>2. Cardinality(OpenSlots) <= ActiveLimit
    BY DEF SlotDiscipline
  <2> QED BY <2>1, <2>2, OpenSlotsFinite, LimitAssumption
<1>8. \A s, t \in OpenSlots' : Owner(s[1]) = Owner(t[1]) => s = t
  BY <1>5 DEF SlotDiscipline
<1>9. ASSUME NEW s \in Runs, NEW g \in Fences, slot'[s][g].state # "none"
      PROVE  g <= run'[s].fence
  <2>1. g <= run[s].fence
    BY <1>1, <1>9 DEF SlotDiscipline, Open
  <2>2. run'[s].fence \in Nat /\ run[s].fence <= run'[s].fence
    <3>1. CASE s = r /\ requeue
      BY <1>1, <1>2, <1>3, <3>1 DEF GivenUp
    <3>2. CASE ~(s = r /\ requeue)
      <4>1. run'[s] = run[s]
        BY <1>1, <3>2
      <4> QED BY <1>2, <4>1
    <3> QED BY <3>1, <3>2
  <2>3. g \in Nat
    BY LimitAssumption DEF Fences
  <2> QED BY <1>2, <2>1, <2>2, <2>3
<1>10. ASSUME NEW s \in Runs, run'[s].status = "PROCESSING"
       PROVE  run'[s].fence \in Fences /\ Open(s, run[s].fence)'
  <2>1. run'[s] = run[s]
    BY <1>1, <1>10
  <2>2. run[s].fence \in Fences /\ Open(s, run[s].fence)
    BY <1>10, <2>1 DEF SlotDiscipline
  <2>3. ~(s = r /\ run[s].fence = f)
    BY <1>1, <1>10, <2>1 DEF GivenUp
  <2> QED BY <1>1, <2>1, <2>2, <2>3 DEF Open
<1>11. ASSUME NEW s \in Runs, run'[s].status \in {"ABSENT", "QUEUED"}
       PROVE  ~HasOpenSlot(s)'
  <2>1. CASE s = r
    BY <1>4, <1>6, <2>1 DEF HasOpenSlot
  <2>2. CASE s # r
    <3>1. ~HasOpenSlot(s)
      BY <1>1, <1>11, <2>2 DEF SlotDiscipline
    <3> QED BY <1>4, <3>1 DEF HasOpenSlot
  <2> QED BY <2>1, <2>2
<1> QED BY <1>7, <1>8, <1>9, <1>10, <1>11 DEF SlotDiscipline

(* Entering an attempt neither takes nor releases a slot.                   *)
LEMMA BeginKeepsSlots ==
  ASSUME JobTypeOK, SlotDiscipline, NEW r \in Runs, NEW f \in Fences, BeginExecution(r, f)
  PROVE  SlotDiscipline'
<1>1. /\ \A s \in Runs, g \in Fences : slot'[s][g].state = slot[s][g].state
      /\ \A s \in Runs : run'[s].status = run[s].status /\ run'[s].fence = run[s].fence
  BY BeginStep
<1>2. OpenSlots' = OpenSlots
  BY <1>1 DEF OpenSlots, Open
<1>3. /\ \A s \in Runs, g \in Fences : slot'[s][g].state # "none" => g <= run'[s].fence
      /\ \A s \in Runs : run'[s].status \in {"ABSENT", "QUEUED"} => ~HasOpenSlot(s)'
  BY <1>1 DEF SlotDiscipline, HasOpenSlot, Open
<1>4. \A s \in Runs : run'[s].status = "PROCESSING" =>
        run'[s].fence \in Fences /\ Open(s, run[s].fence)'
  BY <1>1 DEF SlotDiscipline, Open
<1>5. /\ \A s, t \in OpenSlots' : Owner(s[1]) = Owner(t[1]) => s = t
      /\ Cardinality(OpenSlots') <= ActiveLimit
  BY <1>2 DEF SlotDiscipline
<1> QED BY <1>3, <1>4, <1>5 DEF SlotDiscipline
-----------------------------------------------------------------------------
(* The budgets. *)

(* What a quiet transaction may do to a reservation: leave it closed, or    *)
(* close the one of a run that ended and holds nothing.                     *)
BudgetQuiet ==
  \A r \in Runs : budget'[r] = "closed" =>
    \/ budget[r] = "closed" /\ (run'[r].status = "QUEUED" => run[r].status = "QUEUED")
    \/ run'[r].status \notin Pending /\ ~HasOpenSlot(r)

LEMMA QuietKeepsBudget ==
  ASSUME BudgetDiscipline, Quiet, BudgetQuiet
  PROVE  BudgetDiscipline'
<1>1. \A r \in Runs : HasOpenSlot(r)' <=> HasOpenSlot(r)
  BY DEF HasOpenSlot, Open, Quiet
<1>2. ASSUME NEW r \in Runs, budget'[r] = "closed"
      PROVE  run'[r].status \notin Pending /\ ~HasOpenSlot(r)
  <2>1. CASE budget[r] = "closed" /\ (run'[r].status = "QUEUED" => run[r].status = "QUEUED")
    <3>1. run[r].status \notin Pending /\ ~HasOpenSlot(r)
      BY <2>1 DEF BudgetDiscipline
    <3>2. run'[r].status = "PROCESSING" => run[r].status = "PROCESSING"
      BY DEF Quiet
    <3> QED BY <2>1, <3>1, <3>2 DEF Pending
  <2>2. CASE run'[r].status \notin Pending /\ ~HasOpenSlot(r)
    BY <2>2
  <2> QED BY <1>2, <2>1, <2>2 DEF BudgetQuiet
<1> QED BY <1>1, <1>2 DEF BudgetDiscipline

(* The claims that are refused.                                             *)
LEMMA DeniedBudget ==
  ASSUME JobTypeOK, NEW r \in Runs,
         ClaimUnbudgeted(r) \/ ClaimExhausted(r) \/ ClaimDeferred(r)
  PROVE  BudgetQuiet
<1>1. CASE ClaimUnbudgeted(r)
  BY <1>1 DEF ClaimUnbudgeted, BudgetQuiet, JobTypeOK
<1>2. CASE ClaimExhausted(r)
  BY <1>2 DEF ClaimExhausted, Claimable, BudgetQuiet, JobTypeOK, Pending
<1>3. CASE ClaimDeferred(r)
  BY <1>3 DEF ClaimDeferred, BudgetQuiet, JobTypeOK
<1> QED BY <1>1, <1>2, <1>3

(* A published report closes nothing: the slot is still there.              *)
LEMMA FinishBudget ==
  ASSUME JobTypeOK, NEW r \in Runs, NEW f \in Fences, NEW report \in Published,
         FinishRun(r, f, report)
  PROVE  BudgetQuiet
<1>1. report # "QUEUED"
  BY DEF Published
<1> QED BY <1>1 DEF FinishRun, BudgetQuiet, JobTypeOK

(* Revocations outside cancel_run touch no budget.                          *)
LEMMA RevokingBudget ==
  ASSUME JobTypeOK, NEW rows \in SUBSET Runs, NEW erase \in BOOLEAN,
         \A r \in rows : run[r].fence < MaxFence,
         run' = Revoked(rows, erase), UNCHANGED budget
  PROVE  BudgetQuiet
<1>1. run \in [Runs -> RunRow]
  BY DEF JobTypeOK
<1>2. /\ \A r \in rows : run'[r].status = "CANCELLED"
      /\ \A r \in Runs \ rows : run'[r] = run[r]
  BY <1>1, RevokedLemma
<1> QED BY <1>2 DEF BudgetQuiet

LEMMA DeleteAssetBudget ==
  ASSUME JobTypeOK, NEW a \in Assets, DeleteAsset(a)
  PROVE  BudgetQuiet
<1> DEFINE rows == RunsOfAsset(a)
<1>1. rows \in SUBSET Runs /\ TRUE \in BOOLEAN
  BY DEF RunsOfAsset
<1>2. /\ \A r \in rows : run[r].fence < MaxFence
      /\ run' = Revoked(rows, TRUE) /\ UNCHANGED budget
  BY DEF DeleteAsset
<1> HIDE DEF rows
<1> QED BY <1>1, <1>2, RevokingBudget

LEMMA OwnerBudget ==
  ASSUME JobTypeOK, NEW requests, OwnerActs(requests)
  PROVE  BudgetQuiet
<1>1. ASSUME NEW r \in Runs, EnqueueRun(r) PROVE BudgetQuiet
  BY <1>1 DEF EnqueueRun, BudgetQuiet, JobTypeOK
<1>2. ASSUME NEW r \in Runs, CancelRun(r) PROVE BudgetQuiet
  <2>1. run'[r].status = "CANCELLED" /\ \A s \in Runs \ {r} : run'[s] = run[s]
    <3>1. /\ run' = Revoked({r}, FALSE) /\ {r} \in SUBSET Runs /\ FALSE \in BOOLEAN
          /\ \A s \in {r} : run[s].fence < MaxFence
      BY <1>2 DEF CancelRun
    <3>2. run \in [Runs -> RunRow] /\ r \in {r}
      BY DEF JobTypeOK
    <3>3. /\ \A s \in {r} : Revoked({r}, FALSE)[s].status = "CANCELLED"
          /\ \A s \in Runs \ {r} : Revoked({r}, FALSE)[s] = run[s]
      BY <3>1, <3>2, RevokedLemma
    <3> QED BY <3>1, <3>2, <3>3
  <2>2. /\ \A s \in Runs \ {r} : budget'[s] = budget[s]
        /\ budget'[r] = Settled(r, "CANCELLED", HasOpenSlot(r))
    BY <1>2 DEF CancelRun, JobTypeOK
  <2>3. "CANCELLED" \notin Pending
    BY DEF Pending
  <2> QED BY <2>1, <2>2, <2>3 DEF BudgetQuiet, Settled
<1>3. ASSUME NEW a \in Assets, DeleteAsset(a) PROVE BudgetQuiet
  BY <1>3, DeleteAssetBudget
<1>4. ASSUME NEW o \in Owners, DeleteAccount(o) PROVE BudgetQuiet
  <2> DEFINE rows == {r \in Runs : Owner(r) = o /\ HasRow(r)}
  <2>1. rows \in SUBSET Runs /\ TRUE \in BOOLEAN
    OBVIOUS
  <2>2. /\ \A r \in rows : run[r].fence < MaxFence
        /\ run' = Revoked(rows, TRUE) /\ UNCHANGED budget
    BY <1>4 DEF DeleteAccount
  <2> HIDE DEF rows
  <2> QED BY <2>1, <2>2, RevokingBudget
<1>5. ASSUME NEW o \in Owners, WithdrawProcessing(o) PROVE BudgetQuiet
  <2> DEFINE rows == PendingOf(o)
  <2>1. rows \in SUBSET Runs /\ FALSE \in BOOLEAN
    BY DEF PendingOf
  <2>2. /\ \A r \in rows : run[r].fence < MaxFence
        /\ run' = Revoked(rows, FALSE) /\ UNCHANGED budget
    BY <1>5 DEF WithdrawProcessing
  <2> HIDE DEF rows
  <2> QED BY <2>1, <2>2, RevokingBudget
<1>6. ASSUME NEW o \in Owners, GrantProcessing(o) PROVE BudgetQuiet
  BY <1>6 DEF GrantProcessing, BudgetQuiet
<1> QED BY <1>1, <1>2, <1>3, <1>4, <1>5, <1>6 DEF OwnerActs

LEMMA ReconcileBudget ==
  ASSUME JobTypeOK, Reconcile
  PROVE  BudgetQuiet
<1>1. ASSUME NEW r \in Runs, ReconcileStale(r) PROVE BudgetQuiet
  BY <1>1 DEF ReconcileStale, BudgetQuiet
<1>2. ASSUME NEW r \in Runs, ReconcileIntent(r) PROVE BudgetQuiet
  BY <1>2 DEF ReconcileIntent, BudgetQuiet
<1>3. ASSUME NEW r \in Runs, ReconcileSettle(r) PROVE BudgetQuiet
  BY <1>3 DEF ReconcileSettle, Settled, BudgetQuiet, JobTypeOK
<1>4. ASSUME ReconcileOrphans PROVE BudgetQuiet
  BY <1>4 DEF ReconcileOrphans, BudgetQuiet
<1>5. ASSUME ReconcileCancelled PROVE BudgetQuiet
  BY <1>5 DEF ReconcileCancelled, BudgetQuiet
<1> QED BY <1>1, <1>2, <1>3, <1>4, <1>5 DEF Reconcile

LEMMA ClockBudget ==
  ASSUME JobTypeOK, NEW requests, ClockTicks(requests)
  PROVE  BudgetQuiet
<1>1. ASSUME NEW r \in Runs, LeaseExpires(r) PROVE BudgetQuiet
  <2>1. \A s \in Runs : run[s] \in RunRow
    BY DEF JobTypeOK
  <2>2. \A s \in Runs : run'[s].status = run[s].status
    BY <1>1, <2>1 DEF LeaseExpires, JobTypeOK, RunRow
  <2> QED BY <1>1, <2>2 DEF LeaseExpires, BudgetQuiet
<1>2. ASSUME NEW a \in Assets, AssetExpires(a) PROVE BudgetQuiet
  BY <1>2 DEF AssetExpires, BudgetQuiet
<1> QED BY <1>1, <1>2 DEF ClockTicks

(* The three transactions that are not quiet.                               *)
LEMMA ClaimKeepsBudget ==
  ASSUME JobTypeOK, BudgetDiscipline, NEW r \in Runs, ClaimGranted(r)
  PROVE  BudgetDiscipline'
<1>1. /\ \A s \in Runs \ {r} : run'[s] = run[s]
      /\ \A s \in Runs \ {r}, g \in Fences : slot'[s][g] = slot[s][g]
  BY ClaimStep
<1>2. budget'[r] = "open" /\ \A s \in Runs \ {r} : budget'[s] = budget[s]
  BY DEF ClaimGranted, ClaimRows, JobTypeOK
<1> QED BY <1>1, <1>2 DEF BudgetDiscipline, HasOpenSlot, Open

LEMMA BeginKeepsBudget ==
  ASSUME JobTypeOK, BudgetDiscipline, NEW r \in Runs, NEW f \in Fences, BeginExecution(r, f)
  PROVE  BudgetDiscipline'
<1>1. /\ \A s \in Runs, g \in Fences : slot'[s][g].state = slot[s][g].state
      /\ \A s \in Runs : run'[s].status = run[s].status
  BY BeginStep
<1>2. budget' = budget
  BY DEF BeginExecution
<1> QED BY <1>1, <1>2 DEF BudgetDiscipline, HasOpenSlot, Open

LEMMA AckKeepsBudget ==
  ASSUME JobTypeOK, BudgetDiscipline, NEW r \in Runs, NEW f \in Fences,
         Open(r, f), AcknowledgeStopped(r, f)
  PROVE  BudgetDiscipline'
<1> DEFINE requeue == GivenUp(r, f)
<1> DEFINE status == IF requeue THEN "QUEUED" ELSE run[r].status
<1> DEFINE stillOpen == \E g \in Fences \ {f} : Open(r, g)
<1>1. /\ \A s \in Runs, g \in Fences :
           slot'[s][g].state = IF s = r /\ g = f THEN "released" ELSE slot[s][g].state
      /\ \A s \in Runs \ {r} : run'[s] = run[s]
      /\ run'[r].status = status
  BY AckStep
<1>2. /\ budget'[r] = Settled(r, status, stillOpen)
      /\ \A s \in Runs \ {r} : budget'[s] = budget[s]
  BY DEF AcknowledgeStopped, JobTypeOK
<1>3. budget[r] # "closed"
  BY DEF BudgetDiscipline, HasOpenSlot
<1> HIDE DEF status
<1>4. budget'[r] = "closed" => status \notin Pending /\ ~stillOpen
  BY <1>2, <1>3 DEF Settled
<1>5. stillOpen <=> HasOpenSlot(r)'
  BY <1>1 DEF HasOpenSlot, Open
<1>6. \A s \in Runs \ {r} : HasOpenSlot(s)' <=> HasOpenSlot(s)
  BY <1>1 DEF HasOpenSlot, Open
<1> QED BY <1>1, <1>2, <1>4, <1>5, <1>6 DEF BudgetDiscipline
-----------------------------------------------------------------------------
(* The initial rows: legacy runs wait, nothing holds a slot.                *)
LEMMA JobsAtFirst ==
  ASSUME JobInit
  PROVE  /\ JobTypeOK /\ SlotDiscipline /\ BudgetDiscipline
         /\ \A r \in Runs : /\ run[r].status \in {"ABSENT", "QUEUED"} /\ run[r].attempts = 0
                            /\ dispatch[r] = AbsentDispatch
         /\ \A r \in Runs, f \in Fences : slot[r][f].state = "none"
<1>1. /\ run \in [Runs -> RunRow]
      /\ \A r \in Runs : run[r].status \in {"ABSENT", "QUEUED"} /\ run[r].attempts = 0
  <2>1. AbsentRun \in RunRow /\ AbsentRun.status = "ABSENT" /\ AbsentRun.attempts = 0
    BY LimitAssumption DEF AbsentRun, RunRow, RunStatus, Timer
  <2>2. /\ [AbsentRun EXCEPT !.status = "QUEUED"] \in RunRow
        /\ [AbsentRun EXCEPT !.status = "QUEUED"].status = "QUEUED"
        /\ [AbsentRun EXCEPT !.status = "QUEUED"].attempts = 0
    BY <2>1 DEF RunRow, RunStatus, Pending
  <2>3. PICK legacy \in SUBSET Runs :
          run = [r \in Runs |-> IF r \in legacy
                                THEN [AbsentRun EXCEPT !.status = "QUEUED"]
                                ELSE AbsentRun]
    BY DEF JobInit
  <2> QED BY <2>1, <2>2, <2>3
<1>2. slot = [r \in Runs |-> [f \in Fences |-> AbsentSlot]] /\ AbsentSlot \in SlotRow
  BY DEF JobInit, AbsentSlot, SlotRow
<1>3. AbsentDispatch \in DispatchRow
  BY LimitAssumption DEF AbsentDispatch, DispatchRow, DispatchStatus
<1>4. JobTypeOK
  <2>1. /\ dispatch = [r \in Runs |-> AbsentDispatch]
        /\ budget = [r \in Runs |-> "none"]
        /\ asset = [a \in Assets |-> "live"]
        /\ owner = [o \in Owners |-> "active"]
    BY DEF JobInit
  <2>2. dispatch \in [Runs -> DispatchRow]
    BY <2>1, <1>3
  <2>3. slot \in [Runs -> [Fences -> SlotRow]]
    BY <1>2
  <2>4. /\ budget \in [Runs -> {"none", "open", "closed"}]
        /\ asset \in [Assets -> {"live", "expired", "deleted"}]
        /\ owner \in [Owners -> {"active", "withdrawn", "deleted"}]
    BY <2>1
  <2> QED BY <1>1, <2>2, <2>3, <2>4 DEF JobTypeOK
<1>5. \A r \in Runs, f \in Fences : slot[r][f].state = "none"
  BY <1>2 DEF AbsentSlot
<1>6. OpenSlots = {} /\ \A r \in Runs : ~HasOpenSlot(r)
  BY <1>5 DEF OpenSlots, HasOpenSlot, Open
<1>7. SlotDiscipline
  <2>1. Cardinality(OpenSlots) <= ActiveLimit
    BY <1>6, FS_EmptySet, LimitAssumption
  <2> QED BY <1>1, <1>5, <1>6, <2>1 DEF SlotDiscipline
<1>8. BudgetDiscipline
  BY DEF BudgetDiscipline, JobInit
<1>9. \A r \in Runs : dispatch[r] = AbsentDispatch
  BY DEF JobInit
<1> QED BY <1>1, <1>4, <1>5, <1>7, <1>8, <1>9
=============================================================================
