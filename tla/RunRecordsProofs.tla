-------------------------- MODULE RunRecordsProofs --------------------------
(***************************************************************************)
(* What the rows of the runs say, for every set of runs, owners and        *)
(* processes and every limit: results are those of the current attempt,    *)
(* revocations are final, and the job lifecycle implements                 *)
(* FencedExecution.  Every step of LocalWorkers is one of seven kinds, as  *)
(* far as the records see it; the theorems are proved kind by kind.        *)
(***************************************************************************)
EXTENDS LocalWorkersProofs

SameRow(r) ==
  /\ run'[r].status = run[r].status /\ run'[r].fence = run[r].fence
  /\ run'[r].attempts = run[r].attempts /\ run'[r].result = run[r].result
OthersStand(r) == \A q \in Runs \ {r} : SameRow(q)

(* No slot is opened, released or left again.                              *)
SlotsStand ==
  \A r \in Runs, f \in Fences :
    /\ slot'[r][f].state = slot[r][f].state
    /\ slot[r][f].started => slot'[r][f].started

(* Nobody loses a consent or an account, nothing is deleted.               *)
RightsStand ==
  \A r \in Runs :
    /\ owner'[Owner(r)] # "active" => owner[Owner(r)] # "active"
    /\ asset'[AssetOf[r]] = "deleted" => asset[AssetOf[r]] = "deleted"

Still == (\A r \in Runs : SameRow(r)) /\ SlotsStand /\ RightsStand

Submits(r) ==
  /\ ~HasRow(r) /\ Permitted(r)
  /\ run'[r].status = "QUEUED" /\ run'[r].fence = run[r].fence
  /\ run'[r].attempts = run[r].attempts /\ run'[r].result = run[r].result
  /\ OthersStand(r) /\ SlotsStand /\ RightsStand

Grants(r) ==
  /\ Claimable(r) /\ RetriesLeft(r) /\ CapacityFree(r)
  /\ run[r].fence + 1 \in Fences
  /\ run'[r].status = "PROCESSING" /\ run'[r].fence = run[r].fence + 1
  /\ run'[r].attempts = run[r].attempts + 1 /\ run'[r].result = run[r].result
  /\ \A q \in Runs, g \in Fences :
       slot'[q][g] = IF q = r /\ g = run[r].fence + 1 THEN OpenedSlot ELSE slot[q][g]
  /\ OthersStand(r) /\ RightsStand

Drops(r) ==
  /\ Claimable(r)
  /\ run'[r].status = "FAILED" /\ run'[r].fence = run[r].fence
  /\ run'[r].attempts = run[r].attempts /\ run'[r].result = run[r].result
  /\ OthersStand(r) /\ SlotsStand /\ RightsStand

Publishes(r) ==
  /\ run[r].status = "PROCESSING" /\ Permitted(r)
  /\ run[r].fence \in Fences /\ slot[r][run[r].fence].started
  /\ run'[r].status \in Published /\ run'[r].fence = run[r].fence
  /\ run'[r].attempts = run[r].attempts /\ run'[r].result = run[r].fence
  /\ OthersStand(r) /\ SlotsStand /\ RightsStand

Releases(r, f) ==
  /\ Open(r, f)
  /\ \A q \in Runs, g \in Fences :
       /\ slot'[q][g].state = IF q = r /\ g = f THEN "released" ELSE slot[q][g].state
       /\ slot'[q][g].started = slot[q][g].started
  /\ run'[r].attempts = run[r].attempts /\ run'[r].result = run[r].result
  /\ IF GivenUp(r, f)
     THEN run'[r].status = "QUEUED" /\ run'[r].fence = f + 1
     ELSE run'[r].status = run[r].status /\ run'[r].fence = run[r].fence
  /\ OthersStand(r) /\ RightsStand

(* Who loses a consent has nothing pending left, and what is deleted has   *)
(* lost its runs with their results.                                       *)
Revokes(S, erase) ==
  /\ \A r \in S : /\ HasRow(r) /\ (erase \/ run[r].status \in Pending)
                  /\ run'[r].status = "CANCELLED"
                  /\ run'[r].attempts = run[r].attempts
                  /\ run'[r].result = IF erase THEN 0 ELSE run[r].result
  /\ \A r \in Runs \ S : SameRow(r)
  /\ \A r \in Runs : run'[r].fence >= run[r].fence
  /\ SlotsStand
  /\ \A r \in Runs \ S : owner'[Owner(r)] # "active" =>
       owner[Owner(r)] # "active" \/ run[r].status \notin Pending
  /\ \A r \in Runs : asset'[AssetOf[r]] = "deleted" =>
       asset[AssetOf[r]] = "deleted" \/ (r \in S /\ erase) \/ ~HasRow(r)

SomeKind ==
  \/ Still
  \/ \E r \in Runs : Submits(r) \/ Grants(r) \/ Drops(r) \/ Publishes(r)
  \/ \E r \in Runs, f \in Fences : Releases(r, f)
  \/ \E S \in SUBSET Runs, erase \in BOOLEAN : Revokes(S, erase)
-----------------------------------------------------------------------------
(* The transactions are of these kinds. *)

LEMMA OwnersAndAssets ==
  ASSUME NEW r \in Runs
  PROVE  AssetOf[r] \in Assets /\ Owner(r) \in Owners
  BY RunsAssumption DEF Owner

LEMMA RightsUntouched == UNCHANGED <<asset, owner>> => RightsStand
  BY DEF RightsStand

LEMMA SlotsUntouched == UNCHANGED slot => SlotsStand
  BY DEF SlotsStand

LEMMA IdleKind == UNCHANGED jobVars => SomeKind
  BY RightsUntouched, SlotsUntouched DEF jobVars, SomeKind, Still, SameRow

LEMMA ClaimKind ==
  ASSUME JobTypeOK, NEW r \in Runs, ClaimGranted(r)
  PROVE  SomeKind
<1>1. /\ run' = [run EXCEPT ![r] = [run[r] EXCEPT !.status = "PROCESSING",
                                    !.fence = run[r].fence + 1, !.attempts = @ + 1,
                                    !.lease = "live"]]
      /\ UNCHANGED <<asset, owner>>
      /\ Claimable(r) /\ RetriesLeft(r) /\ CapacityFree(r)
  BY DEF ClaimGranted, ClaimRows
<1>2. /\ run'[r].status = "PROCESSING" /\ run'[r].fence = run[r].fence + 1
      /\ run'[r].attempts = run[r].attempts + 1 /\ run'[r].result = run[r].result
      /\ OthersStand(r)
  BY <1>1 DEF JobTypeOK, RunRow, OthersStand, SameRow
<1>3. Grants(r)
  BY <1>1, <1>2, ClaimStep, RightsUntouched DEF Grants
<1> QED BY <1>3 DEF SomeKind

LEMMA DeniedKind ==
  ASSUME JobTypeOK, NEW r \in Runs,
         ClaimUnbudgeted(r) \/ ClaimExhausted(r) \/ ClaimDeferred(r)
  PROVE  SomeKind
<1>1. UNCHANGED <<slot, asset, owner>> /\ Claimable(r)
  BY DEF ClaimUnbudgeted, ClaimExhausted, ClaimDeferred
<1>2. CASE run' = run
  BY <1>1, <1>2, RightsUntouched, SlotsUntouched DEF SomeKind, Still, SameRow
<1>3. CASE run' = [run EXCEPT ![r].status = "FAILED"]
  <2>1. Drops(r)
    BY <1>1, <1>3, RightsUntouched, SlotsUntouched
       DEF Drops, OthersStand, SameRow, JobTypeOK, RunRow
  <2> QED BY <2>1 DEF SomeKind
<1> QED BY <1>2, <1>3 DEF ClaimUnbudgeted, ClaimExhausted, ClaimDeferred

LEMMA BeginKind ==
  ASSUME JobTypeOK, NEW r \in Runs, NEW f \in Fences, BeginExecution(r, f)
  PROVE  SomeKind
<1>1. /\ UNCHANGED <<asset, owner>>
      /\ run' = [run EXCEPT ![r].lease = "live"]
      /\ slot' = [slot EXCEPT ![r][f].started = TRUE]
  BY DEF BeginExecution
<1>2. \A q \in Runs : SameRow(q)
  BY <1>1 DEF SameRow, JobTypeOK, RunRow
<1>3. SlotsStand
  BY <1>1 DEF SlotsStand, JobTypeOK, SlotRow
<1> QED BY <1>1, <1>2, <1>3, RightsUntouched DEF SomeKind, Still

LEMMA FinishKind ==
  ASSUME JobTypeOK, NEW r \in Runs, NEW f \in Fences, NEW report \in Published,
         FinishRun(r, f, report), slot[r][f].started
  PROVE  SomeKind
<1>1. /\ UNCHANGED <<slot, asset, owner>>
      /\ run[r].fence = f /\ run[r].status = "PROCESSING" /\ Permitted(r)
      /\ run' = [run EXCEPT ![r].status = report, ![r].result = f, ![r].lease = "none"]
  BY DEF FinishRun, Current
<1>2. /\ run'[r].status = report /\ run'[r].fence = run[r].fence
      /\ run'[r].attempts = run[r].attempts /\ run'[r].result = f
      /\ OthersStand(r)
  BY <1>1 DEF JobTypeOK, RunRow, OthersStand, SameRow
<1>3. Publishes(r)
  BY <1>1, <1>2, RightsUntouched, SlotsUntouched DEF Publishes
<1> QED BY <1>3 DEF SomeKind

LEMMA AckKind ==
  ASSUME JobTypeOK, NEW r \in Runs, NEW f \in Fences, AcknowledgeStopped(r, f)
  PROVE  SomeKind
<1>1. CASE ~Open(r, f)
  BY <1>1, IdleKind DEF AcknowledgeStopped
<1>2. CASE Open(r, f)
  <2>1. UNCHANGED <<asset, owner>>
    BY <1>2 DEF AcknowledgeStopped
  <2>2. OthersStand(r)
    BY <1>2, AckStep DEF OthersStand, SameRow
  <2>3. run'[r].attempts = run[r].attempts
    BY <1>2 DEF AcknowledgeStopped, JobTypeOK, RunRow
  <2>4. Releases(r, f)
    BY <1>2, <2>1, <2>2, <2>3, AckStep, RightsUntouched DEF Releases
  <2> QED BY <2>4 DEF SomeKind
<1> QED BY <1>1, <1>2

LEMMA RevokedRows ==
  ASSUME JobTypeOK, NEW S \in SUBSET Runs, NEW erase \in BOOLEAN, run' = Revoked(S, erase)
  PROVE  /\ \A r \in S : /\ run'[r].status = "CANCELLED"
                         /\ run'[r].attempts = run[r].attempts
                         /\ run'[r].result = IF erase THEN 0 ELSE run[r].result
         /\ \A r \in Runs \ S : SameRow(r)
         /\ \A r \in Runs : run'[r].fence >= run[r].fence
<1>1. \A r \in Runs : run[r] \in RunRow
  BY DEF JobTypeOK
<1>2. ASSUME NEW r \in S
      PROVE  /\ run'[r].status = "CANCELLED" /\ run'[r].attempts = run[r].attempts
             /\ run'[r].result = IF erase THEN 0 ELSE run[r].result
             /\ run'[r].fence >= run[r].fence
  <2>1. run'[r] = [run[r] EXCEPT !.status = "CANCELLED", !.fence = @ + 1, !.lease = "none",
                                 !.result = IF erase THEN 0 ELSE @]
    BY DEF Revoked
  <2>2. run[r] \in RunRow /\ run[r].fence \in 0..MaxFence
    BY <1>1 DEF RunRow
  <2> QED BY <2>1, <2>2, LimitAssumption DEF RunRow
<1>3. \A r \in Runs \ S : run'[r] = run[r]
  BY DEF Revoked
<1>4. \A r \in Runs \ S : run'[r].fence >= run[r].fence
  BY <1>1, <1>3, LimitAssumption DEF RunRow
<1> QED BY <1>2, <1>3, <1>4 DEF SameRow

LEMMA CancelKind ==
  ASSUME JobTypeOK, NEW r \in Runs, CancelRun(r)
  PROVE  SomeKind
<1>1. /\ UNCHANGED <<asset, owner>> /\ run[r].status \in Pending
      /\ run' = Revoked({r}, FALSE) /\ slot' = [slot EXCEPT ![r] = StopOpen(r)]
  BY DEF CancelRun
<1>2. SlotsStand
  BY <1>1, StopOpenLemma DEF SlotsStand, JobTypeOK
<1>3. {r} \in SUBSET Runs /\ FALSE \in BOOLEAN
  OBVIOUS
<1>4. Revokes({r}, FALSE)
  BY <1>1, <1>2, <1>3, RevokedRows DEF Revokes, HasRow, Pending
<1> QED BY <1>3, <1>4 DEF SomeKind

LEMMA DeleteAssetKind ==
  ASSUME JobTypeOK, NEW a \in Assets, DeleteAsset(a)
  PROVE  SomeKind
<1> DEFINE S == RunsOfAsset(a)
<1>1. S \in SUBSET Runs /\ \A r \in Runs : r \in S <=> AssetOf[r] = a /\ HasRow(r)
  BY DEF RunsOfAsset
<1>2. /\ UNCHANGED <<slot, owner>> /\ run' = Revoked(S, TRUE)
      /\ asset' = [asset EXCEPT ![a] = "deleted"]
  BY DEF DeleteAsset
<1> HIDE DEF S
<1>3. \A r \in Runs : asset'[AssetOf[r]] = "deleted" =>
        asset[AssetOf[r]] = "deleted" \/ AssetOf[r] = a
  BY <1>2, OwnersAndAssets DEF JobTypeOK
<1>4. Revokes(S, TRUE)
  BY <1>1, <1>2, <1>3, RevokedRows, SlotsUntouched DEF Revokes
<1> QED BY <1>1, <1>4 DEF SomeKind

LEMMA DeleteAccountKind ==
  ASSUME JobTypeOK, NEW o \in Owners, DeleteAccount(o)
  PROVE  SomeKind
<1> DEFINE S == {r \in Runs : Owner(r) = o /\ HasRow(r)}
<1>1. S \in SUBSET Runs /\ \A r \in Runs : r \in S <=> Owner(r) = o /\ HasRow(r)
  OBVIOUS
<1>2. /\ slot' = slot /\ run' = Revoked(S, TRUE)
      /\ owner' = [owner EXCEPT ![o] = "deleted"]
      /\ asset' = [a \in Assets |-> IF AssetOwner[a] = o THEN "deleted" ELSE asset[a]]
  BY DEF DeleteAccount
<1> HIDE DEF S
<1>3. \A r \in Runs : asset'[AssetOf[r]] = "deleted" =>
        asset[AssetOf[r]] = "deleted" \/ Owner(r) = o
  BY <1>2, OwnersAndAssets DEF Owner
<1>4. \A r \in Runs \ S : owner'[Owner(r)] # "active" =>
        owner[Owner(r)] # "active" \/ run[r].status \notin Pending
  BY <1>1, <1>2, OwnersAndAssets DEF JobTypeOK, HasRow, Pending
<1>5. Revokes(S, TRUE)
  BY <1>1, <1>2, <1>3, <1>4, RevokedRows, SlotsUntouched DEF Revokes
<1> QED BY <1>1, <1>5 DEF SomeKind

LEMMA ConsentKind ==
  ASSUME JobTypeOK, NEW o \in Owners, WithdrawProcessing(o) \/ GrantProcessing(o)
  PROVE  SomeKind
<1>1. CASE WithdrawProcessing(o)
  <2> DEFINE S == PendingOf(o)
  <2>1. S \in SUBSET Runs /\ \A r \in Runs : r \in S <=> Owner(r) = o /\ run[r].status \in Pending
    BY DEF PendingOf
  <2>2. /\ UNCHANGED <<slot, asset>> /\ run' = Revoked(S, FALSE)
        /\ owner' = [owner EXCEPT ![o] = "withdrawn"]
    BY <1>1 DEF WithdrawProcessing
  <2> HIDE DEF S
  <2>3. \A r \in Runs \ S : owner'[Owner(r)] # "active" =>
          owner[Owner(r)] # "active" \/ run[r].status \notin Pending
    BY <2>1, <2>2, OwnersAndAssets DEF JobTypeOK
  <2>4. \A r \in S : HasRow(r)
    BY <2>1 DEF HasRow, Pending
  <2>5. Revokes(S, FALSE)
    BY <2>1, <2>2, <2>3, <2>4, RevokedRows, SlotsUntouched DEF Revokes
  <2> QED BY <2>1, <2>5 DEF SomeKind
<1>2. CASE GrantProcessing(o)
  <2>1. UNCHANGED <<run, slot, asset>> /\ owner' = [owner EXCEPT ![o] = "active"]
    BY <1>2 DEF GrantProcessing
  <2>2. RightsStand
    BY <2>1, OwnersAndAssets DEF RightsStand, JobTypeOK
  <2> QED BY <2>1, <2>2, SlotsUntouched DEF SomeKind, Still, SameRow
<1> QED BY <1>1, <1>2

LEMMA OwnerKind ==
  ASSUME JobTypeOK, OwnerActs(Requests)
  PROVE  SomeKind
<1>1. ASSUME NEW r \in Runs, EnqueueRun(r) PROVE SomeKind
  <2>1. /\ UNCHANGED <<slot, asset, owner>> /\ ~HasRow(r) /\ Permitted(r)
        /\ run' = [run EXCEPT ![r].status = "QUEUED"]
    BY <1>1 DEF EnqueueRun
  <2>2. Submits(r)
    BY <2>1, RightsUntouched, SlotsUntouched
       DEF Submits, OthersStand, SameRow, JobTypeOK, RunRow
  <2> QED BY <2>2 DEF SomeKind
<1> QED BY <1>1, CancelKind, DeleteAssetKind, DeleteAccountKind, ConsentKind DEF OwnerActs

LEMMA ReconcileKind ==
  ASSUME JobTypeOK, Reconcile
  PROVE  SomeKind
<1>1. UNCHANGED <<run, asset, owner>>
  BY DEF Reconcile, ReconcileStale, ReconcileIntent, ReconcileSettle, ReconcileOrphans,
         ReconcileCancelled
<1>2. SlotsStand
  <2>1. ASSUME NEW r \in Runs, ReconcileStale(r) PROVE SlotsStand
    BY <2>1, StopOpenLemma DEF ReconcileStale, SlotsStand, JobTypeOK
  <2>2. ASSUME ReconcileOrphans PROVE SlotsStand
    BY <2>2, StopOpenLemma DEF ReconcileOrphans, SlotsStand, JobTypeOK
  <2> QED BY <2>1, <2>2, SlotsUntouched DEF Reconcile, ReconcileIntent, ReconcileSettle,
                                            ReconcileCancelled
<1> QED BY <1>1, <1>2, RightsUntouched DEF SomeKind, Still, SameRow

LEMMA ClockKind ==
  ASSUME JobTypeOK, ClockTicks(Requests)
  PROVE  SomeKind
<1>1. ASSUME NEW r \in Runs, LeaseExpires(r) PROVE SomeKind
  <2>1. UNCHANGED <<slot, asset, owner>> /\ run' = [run EXCEPT ![r].lease = "expired"]
    BY <1>1 DEF LeaseExpires
  <2>2. \A q \in Runs : SameRow(q)
    BY <2>1 DEF SameRow, JobTypeOK, RunRow
  <2> QED BY <2>1, <2>2, RightsUntouched, SlotsUntouched DEF SomeKind, Still
<1>2. ASSUME NEW a \in Assets, AssetExpires(a) PROVE SomeKind
  <2>1. UNCHANGED <<run, slot, owner>> /\ asset' = [asset EXCEPT ![a] = "expired"]
    BY <1>2 DEF AssetExpires
  <2>2. RightsStand
    BY <2>1, OwnersAndAssets DEF RightsStand, JobTypeOK
  <2> QED BY <2>1, <2>2, SlotsUntouched DEF SomeKind, Still, SameRow
<1> QED BY <1>1, <1>2 DEF ClockTicks
-----------------------------------------------------------------------------
(* A process that has entered its attempt, and where it may be then.       *)

Inside == {"decoding", "finish", "refused", "ack"}
Entered ==
  \A w \in Workers : worker[w].pc \in Inside =>
    /\ slot[worker[w].run][worker[w].fence].state # "none"
    /\ slot[worker[w].run][worker[w].fence].started

(* Nobody gets inside but through begin_execution.                         *)
StaysInside(v) ==
  worker[v].pc \in Inside /\ worker'[v].run = worker[v].run /\ worker'[v].fence = worker[v].fence

LEMMA OnlyBeginEnters ==
  ASSUME WorkersInv, [Next]_vars, NEW v \in Workers, worker'[v].pc \in Inside
  PROVE  StaysInside(v) \/ Begin(v)
<1>1. \A w \in Workers : worker[w] \in WorkerRow
  BY DEF WorkersInv, TypeOK
<1>2. worker \in [Workers -> WorkerRow]
  BY DEF WorkersInv, TypeOK
<1>3. CASE worker' = worker
  BY <1>3 DEF StaysInside
<1>4. ASSUME NEW w \in Workers, NEW row, row.pc \notin Inside, worker' = [worker EXCEPT ![w] = row]
      PROVE  StaysInside(v)
  BY <1>2, <1>4 DEF StaysInside
<1>5. ASSUME NEW w \in Workers, worker[w].pc \in Inside, NEW row,
             row.run = worker[w].run, row.fence = worker[w].fence,
             worker' = [worker EXCEPT ![w] = row]
      PROVE  StaysInside(v)
  BY <1>2, <1>5 DEF StaysInside
<1>6. Idle.pc \notin Inside
  BY DEF Idle, Inside
<1>7. ASSUME NEW w \in Workers, NEW r \in Runs, Claim(w, r) PROVE StaysInside(v)
  <2> DEFINE row == [Idle EXCEPT !.pc = "claimed", !.run = r, !.fence = run[r].fence + 1]
  <2>1. row.pc \notin Inside
    BY DEF Idle, Inside
  <2>2. worker' = [worker EXCEPT ![w] = row]
    BY <1>7 DEF Claim
  <2> HIDE DEF row
  <2> QED BY <1>4, <2>1, <2>2
<1>8. ASSUME NEW w \in Workers, NEW r \in Runs, NEW f \in Fences, Deliver(w, r, f)
      PROVE  StaysInside(v)
  <2> DEFINE row == [Idle EXCEPT !.pc = "claimed", !.run = r, !.fence = f]
  <2>1. row.pc \notin Inside
    BY DEF Idle, Inside
  <2>2. worker' = [worker EXCEPT ![w] = row]
    BY <1>8 DEF Deliver
  <2> HIDE DEF row
  <2> QED BY <1>4, <2>1, <2>2
<1>9. ASSUME NEW w \in Workers, Begin(w) PROVE StaysInside(v) \/ Begin(v)
  BY <1>2, <1>9 DEF Begin, StaysInside
<1>10. ASSUME NEW w \in Workers, BeginDenied(w) \/ Acknowledge(w) \/ Crash(w)
       PROVE  StaysInside(v)
  <2>1. worker' = [worker EXCEPT ![w] = Idle]
    BY <1>10 DEF BeginDenied, Acknowledge, Crash
  <2> QED BY <1>4, <1>6, <2>1
<1>11. ASSUME NEW w \in Workers, NEW report \in Published, DecoderEnds(w, report)
       PROVE  StaysInside(v)
  <2> DEFINE row == [worker[w] EXCEPT !.pc = "finish", !.stopped = TRUE, !.report = report]
  <2>1. row.run = worker[w].run /\ row.fence = worker[w].fence
    BY <1>1 DEF WorkerRow
  <2>2. worker' = [worker EXCEPT ![w] = row] /\ worker[w].pc \in Inside
    BY <1>11 DEF DecoderEnds, At, Inside
  <2> HIDE DEF row
  <2> QED BY <1>5, <2>1, <2>2
<1>12. ASSUME NEW w \in Workers, CleanupUnconfirmed(w)
       PROVE  StaysInside(v)
  <2> DEFINE row == [worker[w] EXCEPT !.pc = "finish", !.report = "FAILED"]
  <2>1. row.run = worker[w].run /\ row.fence = worker[w].fence
    BY <1>1 DEF WorkerRow
  <2>2. worker' = [worker EXCEPT ![w] = row] /\ worker[w].pc \in Inside
    BY <1>12 DEF CleanupUnconfirmed, At, Inside
  <2> HIDE DEF row
  <2> QED BY <1>5, <2>1, <2>2
<1>13. ASSUME NEW w \in Workers, Finish(w) \/ FinishRefused(w) \/ FinishRaises(w) \/ Refused(w)
       PROVE  StaysInside(v)
  <2>1. PICK step \in {"ack", "refused"} :
            worker' = [worker EXCEPT ![w].pc = step] /\ worker[w].pc \in Inside
    BY <1>13 DEF Finish, FinishRefused, FinishRaises, Refused, At, Inside
  <2> DEFINE row == [worker[w] EXCEPT !.pc = step]
  <2>2. row.run = worker[w].run /\ row.fence = worker[w].fence
    BY <1>1 DEF WorkerRow
  <2>3. worker' = [worker EXCEPT ![w] = row]
    BY <2>1
  <2> HIDE DEF row
  <2> QED BY <1>5, <2>1, <2>2, <2>3
<1>14. ASSUME NEW w \in Workers, Proceed(w) PROVE StaysInside(v) \/ Begin(v)
  BY <1>9, <1>10, <1>11, <1>12, <1>13, <1>14 DEF Proceed
<1>15. CASE \/ \E r \in Runs : ClaimDenied(r)
            \/ \E r \in Runs, f \in Fences : DecoderExits(r, f) \/ OperatorConfirms(r, f)
            \/ \E a \in Assets : PurgeExpired(a)
            \/ UNCHANGED <<worker, decoder>>
            \/ UNCHANGED vars
  BY <1>3, <1>15 DEF ClaimDenied, DecoderExits, OperatorConfirms, PurgeExpired, vars
<1> QED BY <1>7, <1>8, <1>10, <1>14, <1>15 DEF Next

LEMMA EnteredStep ==
  ASSUME WorkersInv, Entered, [Next]_vars
  PROVE  Entered'
<1> SUFFICES ASSUME NEW v \in Workers, worker'[v].pc \in Inside
             PROVE  /\ slot'[worker'[v].run][worker'[v].fence].state # "none"
                    /\ slot'[worker'[v].run][worker'[v].fence].started
  BY DEF Entered
<1>1. Kept
  BY JobHalf
<1>2. CASE StaysInside(v)
  <2>1. worker[v].run \in Runs /\ worker[v].fence \in Fences
    BY <1>2, BusyTyped DEF StaysInside, Inside
  <2> QED BY <1>1, <1>2, <2>1 DEF StaysInside, Entered, Kept
<1>3. CASE Begin(v)
  <2>1. worker[v].run \in Runs /\ worker[v].fence \in Fences
    BY <1>3, BusyTyped DEF Begin, At
  <2>2. /\ Open(worker[v].run, worker[v].fence)
        /\ slot' = [slot EXCEPT ![worker[v].run][worker[v].fence].started = TRUE]
    BY <1>3 DEF Begin, BeginExecution, Enterable
  <2>3. slot \in [Runs -> [Fences -> SlotRow]] /\ worker \in [Workers -> WorkerRow]
    BY DEF WorkersInv, TypeOK, JobTypeOK
  <2>4. worker'[v].run = worker[v].run /\ worker'[v].fence = worker[v].fence
    BY <1>3, <2>3 DEF Begin, WorkerRow
  <2> QED BY <2>1, <2>2, <2>3, <2>4 DEF Open, SlotRow
<1> QED BY <1>2, <1>3, OnlyBeginEnters

(* Every step of the processes is of one of the seven kinds.               *)
LEMMA StepKind ==
  ASSUME WorkersInv, Entered, [Next]_vars
  PROVE  SomeKind
<1>0. JobTypeOK
  BY DEF WorkersInv, TypeOK
<1>1. ASSUME NEW w \in Workers, NEW r \in Runs, Claim(w, r) PROVE SomeKind
  BY <1>0, <1>1, ClaimKind DEF Claim
<1>2. ASSUME NEW w \in Workers, Begin(w) PROVE SomeKind
  <2>1. worker[w].run \in Runs /\ worker[w].fence \in Fences
    BY <1>2, BusyTyped DEF Begin, At
  <2> QED BY <1>0, <1>2, <2>1, BeginKind DEF Begin
<1>3. ASSUME NEW w \in Workers, Finish(w) PROVE SomeKind
  <2>1. worker[w].run \in Runs /\ worker[w].fence \in Fences
    BY <1>3, BusyTyped DEF Finish, At
  <2>2. worker[w].report \in Published
    BY DEF WorkersInv, TypeOK, WorkerRow
  <2>3. slot[worker[w].run][worker[w].fence].started
    BY <1>3 DEF Finish, At, Entered, Inside
  <2>4. FinishRun(worker[w].run, worker[w].fence, worker[w].report)
    BY <1>3 DEF Finish
  <2> QED BY <1>0, <2>1, <2>2, <2>3, <2>4, FinishKind
<1>4. ASSUME NEW w \in Workers, Refused(w) PROVE SomeKind
  <2>1. worker[w].run \in Runs
    BY <1>4, BusyTyped DEF Refused, At
  <2>2. AssetOf[worker[w].run] \in Assets
    BY <2>1, RunsAssumption
  <2> QED BY <1>0, <1>4, <2>2, DeleteAssetKind, IdleKind DEF Refused
<1>5. ASSUME NEW w \in Workers, Acknowledge(w) PROVE SomeKind
  <2>1. worker[w].run \in Runs /\ worker[w].fence \in Fences
    BY <1>5, BusyTyped DEF Acknowledge, At
  <2> QED BY <1>0, <1>5, <2>1, AckKind, IdleKind DEF Acknowledge
<1>6. ASSUME NEW w \in Workers, Proceed(w) PROVE SomeKind
  <2>1. CASE \/ BeginDenied(w) \/ CleanupUnconfirmed(w) \/ FinishRefused(w) \/ FinishRaises(w)
             \/ \E report \in Published : DecoderEnds(w, report)
    <3>1. UNCHANGED jobVars
      BY <2>1 DEF BeginDenied, BeginRefused, CleanupUnconfirmed, FinishRefused, FinishRaises,
                  DecoderEnds
    <3> QED BY <3>1, IdleKind
  <2> QED BY <1>2, <1>3, <1>4, <1>5, <1>6, <2>1 DEF Proceed
<1>7. ASSUME NEW w \in Workers,
             Crash(w) \/ \E r \in Runs, f \in Fences : Deliver(w, r, f)
      PROVE  SomeKind
  BY <1>7, IdleKind DEF Crash, Deliver
<1>8. ASSUME NEW r \in Runs, ClaimDenied(r) PROVE SomeKind
  BY <1>0, <1>8, DeniedKind DEF ClaimDenied
<1>9. ASSUME NEW r \in Runs, NEW f \in Fences, DecoderExits(r, f) \/ OperatorConfirms(r, f)
      PROVE  SomeKind
  BY <1>0, <1>9, AckKind, IdleKind DEF DecoderExits, OperatorConfirms
<1>10. ASSUME NEW a \in Assets, PurgeExpired(a) PROVE SomeKind
  BY <1>0, <1>10, DeleteAssetKind DEF PurgeExpired
<1>11. CASE Reconcile \/ OwnerActs(Requests) \/ ClockTicks(Requests)
  BY <1>0, <1>11, ReconcileKind, OwnerKind, ClockKind
<1>12. CASE UNCHANGED vars
  BY <1>12, IdleKind DEF vars, jobVars
<1> QED BY <1>1, <1>6, <1>7, <1>8, <1>9, <1>10, <1>11, <1>12 DEF Next
-----------------------------------------------------------------------------
(* The inductive invariant of the records.  ExecutionsBounded is not        *)
(* inductive: what holds a run to its attempts is that every slot was paid  *)
(* for with one.  ResultIsCurrent needs Entered, or a process could publish *)
(* for an attempt nobody entered.                                           *)
GrantedTo(r) == {f \in Fences : slot[r][f].state # "none"}
SlotsCounted == \A r \in Runs : Cardinality(GrantedTo(r)) <= run[r].attempts

RecordsInv ==
  /\ Entered
  /\ SlotsCounted
  /\ ResultIsCurrent
  /\ NothingPendingWithoutConsent
  /\ DeletedEvidenceHasNoResult

LEMMA StatusesApart ==
  /\ Published \cap Pending = {}
  /\ "ABSENT" \notin Published \cup Pending /\ "CANCELLED" \notin Published \cup Pending
  /\ "QUEUED" \in Pending /\ "PROCESSING" \in Pending
  BY DEF Published, Pending

LEMMA OneMoreFence ==
  ASSUME NEW S \in SUBSET Fences, NEW T \in SUBSET Fences, NEW x, T \subseteq S \cup {x}
  PROVE  /\ Cardinality(S) \in Nat /\ Cardinality(T) \in Nat
         /\ Cardinality(T) <= Cardinality(S) + 1
         /\ T \subseteq S => Cardinality(T) <= Cardinality(S)
<1>1. IsFiniteSet(Fences)
  BY LimitAssumption, FS_Interval DEF Fences
<1>2. IsFiniteSet(S) /\ IsFiniteSet(S \cup {x}) /\ Cardinality(S) \in Nat
  BY <1>1, FS_Subset, FS_AddElement, FS_CardinalityType
<1>3. Cardinality(S \cup {x}) \in {Cardinality(S), Cardinality(S) + 1}
  BY <1>2, FS_AddElement
<1>4. IsFiniteSet(T) /\ Cardinality(T) <= Cardinality(S \cup {x})
  BY <1>2, FS_Subset
<1>5. Cardinality(T) \in Nat
  BY <1>4, FS_CardinalityType
<1>6. T \subseteq S => Cardinality(T) <= Cardinality(S)
  BY <1>2, FS_Subset
<1> QED BY <1>2, <1>3, <1>4, <1>5, <1>6

(* A slot may be added, if an attempt is.                                   *)
LEMMA CountedStep ==
  ASSUME JobTypeOK, SlotsCounted, SomeKind
  PROVE  SlotsCounted'
<1> SUFFICES ASSUME NEW r \in Runs PROVE Cardinality(GrantedTo(r))' <= run'[r].attempts
  BY DEF SlotsCounted
<1>1. run[r].attempts \in Nat /\ run[r].fence \in Nat
  BY LimitAssumption DEF JobTypeOK, RunRow
<1>2. Cardinality(GrantedTo(r)) <= run[r].attempts
  BY DEF SlotsCounted
<1>3. GrantedTo(r) \in SUBSET Fences /\ GrantedTo(r)' \in SUBSET Fences
  BY DEF GrantedTo
<1>4. ASSUME GrantedTo(r)' \subseteq GrantedTo(r), run'[r].attempts = run[r].attempts
      PROVE  Cardinality(GrantedTo(r))' <= run'[r].attempts
  BY <1>1, <1>2, <1>3, <1>4, OneMoreFence
<1>5. ASSUME SlotsStand, run'[r].attempts = run[r].attempts
      PROVE  Cardinality(GrantedTo(r))' <= run'[r].attempts
  BY <1>4, <1>5 DEF SlotsStand, GrantedTo
<1>6. ASSUME NEW q \in Runs, Grants(q)
      PROVE  Cardinality(GrantedTo(r))' <= run'[r].attempts
  <2>1. CASE q = r
    <3>1. GrantedTo(r)' \subseteq GrantedTo(r) \cup {run[r].fence + 1}
      BY <1>6, <2>1 DEF Grants, GrantedTo
    <3>2. run'[r].attempts = run[r].attempts + 1
      BY <1>6, <2>1 DEF Grants
    <3> QED BY <1>1, <1>2, <1>3, <3>1, <3>2, OneMoreFence
  <2>2. CASE q # r
    <3>1. GrantedTo(r)' \subseteq GrantedTo(r)
      BY <1>6, <2>2 DEF Grants, GrantedTo
    <3>2. run'[r].attempts = run[r].attempts
      BY <1>6, <2>2 DEF Grants, OthersStand, SameRow
    <3> QED BY <1>4, <3>1, <3>2
  <2> QED BY <2>1, <2>2
<1>7. ASSUME NEW q \in Runs, NEW f \in Fences, Releases(q, f)
      PROVE  Cardinality(GrantedTo(r))' <= run'[r].attempts
  <2>1. GrantedTo(r)' \subseteq GrantedTo(r)
    BY <1>7 DEF Releases, GrantedTo, Open
  <2>2. run'[r].attempts = run[r].attempts
    BY <1>7 DEF Releases, OthersStand, SameRow
  <2> QED BY <1>4, <2>1, <2>2
<1>8. CASE \/ Still
           \/ \E q \in Runs : Submits(q) \/ Drops(q) \/ Publishes(q)
           \/ \E S \in SUBSET Runs, erase \in BOOLEAN : Revokes(S, erase)
  <2>1. SlotsStand /\ run'[r].attempts = run[r].attempts
    BY <1>8 DEF Still, Submits, Drops, Publishes, Revokes, OthersStand, SameRow
  <2> QED BY <1>5, <2>1
<1> QED BY <1>6, <1>7, <1>8 DEF SomeKind

LEMMA ResultStep ==
  ASSUME JobTypeOK, ResultIsCurrent, SomeKind
  PROVE  ResultIsCurrent'
<1> SUFFICES ASSUME NEW r \in Runs, run'[r].result # 0
             PROVE  /\ run'[r].result = run'[r].fence
                    /\ run'[r].status \in Published
                    /\ slot'[r][run'[r].result].started
  BY DEF ResultIsCurrent
<1>1. run[r].result # 0 => /\ run[r].result = run[r].fence
                           /\ run[r].status \in Published
                           /\ slot[r][run[r].result].started
  BY DEF ResultIsCurrent
<1>2. run[r].result # 0 => run[r].result \in Fences
  BY LimitAssumption DEF JobTypeOK, RunRow, Fences
<1>3. ASSUME SameRow(r), SlotsStand
      PROVE  /\ run'[r].result = run'[r].fence
             /\ run'[r].status \in Published
             /\ slot'[r][run'[r].result].started
  BY <1>1, <1>2, <1>3 DEF SameRow, SlotsStand
<1>4. CASE Still
  BY <1>3, <1>4 DEF Still
<1>5. ASSUME NEW q \in Runs, Submits(q) \/ Drops(q)
      PROVE  q # r /\ SameRow(r) /\ SlotsStand
  BY <1>1, <1>5, StatusesApart DEF Submits, Drops, OthersStand, HasRow, Claimable
<1>6. ASSUME NEW q \in Runs, Publishes(q)
      PROVE  /\ run'[r].result = run'[r].fence
             /\ run'[r].status \in Published
             /\ slot'[r][run'[r].result].started
  <2>1. CASE q = r
    BY <1>6, <2>1 DEF Publishes, SlotsStand
  <2>2. CASE q # r
    BY <1>3, <1>6, <2>2 DEF Publishes, OthersStand
  <2> QED BY <2>1, <2>2
<1>7. ASSUME NEW q \in Runs, Grants(q)
      PROVE  SameRow(r) /\ \A g \in Fences : slot'[r][g] = slot[r][g]
  <2>1. q # r
    BY <1>1, <1>7, StatusesApart DEF Grants, Claimable
  <2>2. SameRow(r) /\ \A g \in Fences : slot'[r][g] = slot[r][g]
    BY <1>7, <2>1 DEF Grants, OthersStand
  <2> QED BY <2>1, <2>2
<1>8. ASSUME NEW q \in Runs, NEW f \in Fences, Releases(q, f)
      PROVE  SameRow(r) /\ \A g \in Fences : slot'[r][g].started = slot[r][g].started
  <2>1. \A g \in Fences : slot'[r][g].started = slot[r][g].started
    BY <1>8 DEF Releases
  <2>2. CASE q = r
    <3>1. ~GivenUp(r, f)
      BY <1>1, <1>8, <2>2, StatusesApart DEF Releases, GivenUp
    <3> QED BY <1>8, <2>1, <2>2, <3>1 DEF Releases, SameRow
  <2>3. CASE q # r
    BY <1>8, <2>1, <2>3 DEF Releases, OthersStand
  <2> QED BY <2>2, <2>3
<1>9. ASSUME NEW S \in SUBSET Runs, NEW erase \in BOOLEAN, Revokes(S, erase)
      PROVE  SameRow(r) /\ SlotsStand
  <2>1. r \notin S
    BY <1>1, <1>9, StatusesApart DEF Revokes
  <2> QED BY <1>9, <2>1 DEF Revokes
<1>10. ASSUME SameRow(r), \A g \in Fences : slot'[r][g].started = slot[r][g].started
       PROVE  /\ run'[r].result = run'[r].fence
              /\ run'[r].status \in Published
              /\ slot'[r][run'[r].result].started
  BY <1>1, <1>2, <1>10 DEF SameRow
<1> QED BY <1>3, <1>4, <1>5, <1>6, <1>7, <1>8, <1>9, <1>10 DEF SomeKind

LEMMA ConsentStepKeeps ==
  ASSUME NothingPendingWithoutConsent, SomeKind
  PROVE  NothingPendingWithoutConsent'
<1> SUFFICES ASSUME NEW r \in Runs, owner'[Owner(r)] # "active"
             PROVE  run'[r].status \notin Pending
  BY DEF NothingPendingWithoutConsent, Owner
<1>1. owner[Owner(r)] # "active" => run[r].status \notin Pending
  BY DEF NothingPendingWithoutConsent
<1>2. ASSUME SameRow(r), RightsStand PROVE run'[r].status \notin Pending
  BY <1>1, <1>2 DEF SameRow, RightsStand
<1>3. CASE Still
  BY <1>2, <1>3 DEF Still
<1>4. ASSUME NEW q \in Runs, Submits(q) \/ Grants(q) \/ Drops(q) \/ Publishes(q)
      PROVE  run'[r].status \notin Pending
  <2>1. RightsStand /\ OthersStand(q) /\ (q = r => owner[Owner(r)] = "active")
    BY <1>4 DEF Submits, Grants, Drops, Publishes, Claimable, Permitted
  <2>2. q # r
    BY <2>1 DEF RightsStand
  <2> QED BY <1>2, <2>1, <2>2 DEF OthersStand
<1>5. ASSUME NEW q \in Runs, NEW f \in Fences, Releases(q, f)
      PROVE  run'[r].status \notin Pending
  <2>1. RightsStand /\ OthersStand(q)
    BY <1>5 DEF Releases
  <2>2. run[r].status \notin Pending
    BY <1>1, <2>1 DEF RightsStand
  <2>3. CASE q = r
    <3>1. ~GivenUp(r, f)
      BY <2>2, StatusesApart DEF GivenUp
    <3> QED BY <1>5, <2>2, <2>3, <3>1 DEF Releases
  <2> QED BY <1>2, <2>1, <2>3 DEF OthersStand
<1>6. ASSUME NEW S \in SUBSET Runs, NEW erase \in BOOLEAN, Revokes(S, erase)
      PROVE  run'[r].status \notin Pending
  <2>1. CASE r \in S
    BY <1>6, <2>1, StatusesApart DEF Revokes
  <2>2. CASE r \notin S
    BY <1>1, <1>6, <2>2 DEF Revokes, SameRow
  <2> QED BY <2>1, <2>2
<1> QED BY <1>3, <1>4, <1>5, <1>6 DEF SomeKind

LEMMA DeletionStepKeeps ==
  ASSUME DeletedEvidenceHasNoResult, ResultIsCurrent, SomeKind
  PROVE  DeletedEvidenceHasNoResult'
<1> SUFFICES ASSUME NEW r \in Runs, asset'[AssetOf[r]] = "deleted", HasRow(r)'
             PROVE  run'[r].status = "CANCELLED" /\ run'[r].result = 0
  BY DEF DeletedEvidenceHasNoResult
<1>1. asset[AssetOf[r]] = "deleted" /\ HasRow(r) => run[r].status = "CANCELLED" /\ run[r].result = 0
  BY DEF DeletedEvidenceHasNoResult
<1>2. ASSUME SameRow(r), RightsStand PROVE run'[r].status = "CANCELLED" /\ run'[r].result = 0
  BY <1>1, <1>2 DEF SameRow, RightsStand, HasRow
<1>3. CASE Still
  BY <1>2, <1>3 DEF Still
<1>4. ASSUME NEW q \in Runs, Submits(q) \/ Grants(q) \/ Drops(q) \/ Publishes(q)
      PROVE  run'[r].status = "CANCELLED" /\ run'[r].result = 0
  <2>1. RightsStand /\ OthersStand(q) /\ (q = r => asset[AssetOf[r]] = "live")
    BY <1>4 DEF Submits, Grants, Drops, Publishes, Claimable, Permitted
  <2>2. q # r
    BY <2>1 DEF RightsStand
  <2> QED BY <1>2, <2>1, <2>2 DEF OthersStand
<1>5. ASSUME NEW q \in Runs, NEW f \in Fences, Releases(q, f)
      PROVE  run'[r].status = "CANCELLED" /\ run'[r].result = 0
  <2>1. RightsStand /\ OthersStand(q)
    BY <1>5 DEF Releases
  <2>2. CASE q = r
    <3>1. asset[AssetOf[r]] = "deleted"
      BY <2>1 DEF RightsStand
    <3>2. ~GivenUp(r, f)
      BY <1>1, <3>1 DEF GivenUp, HasRow
    <3>3. run'[r].status = run[r].status /\ run'[r].result = run[r].result
      BY <1>5, <2>2, <3>2 DEF Releases
    <3> QED BY <1>1, <3>1, <3>3 DEF HasRow
  <2> QED BY <1>2, <2>1, <2>2 DEF OthersStand
<1>6. ASSUME NEW S \in SUBSET Runs, NEW erase \in BOOLEAN, Revokes(S, erase)
      PROVE  run'[r].status = "CANCELLED" /\ run'[r].result = 0
  <2>1. CASE r \in S
    <3>1. run[r].status \in Pending => run[r].result = 0
      BY StatusesApart DEF ResultIsCurrent
    <3>2. erase \/ run[r].status \in Pending
      BY <1>6, <2>1 DEF Revokes
    <3> QED BY <1>6, <2>1, <3>1, <3>2 DEF Revokes
  <2>2. CASE r \notin S
    <3>1. SameRow(r) /\ HasRow(r)
      BY <1>6, <2>2 DEF Revokes, SameRow, HasRow
    <3>2. asset[AssetOf[r]] = "deleted"
      BY <1>6, <2>2, <3>1 DEF Revokes
    <3> QED BY <1>1, <3>1, <3>2 DEF SameRow
  <2> QED BY <2>1, <2>2
<1> QED BY <1>3, <1>4, <1>5, <1>6 DEF SomeKind

LEMMA RecordsInit == Init => RecordsInv
<1> SUFFICES ASSUME Init PROVE RecordsInv
  OBVIOUS
<1>1. Entered
  BY DEF Init, Idle, Entered, Inside
<1>2. \A r \in Runs : /\ run[r].result = 0 /\ run[r].attempts = 0
                      /\ \A f \in Fences : slot[r][f].state = "none"
  BY DEF Init, JobInit, AbsentRun, AbsentSlot
<1>3. \A r \in Runs : GrantedTo(r) = {}
  BY <1>2 DEF GrantedTo
<1>4. SlotsCounted
  <2>1. Cardinality({}) = 0
    BY FS_EmptySet
  <2>2. ASSUME NEW r \in Runs PROVE Cardinality(GrantedTo(r)) <= run[r].attempts
    <3>1. GrantedTo(r) = {} /\ run[r].attempts = 0
      BY <1>2, <1>3
    <3>2. Cardinality(GrantedTo(r)) = 0
      BY <2>1, <3>1
    <3> QED BY <3>1, <3>2
  <2> QED BY <2>2 DEF SlotsCounted
<1>5. \A r \in Runs : owner[Owner(r)] = "active" /\ asset[AssetOf[r]] = "live"
  BY OwnersAndAssets DEF Init, JobInit
<1> QED BY <1>1, <1>2, <1>4, <1>5 DEF RecordsInv, ResultIsCurrent, NothingPendingWithoutConsent,
                                      DeletedEvidenceHasNoResult

LEMMA RecordsStep == WorkersInv /\ RecordsInv /\ [Next]_vars => RecordsInv'
<1> SUFFICES ASSUME WorkersInv, RecordsInv, [Next]_vars PROVE RecordsInv'
  OBVIOUS
<1>1. JobTypeOK /\ SomeKind /\ Entered'
  BY StepKind, EnteredStep DEF WorkersInv, TypeOK, RecordsInv
<1> QED BY <1>1, CountedStep, ResultStep, ConsentStepKeeps, DeletionStepKeeps DEF RecordsInv

(* The inductive invariant of the records holds in every reachable state.   *)
THEOREM RecordsInvHolds == Spec => []RecordsInv
<1>1. WorkersInv /\ RecordsInv /\ [Next]_vars => RecordsInv'
  BY RecordsStep
<1>2. Init => RecordsInv
  BY RecordsInit
<1> QED BY <1>1, <1>2, InvariantHolds, PTL DEF Spec

(* No run is executed more often than RUN_MAX_ATTEMPTS; a published report  *)
(* is the one of the last attempt, which was entered; nothing is pending    *)
(* without consent; and nothing derived from deleted evidence remains.      *)
THEOREM RecordsSoundHolds == Spec => []RecordsSound
<1>1. WorkersInv /\ RecordsInv => RecordsSound
  <2> SUFFICES ASSUME WorkersInv, RecordsInv PROVE RecordsSound
    OBVIOUS
  <2>1. \A r \in Runs : /\ run[r].attempts \in Nat /\ run[r].attempts <= MaxAttempts
                        /\ Cardinality(GrantedTo(r)) <= run[r].attempts
    BY LimitAssumption DEF WorkersInv, TypeOK, JobTypeOK, RunRow, RecordsInv, SlotsCounted
  <2>2. ASSUME NEW r \in Runs PROVE Cardinality(GrantedTo(r)) <= MaxAttempts
    <3>1. GrantedTo(r) \in SUBSET Fences
      BY DEF GrantedTo
    <3>2. Cardinality(GrantedTo(r)) \in Nat
      BY <3>1, OneMoreFence
    <3> QED BY <2>1, <3>2, LimitAssumption
  <2> QED BY <2>2 DEF RecordsInv, RecordsSound, ExecutionsBounded, GrantedTo
<1> QED BY <1>1, InvariantHolds, RecordsInvHolds, PTL

(* No step of any process resurrects a cancelled run.                       *)
THEOREM CancellationIsFinalHolds == Spec => CancellationIsFinal
<1>1. WorkersInv /\ RecordsInv /\ [Next]_vars =>
        [\A r \in Runs : run[r].status = "CANCELLED" => run'[r].status = "CANCELLED"]_vars
  <2> SUFFICES ASSUME WorkersInv, RecordsInv, [Next]_vars,
                      NEW r \in Runs, run[r].status = "CANCELLED"
               PROVE  run'[r].status = "CANCELLED"
    OBVIOUS
  <2>1. SomeKind
    BY StepKind DEF RecordsInv
  <2>2. run[r].status \notin Pending /\ HasRow(r)
    BY StatusesApart DEF HasRow
  <2>3. CASE SameRow(r)
    BY <2>3 DEF SameRow
  <2>4. ASSUME NEW q \in Runs, Submits(q) \/ Grants(q) \/ Drops(q) \/ Publishes(q)
        PROVE  SameRow(r)
    <3>1. q # r
      BY <2>2, <2>4, StatusesApart DEF Submits, Grants, Drops, Publishes, Claimable
    <3> QED BY <2>4, <3>1 DEF Submits, Grants, Drops, Publishes, OthersStand
  <2>5. ASSUME NEW q \in Runs, NEW f \in Fences, Releases(q, f)
        PROVE  run'[r].status = "CANCELLED"
    <3>1. ~GivenUp(r, f)
      BY DEF GivenUp
    <3> QED BY <2>3, <2>5, <3>1 DEF Releases, OthersStand
  <2>6. ASSUME NEW S \in SUBSET Runs, NEW erase \in BOOLEAN, Revokes(S, erase)
        PROVE  run'[r].status = "CANCELLED"
    BY <2>3, <2>6 DEF Revokes
  <2> QED BY <2>1, <2>3, <2>4, <2>5, <2>6 DEF SomeKind, Still
<1> QED BY <1>1, InvariantHolds, RecordsInvHolds, PTL DEF Spec, CancellationIsFinal
-----------------------------------------------------------------------------
(* The refinement, kind by kind. *)

LEMMA SameCardinality == ASSUME NEW S PROVE Abstract!Cardinality(S) = Cardinality(S)
  BY DEF Abstract!Cardinality, Cardinality

PhaseMap == [r \in Runs |-> Phase(r)]
GrantedMap == [r \in Runs |-> GrantedTo(r)]
ResultMap == [r \in Runs |-> run[r].result]

LEMMA PhaseOf ==
  ASSUME NEW r \in Runs
  PROVE  /\ run[r].status = "ABSENT" <=> Phase(r) = "new"
         /\ run[r].status = "QUEUED" => Phase(r) = "waiting"
         /\ run[r].status = "PROCESSING" <=> Phase(r) = "running"
         /\ run[r].status \in Published => Phase(r) = "done"
         /\ run[r].status = "CANCELLED" => Phase(r) = "revoked"
  BY DEF Phase, Published

LEMMA PhaseOfNext ==
  ASSUME NEW r \in Runs
  PROVE  /\ run'[r].status = "ABSENT" <=> Phase(r)' = "new"
         /\ run'[r].status = "QUEUED" => Phase(r)' = "waiting"
         /\ run'[r].status = "PROCESSING" <=> Phase(r)' = "running"
         /\ run'[r].status \in Published => Phase(r)' = "done"
         /\ run'[r].status = "CANCELLED" => Phase(r)' = "revoked"
  BY DEF Phase, Published

LEMMA SameRowMaps ==
  ASSUME NEW r \in Runs, SameRow(r)
  PROVE  Phase(r)' = Phase(r) /\ run'[r].result = run[r].result
  BY DEF SameRow, Phase

LEMMA SlotsStandMaps ==
  ASSUME SlotsStand
  PROVE  OpenSlots' = OpenSlots /\ GrantedMap' = GrantedMap
<1>1. \A r \in Runs : GrantedTo(r)' = GrantedTo(r)
  BY DEF SlotsStand, GrantedTo
<1>2. OpenSlots' = OpenSlots
  BY DEF SlotsStand, OpenSlots, Open
<1> QED BY <1>1, <1>2 DEF GrantedMap

(* What a step does to one row, as the abstract state sees it.              *)
LEMMA OneRowMaps ==
  ASSUME NEW r \in Runs, OthersStand(r)
  PROVE  /\ PhaseMap' = [PhaseMap EXCEPT ![r] = Phase(r)']
         /\ run'[r].result = run[r].result => ResultMap' = ResultMap
         /\ ResultMap' = [ResultMap EXCEPT ![r] = run'[r].result]
<1>1. \A q \in Runs \ {r} : Phase(q)' = Phase(q) /\ run'[q].result = run[q].result
  BY SameRowMaps DEF OthersStand
<1> QED BY <1>1 DEF PhaseMap, ResultMap

(* A run that a claim accepts is waiting.                                   *)
LEMMA ClaimableWaits ==
  ASSUME SlotDiscipline, NEW r \in Runs, Claimable(r)
  PROVE  run[r].status = "QUEUED" /\ Phase(r) = "waiting"
<1>1. run[r].status = "QUEUED"
  BY DEF Claimable, Pending, SlotDiscipline, HasOpenSlot
<1> QED BY <1>1, PhaseOf

LEMMA SubmitsMaps ==
  ASSUME NEW r \in Runs, Submits(r)
  PROVE  Abstract!Submit(r)
<1>1. Phase(r) = "new" /\ Phase(r)' = "waiting"
  BY PhaseOf, PhaseOfNext DEF Submits, HasRow
<1>2. /\ PhaseMap' = [PhaseMap EXCEPT ![r] = "waiting"] /\ ResultMap' = ResultMap
      /\ OpenSlots' = OpenSlots /\ GrantedMap' = GrantedMap
  BY <1>1, OneRowMaps, SlotsStandMaps DEF Submits
<1> QED BY <1>1, <1>2 DEF Abstract!Submit, PhaseMap, ResultMap, GrantedMap, GrantedTo

LEMMA DropsMaps ==
  ASSUME SlotDiscipline, NEW r \in Runs, Drops(r)
  PROVE  Abstract!Drop(r)
<1>1. Phase(r) = "waiting" /\ Phase(r)' = "done"
  BY ClaimableWaits, PhaseOfNext DEF Drops, Published
<1>2. /\ PhaseMap' = [PhaseMap EXCEPT ![r] = "done"] /\ ResultMap' = ResultMap
      /\ OpenSlots' = OpenSlots /\ GrantedMap' = GrantedMap
  BY <1>1, OneRowMaps, SlotsStandMaps DEF Drops
<1> QED BY <1>1, <1>2 DEF Abstract!Drop, PhaseMap, ResultMap, GrantedMap, GrantedTo

LEMMA PublishesMaps ==
  ASSUME SlotDiscipline, NEW r \in Runs, Publishes(r), NEW t \in Fences, t = run[r].fence
  PROVE  Abstract!Publish(r, t)
<1>1. Phase(r) = "running" /\ Phase(r)' = "done"
  BY PhaseOf, PhaseOfNext DEF Publishes
<1>2. <<r, t>> \in OpenSlots
  BY DEF Publishes, SlotDiscipline, OpenSlots
<1>3. /\ PhaseMap' = [PhaseMap EXCEPT ![r] = "done"]
      /\ ResultMap' = [ResultMap EXCEPT ![r] = t]
      /\ OpenSlots' = OpenSlots /\ GrantedMap' = GrantedMap
  BY <1>1, OneRowMaps, SlotsStandMaps DEF Publishes
<1> QED BY <1>1, <1>2, <1>3 DEF Abstract!Publish, PhaseMap, ResultMap, GrantedMap, GrantedTo

LEMMA GrantsMaps ==
  ASSUME JobTypeOK, SlotDiscipline, NEW r \in Runs, Grants(r),
         NEW t \in Fences, t = run[r].fence + 1
  PROVE  Abstract!Acquire(r, t)
<1>1. Phase(r) = "waiting" /\ Phase(r)' = "running"
  BY ClaimableWaits, PhaseOfNext DEF Grants
<1>2. PhaseMap' = [PhaseMap EXCEPT ![r] = "running"] /\ ResultMap' = ResultMap
  BY <1>1, OneRowMaps DEF Grants
<1>3. run[r].fence \in Nat
  BY LimitAssumption DEF JobTypeOK, RunRow
<1>4. \A q \in Runs, g \in Fences :
        slot'[q][g].state = IF q = r /\ g = t THEN "open" ELSE slot[q][g].state
  BY DEF Grants, OpenedSlot
<1>5. OpenSlots' = OpenSlots \cup {<<r, t>>}
  BY <1>3, <1>4 DEF OpenSlots, Open
<1>6. GrantedTo(r)' = GrantedTo(r) \cup {t} /\ \A q \in Runs \ {r} : GrantedTo(q)' = GrantedTo(q)
  BY <1>3, <1>4 DEF GrantedTo
<1>7. GrantedMap' = [GrantedMap EXCEPT ![r] = GrantedTo(r) \cup {t}]
  BY <1>6 DEF GrantedMap
<1>8. \A u \in GrantedTo(r) : u < t
  <2>1. ASSUME NEW u \in Fences, slot[r][u].state # "none" PROVE u < t
    <3>1. u <= run[r].fence /\ u \in Nat
      BY <2>1 DEF SlotDiscipline, Fences
    <3> QED BY <1>3, <3>1
  <2> QED BY <2>1 DEF GrantedTo
<1>9. Abstract!Cardinality(OpenSlots) < ActiveLimit /\ \A s \in OpenSlots : Owner(s[1]) # Owner(r)
  BY SameCardinality DEF Grants, CapacityFree
<1> QED BY <1>1, <1>2, <1>5, <1>7, <1>8, <1>9
        DEF Abstract!Acquire, PhaseMap, ResultMap, GrantedMap, GrantedTo

LEMMA ReleasesMaps ==
  ASSUME JobTypeOK, SlotDiscipline, NEW r \in Runs, NEW f \in Fences, Releases(r, f)
  PROVE  Abstract!Release(r, f)
<1>1. <<r, f>> \in OpenSlots
  BY DEF Releases, OpenSlots
<1>2. \A q \in Runs, g \in Fences :
        slot'[q][g].state = IF q = r /\ g = f THEN "released" ELSE slot[q][g].state
  BY DEF Releases
<1>3. OpenSlots' = OpenSlots \ {<<r, f>>}
  BY <1>2 DEF OpenSlots, Open
<1>4. \A q \in Runs : GrantedTo(q)' = GrantedTo(q)
  BY <1>1, <1>2 DEF GrantedTo, OpenSlots, Open
<1>5. GrantedMap' = GrantedMap
  BY <1>4 DEF GrantedMap
<1>6. ResultMap' = ResultMap /\ PhaseMap' = [PhaseMap EXCEPT ![r] = Phase(r)']
  BY OneRowMaps DEF Releases
<1>7. Phase(r)' = IF Phase(r) = "running" THEN "waiting" ELSE Phase(r)
  <2>1. CASE GivenUp(r, f)
    BY <2>1, PhaseOf, PhaseOfNext DEF Releases, GivenUp
  <2>2. CASE ~GivenUp(r, f)
    <3>1. run[r].status # "PROCESSING"
      <4> SUFFICES ASSUME run[r].status = "PROCESSING" PROVE FALSE
        OBVIOUS
      <4>1. <<r, run[r].fence>> \in OpenSlots
        BY DEF SlotDiscipline, OpenSlots
      <4>2. <<r, run[r].fence>> = <<r, f>>
        BY <1>1, <4>1 DEF SlotDiscipline
      <4> QED BY <2>2, <4>2 DEF GivenUp
    <3>2. run'[r].status = run[r].status
      BY <2>2 DEF Releases
    <3>3. Phase(r)' = Phase(r)
      BY <3>2 DEF Phase
    <3> QED BY <3>1, <3>3, PhaseOf
  <2> QED BY <2>1, <2>2
<1>8. PhaseMap' = [PhaseMap EXCEPT ![r] = IF @ = "running" THEN "waiting" ELSE @]
  BY <1>6, <1>7 DEF PhaseMap
<1> QED BY <1>1, <1>3, <1>5, <1>6, <1>8
        DEF Abstract!Release, PhaseMap, ResultMap, GrantedMap, GrantedTo

LEMMA RevokesMaps ==
  ASSUME ResultIsCurrent, NEW S \in SUBSET Runs, NEW erase \in BOOLEAN, Revokes(S, erase)
  PROVE  Abstract!Revoke(S)
<1>1. ASSUME NEW r \in S
      PROVE  Phase(r) # "new" /\ Phase(r)' = "revoked" /\ run'[r].result = 0
  <2>1. run[r].status \in Pending => run[r].result = 0
    BY StatusesApart DEF ResultIsCurrent
  <2>2. Phase(r) # "new" /\ Phase(r)' = "revoked"
    BY PhaseOf, PhaseOfNext DEF Revokes, HasRow
  <2> QED BY <2>1, <2>2 DEF Revokes
<1>2. \A r \in Runs \ S : Phase(r)' = Phase(r) /\ run'[r].result = run[r].result
  BY SameRowMaps DEF Revokes
<1>3. /\ PhaseMap' = [r \in Runs |-> IF r \in S THEN "revoked" ELSE PhaseMap[r]]
      /\ ResultMap' = [r \in Runs |-> IF r \in S THEN 0 ELSE ResultMap[r]]
  BY <1>1, <1>2 DEF PhaseMap, ResultMap
<1>4. OpenSlots' = OpenSlots /\ GrantedMap' = GrantedMap
  BY SlotsStandMaps DEF Revokes
<1>5. \A r \in S : PhaseMap[r] # "new"
  BY <1>1 DEF PhaseMap
<1> QED BY <1>3, <1>4, <1>5 DEF Abstract!Revoke, PhaseMap, ResultMap, GrantedMap, GrantedTo

LEMMA StillMaps ==
  ASSUME Still
  PROVE  UNCHANGED Abstract!vars
<1>1. \A r \in Runs : Phase(r)' = Phase(r) /\ run'[r].result = run[r].result
  BY SameRowMaps DEF Still
<1>2. OpenSlots' = OpenSlots /\ GrantedMap' = GrantedMap
  BY SlotsStandMaps DEF Still
<1>3. PhaseMap' = PhaseMap /\ ResultMap' = ResultMap
  BY <1>1 DEF PhaseMap, ResultMap
<1> QED BY <1>2, <1>3 DEF Abstract!vars, PhaseMap, ResultMap, GrantedMap, GrantedTo

LEMMA InitMaps ==
  ASSUME Init
  PROVE  Abstract!Init
<1>1. \A r \in Runs : /\ run[r].result = 0 /\ run[r].status \in {"ABSENT", "QUEUED"}
                      /\ \A f \in Fences : slot[r][f].state = "none"
  BY DEF Init, JobInit, AbsentRun, AbsentSlot
<1>2. \A r \in Runs : Phase(r) \in {"new", "waiting"} /\ GrantedTo(r) = {}
  BY <1>1, PhaseOf DEF GrantedTo
<1>3. OpenSlots = {}
  BY <1>1 DEF OpenSlots, Open
<1> QED BY <1>1, <1>2, <1>3 DEF Abstract!Init, GrantedTo

LEMMA StepMaps ==
  ASSUME WorkersInv, RecordsInv, [Next]_vars
  PROVE  [Abstract!Next]_(Abstract!vars)
<1>1. JobTypeOK /\ SlotDiscipline /\ ResultIsCurrent /\ SomeKind
  BY StepKind DEF WorkersInv, TypeOK, RecordsInv
<1>2. ASSUME NEW r \in Runs, Submits(r) \/ Grants(r) \/ Drops(r) \/ Publishes(r)
      PROVE  Abstract!Next
  <2>1. CASE Submits(r)
    <3>1. Abstract!Submit(r)
      BY <2>1, SubmitsMaps
    <3> QED BY <3>1 DEF Abstract!Next
  <2>2. CASE Grants(r)
    <3>1. PICK t \in Fences : t = run[r].fence + 1
      BY <2>2 DEF Grants
    <3>2. Abstract!Acquire(r, t)
      BY <1>1, <2>2, <3>1, GrantsMaps
    <3> QED BY <3>2 DEF Abstract!Next
  <2>3. CASE Drops(r)
    <3>1. Abstract!Drop(r)
      BY <1>1, <2>3, DropsMaps
    <3> QED BY <3>1 DEF Abstract!Next
  <2>4. CASE Publishes(r)
    <3>1. PICK t \in Fences : t = run[r].fence
      BY <2>4 DEF Publishes
    <3>2. Abstract!Publish(r, t)
      BY <1>1, <2>4, <3>1, PublishesMaps
    <3> QED BY <3>2 DEF Abstract!Next
  <2> QED BY <1>2, <2>1, <2>2, <2>3, <2>4
<1>3. ASSUME NEW r \in Runs, NEW f \in Fences, Releases(r, f) PROVE Abstract!Next
  BY <1>1, <1>3, ReleasesMaps DEF Abstract!Next
<1>4. ASSUME NEW S \in SUBSET Runs, NEW erase \in BOOLEAN, Revokes(S, erase) PROVE Abstract!Next
  BY <1>1, <1>4, RevokesMaps DEF Abstract!Next
<1> QED BY <1>1, <1>2, <1>3, <1>4, StillMaps DEF SomeKind

(* The job lifecycle implements FencedExecution: a fence is granted once,   *)
(* to a run whose owner holds no other, never more than the limit are held, *)
(* only a held fence publishes, and what was revoked never comes back.      *)
THEOREM ImplementsFencedExecutionHolds == Spec => ImplementsFencedExecution
<1>1. Init => Abstract!Init
  BY InitMaps
<1>2. WorkersInv /\ RecordsInv /\ [Next]_vars => [Abstract!Next]_(Abstract!vars)
  BY StepMaps
<1> QED BY <1>1, <1>2, InvariantHolds, RecordsInvHolds, PTL
        DEF Spec, ImplementsFencedExecution, Abstract!Spec
=============================================================================
