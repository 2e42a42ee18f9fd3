------------------------- MODULE LocalWorkersProofs -------------------------
(***************************************************************************)
(* What LocalWorkers keeps for every set of runs, owners and processes and *)
(* every limit.  The argument has two halves: the transactions keep the    *)
(* slot and budget discipline and never take the slot of a decoder away    *)
(* (the job half), and the processes never lose track of a decoder whose   *)
(* slot they will release (the worker half).                               *)
(***************************************************************************)
EXTENDS LocalWorkers, RunJobsProofs

JobInv == JobTypeOK /\ SlotDiscipline /\ BudgetDiscipline

(* What a step does to the slots the processes know of.                     *)
Kept ==
  \A r \in Runs, f \in Fences :
    /\ slot[r][f].state # "none" =>
         /\ slot'[r][f].state # "none"
         /\ slot[r][f].started => slot'[r][f].started
    /\ <<r, f>> \in decoder => Open(r, f)' /\ slot'[r][f].started
-----------------------------------------------------------------------------
(* The job half. *)

LEMMA QuietJob ==
  ASSUME WorkersInv, JobTypeOK', Quiet, BudgetQuiet
  PROVE  JobInv' /\ Kept
<1>1. SlotDiscipline' /\ BudgetDiscipline'
  BY QuietKeepsSlots, QuietKeepsBudget DEF WorkersInv, TypeOK
<1>2. Kept
  <2>1. ASSUME NEW r \in Runs, NEW f \in Fences, <<r, f>> \in decoder
        PROVE  Open(r, f) /\ slot[r][f].started
    BY <2>1 DEF WorkersInv, DecoderHasSlot
  <2>2. \A r \in Runs, f \in Fences : /\ slot'[r][f].state = slot[r][f].state
                                      /\ slot'[r][f].started = slot[r][f].started
    BY DEF Quiet
  <2> QED BY ZenonT(40), <2>1, <2>2 DEF Kept, Open
<1> QED BY <1>1, <1>2 DEF JobInv

(* A step that leaves the tables alone.                                     *)
LEMMA IdleJob ==
  ASSUME WorkersInv, UNCHANGED jobVars
  PROVE  JobInv' /\ Kept
<1>1. UNCHANGED <<run, slot, budget, dispatch, asset, owner>>
  BY DEF jobVars
<1>2. JobTypeOK' /\ SlotDiscipline' /\ BudgetDiscipline'
  BY <1>1 DEF WorkersInv, TypeOK, JobTypeOK, SlotDiscipline, BudgetDiscipline,
              OpenSlots, HasOpenSlot, Open
<1>3. Kept
  <2>1. ASSUME NEW r \in Runs, NEW f \in Fences, <<r, f>> \in decoder
        PROVE  Open(r, f) /\ slot[r][f].started
    BY <2>1 DEF WorkersInv, DecoderHasSlot
  <2> QED BY <1>1, <2>1 DEF Kept, Open
<1> QED BY <1>2, <1>3 DEF JobInv

LEMMA ClaimJob ==
  ASSUME WorkersInv, NEW r \in Runs, ClaimGranted(r)
  PROVE  JobInv' /\ Kept
<1>1. JobTypeOK /\ SlotDiscipline /\ BudgetDiscipline
  BY DEF WorkersInv, TypeOK
<1>2. JobTypeOK' /\ SlotDiscipline' /\ BudgetDiscipline'
  BY <1>1, ClaimStep, ClaimKeepsSlots, ClaimKeepsBudget
<1>3. \A s \in Runs, g \in Fences :
        ~(s = r /\ g = run[r].fence + 1) => slot'[s][g] = slot[s][g]
  BY <1>1, ClaimStep
<1>4. slot[r][run[r].fence + 1].state = "none"
  <2>1. run[r].fence \in Nat /\ run[r].fence + 1 \in Fences
    BY <1>1, ClaimStep, LimitAssumption DEF JobTypeOK, RunRow
  <2>2. ~(run[r].fence + 1 <= run[r].fence)
    BY <2>1
  <2> QED BY <1>1, <2>1, <2>2 DEF SlotDiscipline
<1>5. Kept
  <2>1. ASSUME NEW s \in Runs, NEW g \in Fences, <<s, g>> \in decoder
        PROVE  Open(s, g) /\ slot[s][g].started
    BY <2>1 DEF WorkersInv, DecoderHasSlot
  <2>2. ASSUME NEW s \in Runs, NEW g \in Fences, slot[s][g].state # "none"
        PROVE  slot'[s][g] = slot[s][g]
    BY <1>3, <1>4, <2>2
  <2>3. ASSUME NEW s \in Runs, NEW g \in Fences, <<s, g>> \in decoder
        PROVE  Open(s, g)' /\ slot'[s][g].started
    BY <2>1, <2>2, <2>3 DEF Open
  <2> QED BY <2>2, <2>3 DEF Kept
<1> QED BY <1>2, <1>5 DEF JobInv

LEMMA BeginJob ==
  ASSUME WorkersInv, NEW r \in Runs, NEW f \in Fences, BeginExecution(r, f)
  PROVE  JobInv' /\ Kept
<1>1. JobTypeOK /\ SlotDiscipline /\ BudgetDiscipline
  BY DEF WorkersInv, TypeOK
<1>2. JobTypeOK' /\ SlotDiscipline' /\ BudgetDiscipline'
  BY <1>1, BeginStep, BeginKeepsSlots, BeginKeepsBudget
<1>3. \A s \in Runs, g \in Fences : /\ slot'[s][g].state = slot[s][g].state
                                    /\ slot[s][g].started => slot'[s][g].started
  BY <1>1, BeginStep
<1>4. \A s \in Runs, g \in Fences : <<s, g>> \in decoder => Open(s, g) /\ slot[s][g].started
  BY DEF WorkersInv, DecoderHasSlot
<1>5. Kept
  BY ZenonT(40), <1>3, <1>4 DEF Kept, Open
<1> QED BY <1>2, <1>5 DEF JobInv

(* The acknowledgement is harmless exactly because no decoder of the        *)
(* attempt is left.                                                         *)
LEMMA AckJob ==
  ASSUME WorkersInv, NEW r \in Runs, NEW f \in Fences,
         <<r, f>> \notin decoder, AcknowledgeStopped(r, f)
  PROVE  JobInv' /\ Kept
<1>1. CASE ~Open(r, f)
  <2>1. UNCHANGED jobVars
    BY <1>1 DEF AcknowledgeStopped
  <2> QED BY <2>1, IdleJob
<1>2. CASE Open(r, f)
  <2>1. JobTypeOK /\ SlotDiscipline /\ BudgetDiscipline
    BY DEF WorkersInv, TypeOK
  <2>2. JobTypeOK' /\ SlotDiscipline' /\ BudgetDiscipline'
    BY <1>2, <2>1, AckStep, AckKeepsSlots, AckKeepsBudget
  <2>3. \A s \in Runs, g \in Fences :
          /\ slot'[s][g].state = IF s = r /\ g = f THEN "released" ELSE slot[s][g].state
          /\ slot'[s][g].started = slot[s][g].started
    BY <1>2, <2>1, AckStep
  <2>4. \A s \in Runs, g \in Fences : <<s, g>> \in decoder => Open(s, g) /\ slot[s][g].started
    BY DEF WorkersInv, DecoderHasSlot
  <2>5. ASSUME NEW s \in Runs, NEW g \in Fences
        PROVE  /\ slot[s][g].state # "none" => slot'[s][g].state # "none"
               /\ slot[s][g].started => slot'[s][g].started
    BY <2>3
  <2>6. ASSUME NEW s \in Runs, NEW g \in Fences, <<s, g>> \in decoder
        PROVE  slot'[s][g].state = "open" /\ slot'[s][g].started
    <3>1. ~(s = r /\ g = f)
      BY <2>6
    <3> QED BY <2>3, <2>4, <2>6, <3>1 DEF Open
  <2>7. Kept
    BY <2>5, <2>6 DEF Kept, Open
  <2> QED BY <2>2, <2>7 DEF JobInv
<1> QED BY <1>1, <1>2

(* What a process that is not idle works on.                                *)
LEMMA BusyTyped ==
  ASSUME WorkersInv, NEW w \in Workers, worker[w].pc # "idle"
  PROVE  worker[w].run \in Runs /\ worker[w].fence \in Fences
BY DEF WorkersInv, TypeOK

LEMMA JobHalf ==
  ASSUME WorkersInv, [Next]_vars
  PROVE  JobInv' /\ Kept
<1>0. JobTypeOK
  BY DEF WorkersInv, TypeOK
<1>1. ASSUME NEW w \in Workers, NEW r \in Runs, Claim(w, r)
      PROVE  JobInv' /\ Kept
  BY <1>1, ClaimJob DEF Claim
<1>2. ASSUME NEW w \in Workers, NEW r \in Runs, NEW f \in Fences, Deliver(w, r, f)
      PROVE  JobInv' /\ Kept
  BY <1>2, IdleJob DEF Deliver, jobVars
<1>3. ASSUME NEW w \in Workers, Proceed(w)
      PROVE  JobInv' /\ Kept
  <2>1. CASE Begin(w)
    <3>1. worker[w].run \in Runs /\ worker[w].fence \in Fences
      BY <2>1, BusyTyped DEF Begin, At
    <3>2. BeginExecution(worker[w].run, worker[w].fence)
      BY <2>1 DEF Begin
    <3> QED BY <3>1, <3>2, BeginJob
  <2>2. CASE BeginDenied(w)
    BY <2>2, IdleJob DEF BeginDenied, BeginRefused
  <2>3. ASSUME NEW report \in Published, DecoderEnds(w, report)
        PROVE  JobInv' /\ Kept
    BY <2>3, IdleJob DEF DecoderEnds
  <2>4. CASE CleanupUnconfirmed(w) \/ FinishRefused(w) \/ FinishRaises(w)
    <3>1. UNCHANGED jobVars
      BY <2>4 DEF CleanupUnconfirmed, FinishRefused, FinishRaises, jobVars
    <3> QED BY <3>1, IdleJob
  <2>5. CASE Finish(w)
    <3>1. worker[w].run \in Runs /\ worker[w].fence \in Fences
      BY <2>5, BusyTyped DEF Finish, At
    <3>2. worker[w].report \in Published
      BY DEF WorkersInv, TypeOK, WorkerRow
    <3>3. FinishRun(worker[w].run, worker[w].fence, worker[w].report)
      BY <2>5 DEF Finish
    <3> QED BY <1>0, <3>1, <3>2, <3>3, FinishStep, FinishBudget, QuietJob
  <2>6. CASE Refused(w)
    <3>1. worker[w].run \in Runs
      BY <2>6, BusyTyped DEF Refused, At
    <3>2. AssetOf[worker[w].run] \in Assets
      BY <3>1, RunsAssumption
    <3>3. CASE UNCHANGED jobVars
      BY <3>3, IdleJob
    <3>4. CASE DeleteAsset(AssetOf[worker[w].run])
      BY <1>0, <3>2, <3>4, DeleteAssetStep, DeleteAssetBudget, QuietJob
    <3> QED BY <2>6, <3>3, <3>4 DEF Refused
  <2>7. CASE Acknowledge(w)
    <3>1. worker[w].run \in Runs /\ worker[w].fence \in Fences
      BY <2>7, BusyTyped DEF Acknowledge, At
    <3>2. CASE worker[w].stopped
      <4>1. <<worker[w].run, worker[w].fence>> \notin decoder
        BY <3>2 DEF WorkersInv, WorkerDiscipline, Attempt
      <4>2. AcknowledgeStopped(worker[w].run, worker[w].fence)
        BY <2>7, <3>2 DEF Acknowledge
      <4> QED BY <3>1, <4>1, <4>2, AckJob
    <3>3. CASE ~worker[w].stopped
      BY <2>7, <3>3, IdleJob DEF Acknowledge
    <3> QED BY <3>2, <3>3
  <2> QED BY <1>3, <2>1, <2>2, <2>3, <2>4, <2>5, <2>6, <2>7 DEF Proceed
<1>4. ASSUME NEW w \in Workers, Crash(w)
      PROVE  JobInv' /\ Kept
  BY <1>4, IdleJob DEF Crash, jobVars
<1>5. ASSUME NEW r \in Runs, ClaimDenied(r)
      PROVE  JobInv' /\ Kept
  <2>1. CASE ClaimUnbudgeted(r)
    BY <1>0, <2>1, UnbudgetedStep, DeniedBudget, QuietJob
  <2>2. CASE ClaimExhausted(r)
    BY <1>0, <2>2, ExhaustedStep, DeniedBudget, QuietJob
  <2>3. CASE ClaimDeferred(r)
    BY <1>0, <2>3, DeferredStep, DeniedBudget, QuietJob
  <2> QED BY <1>5, <2>1, <2>2, <2>3 DEF ClaimDenied
<1>6. ASSUME NEW r \in Runs, NEW f \in Fences, DecoderExits(r, f)
      PROVE  JobInv' /\ Kept
  BY <1>6, IdleJob DEF DecoderExits, jobVars
<1>7. ASSUME NEW r \in Runs, NEW f \in Fences, OperatorConfirms(r, f)
      PROVE  JobInv' /\ Kept
  BY <1>7, AckJob DEF OperatorConfirms
<1>8. ASSUME NEW a \in Assets, PurgeExpired(a)
      PROVE  JobInv' /\ Kept
  BY <1>0, <1>8, DeleteAssetStep, DeleteAssetBudget, QuietJob DEF PurgeExpired
<1>9. CASE Reconcile
  BY <1>0, <1>9, ReconcileStep, ReconcileBudget, QuietJob
<1>10. CASE OwnerActs(Requests)
  BY <1>0, <1>10, OwnerStep, OwnerBudget, QuietJob
<1>11. CASE ClockTicks(Requests)
  BY <1>0, <1>11, ClockStep, ClockBudget, QuietJob
<1>12. CASE UNCHANGED vars
  BY <1>12, IdleJob DEF vars, jobVars
<1> QED BY <1>1, <1>2, <1>3, <1>4, <1>5, <1>6, <1>7, <1>8, <1>9, <1>10, <1>11, <1>12 DEF Next
-----------------------------------------------------------------------------
(* The worker half. *)

WorkerTyped ==
  /\ worker \in [Workers -> WorkerRow]
  /\ \A w \in Workers : worker[w].pc # "idle" =>
       worker[w].run \in Runs /\ worker[w].fence \in Fences
  /\ decoder \subseteq Attempts

WorkerInv == WorkerTyped /\ DecoderHasSlot /\ OneProcessPerAttempt /\ WorkerDiscipline

LEMMA InvParts == WorkersInv <=> JobInv /\ WorkerInv
BY DEF WorkersInv, JobInv, WorkerInv, WorkerTyped, TypeOK

(* The decoders that are left keep what a kept slot gives them.             *)
LEMMA DecoderKept ==
  ASSUME WorkerInv, Kept, decoder' \subseteq decoder
  PROVE  DecoderHasSlot'
<1>1. ASSUME NEW d \in decoder'
      PROVE  Open(d[1], d[2])' /\ slot'[d[1]][d[2]].started
  <2>1. d \in decoder /\ d[1] \in Runs /\ d[2] \in Fences /\ d = <<d[1], d[2]>>
    BY DEF WorkerInv, WorkerTyped, Attempts
  <2> QED BY <2>1 DEF Kept
<1> QED BY <1>1 DEF DecoderHasSlot

(* A move of one process that starts and ends no decoder.                   *)
LEMMA MoveWorker ==
  ASSUME WorkerInv, Kept, NEW w \in Workers, NEW row \in WorkerRow,
         worker' = [worker EXCEPT ![w] = row], decoder' = decoder,
         row.pc # "decoding",
         row.pc # "idle" => row.run \in Runs /\ row.fence \in Fences,
         row.stopped => /\ worker[w].stopped /\ row.pc \in {"finish", "refused", "ack"}
                        /\ row.run = worker[w].run /\ row.fence = worker[w].fence
  PROVE  WorkerInv'
<1>1. WorkerTyped /\ DecoderHasSlot /\ OneProcessPerAttempt /\ WorkerDiscipline
  BY DEF WorkerInv
<1>2. worker'[w] = row /\ \A v \in Workers \ {w} : worker'[v] = worker[v]
  BY <1>1 DEF WorkerTyped
<1>3. WorkerTyped'
  BY <1>1, <1>2 DEF WorkerTyped
<1>4. DecoderHasSlot'
  BY DecoderKept
<1>5. \A v \in Workers : At(v, "decoding")' => At(v, "decoding") /\ worker'[v] = worker[v]
  BY <1>2 DEF At
<1>6. OneProcessPerAttempt'
  <2>1. ASSUME NEW u \in Workers, NEW v \in Workers,
               At(u, "decoding")', At(v, "decoding")', Attempt(u)' = Attempt(v)'
        PROVE  u = v
    <3>1. /\ At(u, "decoding") /\ At(v, "decoding")
          /\ Attempt(u) = Attempt(v)
      BY <1>5, <2>1 DEF Attempt
    <3> QED BY <1>1, <3>1 DEF OneProcessPerAttempt
  <2> QED BY <2>1 DEF OneProcessPerAttempt
<1>7. ASSUME NEW v \in Workers, At(v, "decoding")'
      PROVE  Attempt(v)' \in decoder'
  BY <1>1, <1>5, <1>7 DEF WorkerDiscipline, Attempt
<1>8. ASSUME NEW v \in Workers, worker'[v].stopped
      PROVE  /\ worker'[v].pc \in {"finish", "refused", "ack"}
             /\ slot'[worker'[v].run][worker'[v].fence].state # "none"
             /\ slot'[worker'[v].run][worker'[v].fence].started
             /\ Attempt(v)' \notin decoder'
  <2>1. /\ worker[v].stopped /\ worker'[v].pc \in {"finish", "refused", "ack"}
        /\ worker'[v].run = worker[v].run /\ worker'[v].fence = worker[v].fence
    BY <1>1, <1>2, <1>8 DEF WorkerDiscipline
  <2>2. /\ worker[v].pc # "idle"
        /\ slot[worker[v].run][worker[v].fence].state # "none"
        /\ slot[worker[v].run][worker[v].fence].started
        /\ Attempt(v) \notin decoder
    BY <1>1, <2>1 DEF WorkerDiscipline
  <2>3. worker[v].run \in Runs /\ worker[v].fence \in Fences
    BY <1>1, <2>2 DEF WorkerTyped
  <2> QED BY <2>1, <2>2, <2>3 DEF Kept, Attempt
<1> QED BY <1>3, <1>4, <1>6, <1>7, <1>8 DEF WorkerInv, WorkerDiscipline

(* No process moves; decoders that nobody waits for may go.                 *)
LEMMA StillWorkers ==
  ASSUME WorkerInv, Kept, worker' = worker, decoder' \subseteq decoder,
         \A w \in Workers : At(w, "decoding") => Attempt(w) \in decoder'
  PROVE  WorkerInv'
<1>1. WorkerTyped /\ DecoderHasSlot /\ OneProcessPerAttempt /\ WorkerDiscipline
  BY DEF WorkerInv
<1>2. WorkerTyped'
  BY <1>1 DEF WorkerTyped
<1>3. DecoderHasSlot'
  BY DecoderKept
<1>4. OneProcessPerAttempt'
  BY <1>1 DEF OneProcessPerAttempt, At, Attempt
<1>5. ASSUME NEW v \in Workers, worker[v].stopped
      PROVE  /\ worker[v].pc \in {"finish", "refused", "ack"}
             /\ slot'[worker[v].run][worker[v].fence].state # "none"
             /\ slot'[worker[v].run][worker[v].fence].started
             /\ Attempt(v) \notin decoder'
  <2>1. /\ worker[v].pc \in {"finish", "refused", "ack"}
        /\ slot[worker[v].run][worker[v].fence].state # "none"
        /\ slot[worker[v].run][worker[v].fence].started
        /\ Attempt(v) \notin decoder
    BY <1>1, <1>5 DEF WorkerDiscipline
  <2>2. worker[v].run \in Runs /\ worker[v].fence \in Fences
    BY <1>1, <2>1 DEF WorkerTyped
  <2> QED BY <2>1, <2>2 DEF Kept
<1> QED BY <1>2, <1>3, <1>4, <1>5 DEF WorkerInv, WorkerDiscipline, At, Attempt

(* A process enters its attempt: nobody was in it, and nobody who left it   *)
(* will still release its slot.                                             *)
LEMMA BeginWorker ==
  ASSUME JobTypeOK, WorkerInv, Kept, NEW w \in Workers, Begin(w)
  PROVE  WorkerInv'
<1> DEFINE r == worker[w].run
<1> DEFINE f == worker[w].fence
<1>1. WorkerTyped /\ DecoderHasSlot /\ OneProcessPerAttempt /\ WorkerDiscipline
  BY DEF WorkerInv
<1>2. r \in Runs /\ f \in Fences /\ worker[w] \in WorkerRow /\ ~worker[w].stopped
  BY <1>1 DEF Begin, At, WorkerTyped, WorkerDiscipline
<1>3. /\ worker' = [worker EXCEPT ![w] = [worker[w] EXCEPT !.pc = "decoding"]]
      /\ decoder' = decoder \cup {<<r, f>>}
      /\ BeginExecution(r, f)
  BY DEF Begin, Attempt
<1>4. Open(r, f) /\ ~slot[r][f].started
  BY <1>3 DEF BeginExecution, Enterable
<1>5. /\ worker'[w].pc = "decoding" /\ worker'[w].run = r /\ worker'[w].fence = f
      /\ ~worker'[w].stopped /\ worker'[w] \in WorkerRow
      /\ \A v \in Workers \ {w} : worker'[v] = worker[v]
  BY <1>1, <1>2, <1>3 DEF WorkerTyped, WorkerRow
<1>6. slot'[r][f].state = "open" /\ slot'[r][f].started
  <2>1. slot'[r][f].state = slot[r][f].state /\ slot'[r][f].started
    BY <1>2, <1>3, BeginStep
  <2> QED BY <1>4, <2>1 DEF Open
<1>7. <<r, f>> \notin decoder
  BY <1>1, <1>4 DEF DecoderHasSlot
<1> HIDE DEF r, f
<1>8. WorkerTyped'
  BY <1>1, <1>2, <1>3, <1>5 DEF WorkerTyped, Attempts
<1>9. DecoderHasSlot'
  <2>1. ASSUME NEW d \in decoder'
        PROVE  Open(d[1], d[2])' /\ slot'[d[1]][d[2]].started
    <3>1. CASE d \in decoder
      <4>1. d[1] \in Runs /\ d[2] \in Fences /\ <<d[1], d[2]>> \in decoder
        BY <1>1, <3>1 DEF WorkerTyped, Attempts
      <4> QED BY <4>1 DEF Kept
    <3>2. CASE d = <<r, f>>
      BY <1>6, <3>2 DEF Open
    <3> QED BY <1>3, <3>1, <3>2
  <2> QED BY <2>1 DEF DecoderHasSlot
<1>10. \A v \in Workers \ {w} : At(v, "decoding")' =>
         At(v, "decoding") /\ Attempt(v)' = Attempt(v) /\ Attempt(v) \in decoder
  BY <1>1, <1>5 DEF At, Attempt, WorkerDiscipline
<1>11. Attempt(w)' = <<r, f>>
  BY <1>5 DEF Attempt
<1>12. OneProcessPerAttempt'
  <2>1. ASSUME NEW u \in Workers, NEW v \in Workers,
               At(u, "decoding")', At(v, "decoding")', Attempt(u)' = Attempt(v)', u # v
        PROVE  FALSE
    <3>1. CASE u = w \/ v = w
      BY <1>7, <1>10, <1>11, <2>1, <3>1
    <3>2. CASE u # w /\ v # w
      <4>1. At(u, "decoding") /\ At(v, "decoding") /\ Attempt(u) = Attempt(v)
        BY <1>10, <2>1, <3>2
      <4> QED BY <1>1, <2>1, <4>1 DEF OneProcessPerAttempt
    <3> QED BY <3>1, <3>2
  <2> QED BY <2>1 DEF OneProcessPerAttempt
<1>13. ASSUME NEW v \in Workers, At(v, "decoding")'
       PROVE  Attempt(v)' \in decoder'
  <2>1. CASE v = w
    BY <1>3, <1>11, <2>1
  <2>2. CASE v # w
    BY <1>3, <1>10, <1>13, <2>2
  <2> QED BY <2>1, <2>2
<1>14. ASSUME NEW v \in Workers, worker'[v].stopped
       PROVE  /\ worker'[v].pc \in {"finish", "refused", "ack"}
              /\ slot'[worker'[v].run][worker'[v].fence].state # "none"
              /\ slot'[worker'[v].run][worker'[v].fence].started
              /\ Attempt(v)' \notin decoder'
  <2>1. v # w /\ worker'[v] = worker[v]
    BY <1>5, <1>14
  <2>2. /\ worker[v].pc \in {"finish", "refused", "ack"}
        /\ slot[worker[v].run][worker[v].fence].state # "none"
        /\ slot[worker[v].run][worker[v].fence].started
        /\ Attempt(v) \notin decoder
    BY <1>1, <1>14, <2>1 DEF WorkerDiscipline
  <2>3. worker[v].run \in Runs /\ worker[v].fence \in Fences
    BY <1>1, <2>2 DEF WorkerTyped
  <2>4. Attempt(v) # <<r, f>>
    BY <1>4, <2>2 DEF Attempt
  <2> QED BY <1>3, <2>1, <2>2, <2>3, <2>4 DEF Kept, Attempt
<1> QED BY <1>8, <1>9, <1>12, <1>13, <1>14 DEF WorkerInv, WorkerDiscipline

(* A process learns that its decoder stopped: it was the only one to wait   *)
(* for it.                                                                  *)
LEMMA DecoderEndsWorker ==
  ASSUME WorkerInv, Kept, NEW w \in Workers, NEW report \in Published,
         DecoderEnds(w, report)
  PROVE  WorkerInv'
<1>1. WorkerTyped /\ DecoderHasSlot /\ OneProcessPerAttempt /\ WorkerDiscipline
  BY DEF WorkerInv
<1>2. /\ At(w, "decoding") /\ worker[w] \in WorkerRow
      /\ worker[w].run \in Runs /\ worker[w].fence \in Fences
      /\ Attempt(w) \in decoder
  BY <1>1 DEF DecoderEnds, At, WorkerTyped, WorkerDiscipline
<1>3. /\ worker' = [worker EXCEPT ![w] = [worker[w] EXCEPT !.pc = "finish", !.stopped = TRUE,
                                                          !.report = report]]
      /\ decoder' = decoder \ {Attempt(w)}
  BY DEF DecoderEnds
<1>4. /\ worker'[w].pc = "finish" /\ worker'[w] \in WorkerRow
      /\ worker'[w].run = worker[w].run /\ worker'[w].fence = worker[w].fence
      /\ \A v \in Workers \ {w} : worker'[v] = worker[v]
  BY <1>1, <1>2, <1>3 DEF WorkerTyped, WorkerRow
<1>5. WorkerTyped'
  BY <1>1, <1>2, <1>3, <1>4 DEF WorkerTyped
<1>6. DecoderHasSlot'
  BY <1>3, DecoderKept
<1>7. \A v \in Workers : At(v, "decoding")' =>
        v # w /\ At(v, "decoding") /\ Attempt(v)' = Attempt(v)
  BY <1>4 DEF At, Attempt
<1>8. OneProcessPerAttempt'
  BY <1>1, <1>7 DEF OneProcessPerAttempt
<1>9. ASSUME NEW v \in Workers, At(v, "decoding")'
      PROVE  Attempt(v)' \in decoder'
  <2>1. v # w /\ At(v, "decoding") /\ Attempt(v)' = Attempt(v)
    BY <1>7, <1>9
  <2>2. Attempt(v) \in decoder /\ Attempt(v) # Attempt(w)
    BY <1>1, <1>2, <2>1 DEF WorkerDiscipline, OneProcessPerAttempt
  <2> QED BY <1>3, <2>1, <2>2
<1>10. ASSUME NEW v \in Workers, worker'[v].stopped
       PROVE  /\ worker'[v].pc \in {"finish", "refused", "ack"}
              /\ slot'[worker'[v].run][worker'[v].fence].state # "none"
              /\ slot'[worker'[v].run][worker'[v].fence].started
              /\ Attempt(v)' \notin decoder'
  <2>1. CASE v = w
    <3>1. /\ slot'[worker[w].run][worker[w].fence].state = "open"
          /\ slot'[worker[w].run][worker[w].fence].started
      BY <1>2 DEF Kept, Attempt, Open
    <3> QED BY <1>3, <1>4, <2>1, <3>1 DEF Attempt
  <2>2. CASE v # w
    <3>1. worker'[v] = worker[v]
      BY <1>4, <2>2
    <3>2. /\ worker[v].pc \in {"finish", "refused", "ack"}
          /\ slot[worker[v].run][worker[v].fence].state # "none"
          /\ slot[worker[v].run][worker[v].fence].started
          /\ Attempt(v) \notin decoder
      BY <1>1, <1>10, <3>1 DEF WorkerDiscipline
    <3>3. worker[v].run \in Runs /\ worker[v].fence \in Fences
      BY <1>1, <3>2 DEF WorkerTyped
    <3> QED BY <1>3, <3>1, <3>2, <3>3 DEF Kept, Attempt
  <2> QED BY <2>1, <2>2
<1> QED BY <1>5, <1>6, <1>8, <1>9, <1>10 DEF WorkerInv, WorkerDiscipline

LEMMA IdleTyped == Idle \in WorkerRow
BY LimitAssumption DEF Idle, WorkerRow, Published

LEMMA WorkerHalf ==
  ASSUME WorkersInv, Kept, [Next]_vars
  PROVE  WorkerInv'
<1>0. JobTypeOK /\ WorkerInv
  BY InvParts DEF JobInv
<1>1. \A w \in Workers : worker[w] \in WorkerRow
  BY <1>0 DEF WorkerInv, WorkerTyped
<1>2. \A w \in Workers : At(w, "decoding") => Attempt(w) \in decoder
  BY <1>0 DEF WorkerInv, WorkerDiscipline
(* A process that goes back to the loop. *)
<1>3. ASSUME NEW w \in Workers, worker' = [worker EXCEPT ![w] = Idle], decoder' = decoder
      PROVE  WorkerInv'
  <2>1. Idle.pc = "idle" /\ ~Idle.stopped
    BY DEF Idle
  <2> QED BY <1>0, <1>3, <2>1, IdleTyped, MoveWorker
(* A process that takes an attempt up. *)
<1>4. ASSUME NEW w \in Workers, NEW r \in Runs, NEW f \in Fences, decoder' = decoder,
             worker' = [worker EXCEPT ![w] = [Idle EXCEPT !.pc = "claimed", !.run = r,
                                                          !.fence = f]]
      PROVE  WorkerInv'
  <2> DEFINE row == [Idle EXCEPT !.pc = "claimed", !.run = r, !.fence = f]
  <2>1. f \in 0..MaxFence
    BY LimitAssumption DEF Fences
  <2>2. row \in WorkerRow /\ row.pc = "claimed" /\ ~row.stopped /\ row.run = r /\ row.fence = f
    BY <2>1, IdleTyped DEF WorkerRow, Idle
  <2>3. worker' = [worker EXCEPT ![w] = row]
    BY <1>4
  <2> HIDE DEF row
  <2> QED BY <1>0, <1>4, <2>2, <2>3, MoveWorker
(* A process that goes on with its attempt. *)
<1>5. ASSUME NEW w \in Workers, NEW pc \in {"finish", "refused", "ack"},
             worker[w].pc # "idle", decoder' = decoder,
             worker' = [worker EXCEPT ![w].pc = pc]
      PROVE  WorkerInv'
  <2> DEFINE row == [worker[w] EXCEPT !.pc = pc]
  <2>1. /\ row \in WorkerRow /\ row.pc = pc /\ row.stopped = worker[w].stopped
        /\ row.run = worker[w].run /\ row.fence = worker[w].fence
    BY <1>1 DEF WorkerRow
  <2>2. worker' = [worker EXCEPT ![w] = row]
    BY <1>5
  <2>3. worker[w].run \in Runs /\ worker[w].fence \in Fences
    BY <1>5, BusyTyped
  <2> HIDE DEF row
  <2> QED BY <1>0, <1>5, <2>1, <2>2, <2>3, MoveWorker
<1>6. ASSUME NEW w \in Workers, NEW r \in Runs, Claim(w, r)
      PROVE  WorkerInv'
  <2>1. run[r].fence + 1 \in Fences
    BY <1>6 DEF Claim, ClaimGranted, ClaimRows
  <2> QED BY <1>4, <1>6, <2>1 DEF Claim
<1>7. ASSUME NEW w \in Workers, NEW r \in Runs, NEW f \in Fences, Deliver(w, r, f)
      PROVE  WorkerInv'
  BY <1>4, <1>7 DEF Deliver
<1>8. ASSUME NEW w \in Workers, Proceed(w)
      PROVE  WorkerInv'
  <2>1. CASE Begin(w)
    BY <1>0, <2>1, BeginWorker
  <2>2. CASE BeginDenied(w)
    BY <1>3, <2>2 DEF BeginDenied
  <2>3. ASSUME NEW report \in Published, DecoderEnds(w, report)
        PROVE  WorkerInv'
    BY <1>0, <2>3, DecoderEndsWorker
  <2>4. CASE CleanupUnconfirmed(w)
    <3> DEFINE row == [worker[w] EXCEPT !.pc = "finish", !.report = "FAILED"]
    <3>1. At(w, "decoding") /\ decoder' = decoder
      BY <2>4 DEF CleanupUnconfirmed
    <3>2. /\ row \in WorkerRow /\ row.pc = "finish" /\ row.stopped = worker[w].stopped
          /\ row.run = worker[w].run /\ row.fence = worker[w].fence
      BY <1>1 DEF WorkerRow, Published
    <3>3. worker' = [worker EXCEPT ![w] = row]
      BY <2>4 DEF CleanupUnconfirmed
    <3>4. worker[w].run \in Runs /\ worker[w].fence \in Fences
      BY <3>1, BusyTyped DEF At
    <3> HIDE DEF row
    <3> QED BY <1>0, <3>1, <3>2, <3>3, <3>4, MoveWorker
  <2>5. CASE Finish(w) \/ FinishRaises(w)
    <3>1. worker[w].pc # "idle" /\ decoder' = decoder /\ worker' = [worker EXCEPT ![w].pc = "ack"]
      BY <2>5 DEF Finish, FinishRaises, At
    <3> QED BY <1>5, <3>1
  <2>6. CASE FinishRefused(w)
    <3>1. /\ worker[w].pc # "idle" /\ decoder' = decoder
          /\ worker' = [worker EXCEPT ![w].pc = "refused"]
      BY <2>6 DEF FinishRefused, At
    <3> QED BY <1>5, <3>1
  <2>7. CASE Refused(w)
    <3>1. worker[w].pc # "idle" /\ decoder' = decoder /\ worker' = [worker EXCEPT ![w].pc = "ack"]
      BY <2>7 DEF Refused, At
    <3> QED BY <1>5, <3>1
  <2>8. CASE Acknowledge(w)
    BY <1>3, <2>8 DEF Acknowledge
  <2> QED BY <1>8, <2>1, <2>2, <2>3, <2>4, <2>5, <2>6, <2>7, <2>8 DEF Proceed
<1>9. ASSUME NEW w \in Workers, Crash(w)
      PROVE  WorkerInv'
  BY <1>3, <1>9 DEF Crash
<1>10. ASSUME worker' = worker, decoder' = decoder
       PROVE  WorkerInv'
  BY <1>0, <1>2, <1>10, StillWorkers
<1>11. ASSUME NEW r \in Runs, NEW f \in Fences, DecoderExits(r, f)
       PROVE  WorkerInv'
  <2>1. worker' = worker /\ decoder' = decoder \ {<<r, f>>} /\ ~Decoding(r, f)
    BY <1>11 DEF DecoderExits
  <2>2. \A w \in Workers : At(w, "decoding") => Attempt(w) \in decoder'
    BY <1>2, <2>1 DEF Decoding
  <2> QED BY <1>0, <2>1, <2>2, StillWorkers
<1>12. ASSUME NEW r \in Runs, ClaimDenied(r) PROVE WorkerInv'
  BY <1>10, <1>12 DEF ClaimDenied
<1>13. ASSUME NEW r \in Runs, NEW f \in Fences, OperatorConfirms(r, f) PROVE WorkerInv'
  BY <1>10, <1>13 DEF OperatorConfirms
<1>14. ASSUME NEW a \in Assets, PurgeExpired(a) PROVE WorkerInv'
  BY <1>10, <1>14 DEF PurgeExpired
<1>15. ASSUME UNCHANGED vars PROVE WorkerInv'
  BY <1>10, <1>15 DEF vars
<1> QED BY <1>6, <1>7, <1>8, <1>9, <1>10, <1>11, <1>12, <1>13, <1>14, <1>15 DEF Next
-----------------------------------------------------------------------------
(* The theorems. *)

LEMMA InitInv == Init => WorkersInv
<1> SUFFICES ASSUME Init PROVE WorkersInv
  OBVIOUS
<1>1. JobInit /\ worker = [w \in Workers |-> Idle] /\ decoder = {}
  BY DEF Init
<1>2. JobTypeOK /\ SlotDiscipline /\ BudgetDiscipline
  BY <1>1, JobsAtFirst
<1>3. WorkerInv
  BY <1>1, IdleTyped DEF WorkerInv, WorkerTyped, DecoderHasSlot, OneProcessPerAttempt,
                         WorkerDiscipline, At, Idle
<1> QED BY <1>2, <1>3, InvParts DEF JobInv

LEMMA StepInv == WorkersInv /\ [Next]_vars => WorkersInv'
<1> SUFFICES ASSUME WorkersInv, [Next]_vars PROVE WorkersInv'
  OBVIOUS
<1>1. JobInv' /\ Kept
  BY JobHalf
<1>2. WorkerInv'
  BY <1>1, WorkerHalf
<1>3. JobTypeOK' /\ SlotDiscipline' /\ BudgetDiscipline'
  BY <1>1 DEF JobInv
<1> QED BY <1>2, <1>3 DEF WorkersInv, WorkerInv, WorkerTyped, TypeOK

(* The inductive invariant holds in every reachable state: claim_run,       *)
(* begin_execution, acknowledge_stopped, the revocations and process_one    *)
(* keep slots, budgets and decoders consistent.                             *)
THEOREM InvariantHolds == Spec => []WorkersInv
BY InitInv, StepInv, PTL DEF Spec

(* Every row and every process stays well typed.                            *)
THEOREM TypeCorrect == Spec => []TypeOK
<1>1. WorkersInv => TypeOK
  BY DEF WorkersInv
<1> QED BY <1>1, InvariantHolds, PTL

(* Never more decoders than GLOBAL_ACTIVE_RUNS.                             *)
THEOREM PhysicalCapHolds == Spec => []PhysicalCap
<1>1. WorkersInv => PhysicalCap
  <2> SUFFICES ASSUME WorkersInv PROVE PhysicalCap
    OBVIOUS
  <2>1. decoder \subseteq OpenSlots
    BY DEF WorkersInv, TypeOK, DecoderHasSlot, Attempts, OpenSlots
  <2>2. /\ Cardinality(decoder) \in Nat
        /\ Cardinality(decoder) <= Cardinality(OpenSlots)
    BY <2>1, OpenSlotsFinite, FS_Subset, FS_CardinalityType
  <2>3. Cardinality(OpenSlots) <= ActiveLimit
    BY DEF WorkersInv, SlotDiscipline
  <2> QED BY <2>2, <2>3, OpenSlotsFinite, LimitAssumption DEF PhysicalCap
<1> QED BY <1>1, InvariantHolds, PTL

(* Never two decoders for one account.                                      *)
THEOREM OneDecoderPerOwnerHolds == Spec => []OneDecoderPerOwner
<1>1. WorkersInv => OneDecoderPerOwner
  <2> SUFFICES ASSUME WorkersInv PROVE OneDecoderPerOwner
    OBVIOUS
  <2>1. decoder \subseteq OpenSlots
    BY DEF WorkersInv, TypeOK, DecoderHasSlot, Attempts, OpenSlots
  <2> QED BY <2>1 DEF WorkersInv, SlotDiscipline, OneDecoderPerOwner
<1> QED BY <1>1, InvariantHolds, PTL

(* No slot is released under a decoder that may still run.                  *)
THEOREM DecoderHasSlotHolds == Spec => []DecoderHasSlot
<1>1. WorkersInv => DecoderHasSlot
  BY DEF WorkersInv
<1> QED BY <1>1, InvariantHolds, PTL

(* No attempt is ever entered by two processes.                             *)
THEOREM OneProcessPerAttemptHolds == Spec => []OneProcessPerAttempt
<1>1. WorkersInv => OneProcessPerAttempt
  BY DEF WorkersInv
<1> QED BY <1>1, InvariantHolds, PTL

(* No reservation is given back while the run can go on or executes.        *)
THEOREM BudgetHeldUntilStoppedHolds == Spec => []BudgetHeldUntilStopped
<1>1. WorkersInv => BudgetHeldUntilStopped
  <2> SUFFICES ASSUME WorkersInv, NEW r \in Runs, budget[r] = "closed"
               PROVE  /\ run[r].status \notin Pending
                      /\ ~HasOpenSlot(r)
                      /\ \A d \in decoder : d[1] # r
    BY DEF BudgetHeldUntilStopped
  <2>1. run[r].status \notin Pending /\ ~HasOpenSlot(r)
    BY DEF WorkersInv, BudgetDiscipline
  <2>2. \A d \in decoder : Open(d[1], d[2]) /\ d[2] \in Fences
    BY DEF WorkersInv, TypeOK, DecoderHasSlot, Attempts
  <2> QED BY <2>1, <2>2 DEF HasOpenSlot
<1> QED BY <1>1, InvariantHolds, PTL
=============================================================================
