---------------------------- MODULE LocalWorkers ----------------------------
(***************************************************************************)
(* The local execution of analysis runs: the processes of the process_runs *)
(* command and the isolated decoders they start, around the transactions   *)
(* of RunJobs, with everything that may happen between two of them: the    *)
(* owner cancels, withdraws or deletes, a lease runs out, a process dies,  *)
(* a cleanup is not confirmed, an operator confirms a stop.                *)
(*                                                                         *)
(* A decoder is the physical work the slots are there to bound.  It is not *)
(* visible to any transaction: it may outlive the process that started it, *)
(* the lease and the run.                                                  *)
(***************************************************************************)
EXTENDS RunJobs

CONSTANTS
  Pollers,     \* process_runs without --run-id: claims what is queued
  Dispatched,  \* process_runs --run-id --fence: one exact attempt, perhaps delivered twice
  NoRun,
  Requests     \* the interventions the instance explores

ASSUME WorkerAssumption == NoRun \notin Runs /\ Requests \subseteq Interventions

VARIABLES
  worker,  \* where each process is in process_one, and with what
  decoder  \* attempts whose isolated decoder may be running

vars == <<run, slot, budget, dispatch, asset, owner, worker, decoder>>

Workers == Pollers \cup Dispatched
Attempts == Runs \X Fences
-----------------------------------------------------------------------------
Idle == [pc |-> "idle", run |-> NoRun, fence |-> 0, stopped |-> FALSE, report |-> "FAILED"]

WorkerRow == [pc : {"idle", "claimed", "decoding", "finish", "refused", "ack"},
              run : Runs \cup {NoRun}, fence : 0..MaxFence,
              stopped : BOOLEAN, report : Published]

TypeOK ==
  /\ JobTypeOK
  /\ worker \in [Workers -> WorkerRow]
  /\ \A w \in Workers : worker[w].pc # "idle" =>
       worker[w].run \in Runs /\ worker[w].fence \in Fences
  /\ decoder \subseteq Attempts

Init ==
  /\ JobInit
  /\ worker = [w \in Workers |-> Idle]
  /\ decoder = {}

At(w, pc) == worker[w].pc = pc
Attempt(w) == <<worker[w].run, worker[w].fence>>
Decoding(r, f) == \E w \in Workers : At(w, "decoding") /\ Attempt(w) = <<r, f>>
-----------------------------------------------------------------------------
(* process_batch, one run: claim it and enter process_one with the token.   *)
Claim(w, r) ==
  /\ w \in Pollers /\ At(w, "idle")
  /\ ClaimGranted(r)
  /\ worker' = [worker EXCEPT ![w] = [Idle EXCEPT !.pc = "claimed", !.run = r,
                                                  !.fence = run[r].fence + 1]]
  /\ UNCHANGED decoder

(* process_batch, one run: claim_run returns None but has written.          *)
ClaimDenied(r) ==
  /\ \E w \in Pollers : At(w, "idle")
  /\ ClaimUnbudgeted(r) \/ ClaimExhausted(r) \/ ClaimDeferred(r)
  /\ UNCHANGED <<worker, decoder>>

(* process_runs --run-id --fence for an attempt that was claimed: by hand,  *)
(* or by a transport that delivers twice.                                   *)
Deliver(w, r, f) ==
  /\ w \in Dispatched /\ At(w, "idle")
  /\ slot[r][f].state # "none"
  /\ worker' = [worker EXCEPT ![w] = [Idle EXCEPT !.pc = "claimed", !.run = r,
                                                  !.fence = f]]
  /\ UNCHANGED <<jobVars, decoder>>

(* process_one enters the attempt and the decoder may start from here on.   *)
Begin(w) ==
  /\ At(w, "claimed")
  /\ BeginExecution(worker[w].run, worker[w].fence)
  /\ worker' = [worker EXCEPT ![w].pc = "decoding"]
  /\ decoder' = decoder \cup {Attempt(w)}

(* process_one returns at once: nobody acknowledges the slot.               *)
BeginDenied(w) ==
  /\ At(w, "claimed")
  /\ BeginRefused(worker[w].run, worker[w].fence)
  /\ worker' = [worker EXCEPT ![w] = Idle]
  /\ UNCHANGED decoder

(* The decoder is gone and process_one has a report: of the decoder, of its *)
(* failure, or RUN_REVOKED from a heartbeat that was refused.               *)
DecoderEnds(w, report) ==
  /\ At(w, "decoding")
  /\ worker' = [worker EXCEPT ![w].pc = "finish", ![w].stopped = TRUE,
                              ![w].report = report]
  /\ decoder' = decoder \ {Attempt(w)}
  /\ UNCHANGED jobVars

CleanupAssumedFault(w) ==
  /\ At(w, "decoding")
  /\ worker' = [worker EXCEPT ![w].pc = "finish", ![w].stopped = TRUE,
                              ![w].report = "FAILED"]
  /\ UNCHANGED <<jobVars, decoder>>

(* PARSER_CLEANUP_UNCONFIRMED: the container may still be there.            *)
CleanupUnconfirmed(w) ==
  /\ At(w, "decoding")
  /\ worker' = [worker EXCEPT ![w].pc = "finish", ![w].report = "FAILED"]
  /\ UNCHANGED <<jobVars, decoder>>

Finish(w) ==
  /\ At(w, "finish")
  /\ FinishRun(worker[w].run, worker[w].fence, worker[w].report)
  /\ worker' = [worker EXCEPT ![w].pc = "ack"]
  /\ UNCHANGED decoder

FinishRefused(w) ==
  /\ At(w, "finish")
  /\ ~Current(worker[w].run, worker[w].fence)
  /\ worker' = [worker EXCEPT ![w].pc = "refused"]
  /\ UNCHANGED <<jobVars, decoder>>

(* finish_run raises SOURCE_HASH_CHANGED (or record_attempt fails before    *)
(* it): the transaction is rolled back, the finally clause still runs.      *)
FinishRaises(w) ==
  /\ At(w, "finish")
  /\ worker' = [worker EXCEPT ![w].pc = "ack"]
  /\ UNCHANGED <<jobVars, decoder>>

(* A refused report of evidence that was deleted purges it once more; the   *)
(* purge may fail before its transaction commits.                           *)
Refused(w) ==
  LET a == AssetOf[worker[w].run] IN
  /\ At(w, "refused")
  /\ \/ asset[a] = "deleted" /\ DeleteAsset(a)
     \/ UNCHANGED jobVars
  /\ worker' = [worker EXCEPT ![w].pc = "ack"]
  /\ UNCHANGED decoder

AcknowledgeUnconfirmedFault(w) ==
  /\ At(w, "ack")
  /\ AcknowledgeStopped(worker[w].run, worker[w].fence)
  /\ worker' = [worker EXCEPT ![w] = Idle]
  /\ UNCHANGED decoder

(* The finally clause: only a confirmed stop releases the slot.             *)
Acknowledge(w) ==
  /\ At(w, "ack")
  /\ IF worker[w].stopped
     THEN AcknowledgeStopped(worker[w].run, worker[w].fence)
     ELSE UNCHANGED jobVars
  /\ worker' = [worker EXCEPT ![w] = Idle]
  /\ UNCHANGED decoder

(* The process dies.  Its decoder, if it has one, does not.                 *)
Crash(w) ==
  /\ ~At(w, "idle")
  /\ worker' = [worker EXCEPT ![w] = Idle]
  /\ UNCHANGED <<jobVars, decoder>>
-----------------------------------------------------------------------------
(* A decoder that no process waits for comes to its own end. *)
DecoderExits(r, f) ==
  /\ <<r, f>> \in decoder
  /\ ~Decoding(r, f)
  /\ decoder' = decoder \ {<<r, f>>}
  /\ UNCHANGED <<jobVars, worker>>

(* reconcile_runs --confirmed-stopped-run --fence, after the operator has   *)
(* verified that no decoder of this attempt runs.  The process that claimed *)
(* the attempt may still be alive.                                          *)
OperatorConfirms(r, f) ==
  /\ Open(r, f)
  /\ <<r, f>> \notin decoder
  /\ AcknowledgeStopped(r, f)
  /\ UNCHANGED <<worker, decoder>>

(* purge_expired takes what is past its retention or already a tombstone.   *)
PurgeExpired(a) ==
  /\ asset[a] # "live"
  /\ DeleteAsset(a)
  /\ UNCHANGED <<worker, decoder>>

(* What a live process does next inside process_one. *)
Proceed(w) ==
  \/ Begin(w) \/ BeginDenied(w)
  \/ \E report \in Published : DecoderEnds(w, report)
  \/ CleanupUnconfirmed(w)
  \/ Finish(w) \/ FinishRefused(w) \/ FinishRaises(w)
  \/ Refused(w) \/ Acknowledge(w)

Next ==
  \/ \E w \in Workers :
       \/ \E r \in Runs : Claim(w, r)
       \/ \E r \in Runs, f \in Fences : Deliver(w, r, f)
       \/ Proceed(w)
       \/ Crash(w)
  \/ \E r \in Runs : ClaimDenied(r)
  \/ \E r \in Runs, f \in Fences : DecoderExits(r, f) \/ OperatorConfirms(r, f)
  \/ \E a \in Assets : PurgeExpired(a)
  \/ /\ Reconcile \/ OwnerActs(Requests) \/ ClockTicks(Requests)
     /\ UNCHANGED <<worker, decoder>>

Spec == Init /\ [][Next]_vars

(* A live process goes on; the polling loop comes round every two seconds   *)
(* with its claims and its reconciliation, and purge_expired is a periodic  *)
(* job.  A decoder is bounded by its own timeout.  The operator of the      *)
(* deployment resolves every slot that no process will release.  Nothing is *)
(* assumed of the owner, of the clock, or of crashes.                       *)
Fairness ==
  /\ \A w \in Workers : WF_vars(Proceed(w))
  /\ \A r \in Runs : WF_vars(ClaimDenied(r) \/ \E w \in Pollers : Claim(w, r))
  /\ \A r \in Runs : WF_vars(ReconcileSettle(r) /\ UNCHANGED <<worker, decoder>>)
  /\ \A a \in Assets : WF_vars(PurgeExpired(a))
  /\ \A r \in Runs, f \in Fences :
       WF_vars(DecoderExits(r, f)) /\ WF_vars(OperatorConfirms(r, f))

FairSpec == Spec /\ Fairness
-----------------------------------------------------------------------------
(* The promise of the slots, in physical terms: no more decoders than       *)
(* GLOBAL_ACTIVE_RUNS, whatever crashed, expired, was cancelled or requeued *)
(* in between.  claim_run counts rows and never sees a decoder.             *)
PhysicalCap == Cardinality(decoder) <= ActiveLimit

(* One account never occupies two decoders, even across two of its runs or  *)
(* two attempts of one run.                                                 *)
OneDecoderPerOwner ==
  \A d, e \in decoder : Owner(d[1]) = Owner(e[1]) => d = e

(* acknowledge_stopped is never called for an attempt whose decoder may     *)
(* still run: every decoder has its own unreleased slot.                    *)
DecoderHasSlot ==
  \A d \in decoder : Open(d[1], d[2]) /\ slot[d[1]][d[2]].started

(* begin_execution lets one process into an attempt, however often the      *)
(* attempt is delivered.                                                    *)
OneProcessPerAttempt ==
  \A v, w \in Workers :
    At(v, "decoding") /\ At(w, "decoding") /\ Attempt(v) = Attempt(w) => v = w

(* RUN_MAX_ATTEMPTS bounds the executions a run is ever given, counted by   *)
(* the slots that were created for it and not by the counter.               *)
ExecutionsBounded ==
  \A r \in Runs : Cardinality({f \in Fences : slot[r][f].state # "none"}) <= MaxAttempts

(* "Physical work cannot refund itself early" (budgets.py): a reservation   *)
(* is settled only when the run cannot go on and nothing of it executes.    *)
BudgetHeldUntilStopped ==
  \A r \in Runs : budget[r] = "closed" =>
    /\ run[r].status \notin Pending
    /\ ~HasOpenSlot(r)
    /\ \A d \in decoder : d[1] # r

(* What the processes rest on: one that decodes owns a decoder, and one      *)
(* that knows its decoder stopped entered its attempt, which nobody can     *)
(* enter again.                                                             *)
WorkerDiscipline ==
  /\ \A w \in Workers : At(w, "decoding") => Attempt(w) \in decoder
  /\ \A w \in Workers : worker[w].stopped =>
       /\ worker[w].pc \in {"finish", "refused", "ack"}
       /\ slot[worker[w].run][worker[w].fence].state # "none"
       /\ slot[worker[w].run][worker[w].fence].started
       /\ Attempt(w) \notin decoder

(* The inductive invariant of the specification: claim_run's counting of    *)
(* rows, acknowledge_stopped's release and the finally clause of            *)
(* process_one agree on what may still execute.                             *)
WorkersInv ==
  /\ TypeOK
  /\ SlotDiscipline
  /\ BudgetDiscipline
  /\ DecoderHasSlot
  /\ OneProcessPerAttempt
  /\ WorkerDiscipline

(* A published report is the report of the run's last attempt, and of one   *)
(* that was really entered: a process whose attempt was given up and        *)
(* requeued cannot publish over, or in place of, its successor.             *)
ResultIsCurrent ==
  \A r \in Runs : run[r].result # 0 =>
    /\ run[r].result = run[r].fence
    /\ run[r].status \in Published
    /\ slot[r][run[r].result].started

(* Withdrawal of processing consent and account deletion leave nothing      *)
(* behind that a later claim, a requeue or a renewed consent could start.   *)
NothingPendingWithoutConsent ==
  \A r \in Runs : owner[Owner(r)] # "active" => run[r].status \notin Pending

(* Nothing derived from deleted evidence remains or can come back.          *)
DeletedEvidenceHasNoResult ==
  \A r \in Runs : asset[AssetOf[r]] = "deleted" /\ HasRow(r) =>
    run[r].status = "CANCELLED" /\ run[r].result = 0

(* What a run's row may say after revocations and refused or repeated       *)
(* executions.                                                              *)
RecordsSound ==
  /\ ExecutionsBounded
  /\ ResultIsCurrent
  /\ NothingPendingWithoutConsent
  /\ DeletedEvidenceHasNoResult

(* No step of any process resurrects a cancelled run: not the requeue of a  *)
(* late acknowledgement, not a report, not a claim.                         *)
CancellationIsFinal ==
  [][\A r \in Runs : run[r].status = "CANCELLED" => run'[r].status = "CANCELLED"]_vars

(* Every run that was accepted ends and gives its reservation back.         *)
EveryRunEnds ==
  \A r \in Runs :
    run[r].status \in Pending ~> run[r].status \notin Pending /\ budget[r] # "open"

(* The promise of FencedExecution, with unreleased slots as held tokens.    *)
Phase(r) ==
  CASE run[r].status = "ABSENT" -> "new"
    [] run[r].status = "QUEUED" -> "waiting"
    [] run[r].status = "PROCESSING" -> "running"
    [] run[r].status \in Published -> "done"
    [] OTHER -> "revoked"

Abstract == INSTANCE FencedExecution WITH
  Tokens <- Fences,
  Limit <- ActiveLimit,
  OwnerOf <- Owner,
  phase <- [r \in Runs |-> Phase(r)],
  granted <- [r \in Runs |-> {f \in Fences : slot[r][f].state # "none"}],
  held <- OpenSlots,
  result <- [r \in Runs |-> run[r].result]

ImplementsFencedExecution == Abstract!Spec
=============================================================================
