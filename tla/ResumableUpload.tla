---------------------------- MODULE ResumableUpload ----------------------------
(***************************************************************************)
(* Upload sessions (backend/core/resumable.py) and the physical erasure of *)
(* their evidence (delete_asset in backend/core/storage.py).  A session    *)
(* reserves bytes before the storage is asked for an upload, is verified   *)
(* by a leased and fenced verifier, and is purged by whoever gets there:   *)
(* its owner, the sweeps, a failed verifier, or a later sweep after a      *)
(* crash.                                                                  *)
(*                                                                         *)
(* Every transaction takes the owner lock and is one action; what the code *)
(* reads before it, and every remote call, is a separate step.  A worker   *)
(* is any process in this code: a request, a sweep or a verifier.  Each    *)
(* may die between two steps.  Recording previews are not modelled: their  *)
(* sessions add derivative work to the purge.  The object store is         *)
(* external.                                                               *)
(***************************************************************************)
EXTENDS Naturals, FiniteSets

CONSTANTS
  Sessions,     \* UploadSession rows, each with the asset it reserves
  Owners,
  OwnerOf,      \* [Sessions -> Owners]
  Workers,
  Nobody,
  Provider,     \* RESUMABLE_STORAGE_PROVIDER
  UploadSlots,  \* GLOBAL_UPLOAD_SLOTS
  OwnerAssets,  \* assets of one size OWNER_STORAGE_BYTES has room for
  MaxAttempts,  \* claims of one verification, 3 in the code
  Requests      \* the interventions an instance explores

Interventions == {"CANCEL", "DELETE", "ACCOUNT", "WITHDRAW", "CRASH"}

ASSUME UploadAssumption ==
  /\ IsFiniteSet(Sessions) /\ OwnerOf \in [Sessions -> Owners]
  /\ Provider \in {"LOCAL", "GCS"}
  /\ Nobody \notin Workers
  /\ Requests \subseteq Interventions
  /\ UploadSlots \in Nat \ {0} /\ OwnerAssets \in Nat \ {0} /\ MaxAttempts \in Nat \ {0}

VARIABLES
  session, \* the row of each session and of its asset
  owner,   \* active and consenting
  store,   \* the object and the upload capability the store really has
  clock,   \* which deadlines of a session have passed
  worker,  \* what each process is doing, and what it has read
  asked    \* history: sessions somebody entitled to it asked to delete

vars == <<session, owner, store, clock, worker, asked>>

Pending == {"INITIALIZING", "UPLOADING", "VERIFYING", "PURGING"}
States == Pending \cup {"NONE", "COMPLETE", "CANCELLED"}

(* fence is the worker whose claim was the last to increment the counter,   *)
(* Nobody when another step was: a token is current while it is its own.    *)
(* link is ReplayAsset.upload_session, deadline tells whether               *)
(* upload_expires_at is set, waiting whether next_attempt_at lies ahead.    *)
SessionRow == [state : States, fence : Workers \cup {Nobody},
               lease : {"none", "live", "lapsed"}, attempts : 0..MaxAttempts,
               waiting : BOOLEAN, link : BOOLEAN, deadline : BOOLEAN,
               deleted : BOOLEAN, purged : BOOLEAN,
               run : {"none", "queued", "cancelled"}]
NewSession == [state |-> "NONE", fence |-> Nobody, lease |-> "none", attempts |-> 0,
               waiting |-> FALSE, link |-> FALSE, deadline |-> FALSE,
               deleted |-> FALSE, purged |-> FALSE, run |-> "none"]

(* seen, gone: the row as a sweep listed it; link, deadline: the asset as    *)
(* delete_asset loaded it; sweep: a failure is caught by reconcile_uploads. *)
WorkerRow == [pc : {"idle", "opening", "opened", "aborting", "listed", "reading", "matched",
                    "transient", "final", "deleting", "revoking", "sweeping", "closing",
                    "closed"},
              s : Sessions \cup {Nobody}, seen : States, gone : BOOLEAN,
              link : BOOLEAN, deadline : BOOLEAN, sweep : BOOLEAN]
Idle == [pc |-> "idle", s |-> Nobody, seen |-> "NONE", gone |-> FALSE,
         link |-> FALSE, deadline |-> FALSE, sweep |-> FALSE]
At(pc, s) == [Idle EXCEPT !.pc = pc, !.s = s]
Deleting(s, sweep) == [At("deleting", s) EXCEPT !.sweep = sweep]

TypeOK ==
  /\ session \in [Sessions -> SessionRow]
  /\ owner \in [Owners -> [active : BOOLEAN, consent : BOOLEAN]]
  /\ store \in [Sessions -> [object : {"absent", "empty", "part", "good", "bad"},
                             capability : {"none", "minted", "handed", "closed"}]]
  /\ clock \in [Sessions -> [expired : BOOLEAN, ended : BOOLEAN]]
  /\ worker \in [Workers -> WorkerRow]
  /\ asked \subseteq Sessions

Init ==
  /\ session = [s \in Sessions |-> NewSession]
  /\ owner = [o \in Owners |-> [active |-> TRUE, consent |-> TRUE]]
  /\ store = [s \in Sessions |-> [object |-> "absent", capability |-> "none"]]
  /\ clock = [s \in Sessions |-> [expired |-> FALSE, ended |-> FALSE]]
  /\ worker = [w \in Workers |-> Idle]
  /\ asked = {}
-----------------------------------------------------------------------------
Owner(s) == owner[OwnerOf[s]]
Permitted(s) == Owner(s).active /\ Owner(s).consent
Usable(s) ==
  /\ Permitted(s)
  /\ ~session[s].deleted
  /\ session[s].state \in {"UPLOADING", "VERIFYING"}
  /\ ~clock[s].expired
SessionsOf(o) == {s \in Sessions : OwnerOf[s] = o}
PendingSessions == {s \in Sessions : session[s].state \in Pending}
UnpurgedTransfersFault(o) == {s \in SessionsOf(o) : session[s].state \in Pending}
(* check_capacity counts every asset whose purge has not been completed.    *)
Unpurged(o) == {s \in SessionsOf(o) : session[s].state # "NONE" /\ ~session[s].purged}

(* mark_purging, and what delete_asset writes into the two rows.            *)
Purging(row) == [row EXCEPT !.state = "PURGING", !.fence = Nobody,
                            !.lease = "none", !.waiting = FALSE]
DeletedKeepsRunFault(row) ==
  [row EXCEPT !.state = "PURGING", !.fence = Nobody, !.lease = "none", !.deleted = TRUE]
Deleted(row) == [row EXCEPT !.state = "PURGING", !.fence = Nobody, !.lease = "none",
                            !.deleted = TRUE,
                            !.run = IF @ = "none" THEN @ ELSE "cancelled"]
Step(w, row) == worker' = [worker EXCEPT ![w] = row]
Moves(w, pc) == worker' = [worker EXCEPT ![w].pc = pc]
-----------------------------------------------------------------------------
AdmittedWhileOpeningFault(s) ==
  LET transfers == {t \in PendingSessions : session[t].state # "INITIALIZING"} IN
  /\ Permitted(s)
  /\ transfers \cap SessionsOf(OwnerOf[s]) = {}
  /\ Cardinality(transfers) < UploadSlots
  /\ Cardinality(Unpurged(OwnerOf[s])) < OwnerAssets

(* begin: admission under the capacity mutex and the reservation, committed *)
(* before the store is asked.                                               *)
Admitted(s) ==
  /\ Permitted(s)
  /\ PendingSessions \cap SessionsOf(OwnerOf[s]) = {}
  /\ Cardinality(PendingSessions) < UploadSlots
  /\ Cardinality(Unpurged(OwnerOf[s])) < OwnerAssets

Begin(w, s) ==
  /\ worker[w].pc = "idle"
  /\ session[s].state = "NONE"
  /\ Admitted(s)
  /\ session' = [session EXCEPT ![s].state = "INITIALIZING",
                                ![s].deadline = (Provider = "GCS")]
  /\ Step(w, At("opening", s))
  /\ UNCHANGED <<owner, store, clock, asked>>

(* The file is created, or the store mints a capability.  An answer may be  *)
(* lost after the store has acted.                                          *)
Open(w) ==
  LET s == worker[w].s IN
  /\ worker[w].pc = "opening"
  /\ store' = IF Provider = "LOCAL" THEN [store EXCEPT ![s].object = "empty"]
                                    ELSE [store EXCEPT ![s].capability = "minted"]
  /\ \/ Moves(w, "opened")
     \/ Provider = "GCS" /\ Moves(w, "aborting")
  /\ UNCHANGED <<session, owner, clock, asked>>

OpenFails(w) ==
  /\ worker[w].pc = "opening"
  /\ Moves(w, "aborting")
  /\ UNCHANGED <<session, owner, store, clock, asked>>

(* The receipt: the capability is always retained, the session is handed    *)
(* out only if nothing revoked it during the call.                          *)
RecordOpened(w) ==
  LET s == worker[w].s
      revoked == \/ session[s].state # "INITIALIZING"
                 \/ session[s].deleted
                 \/ ~Owner(s).active
      linked == [session[s] EXCEPT !.link = (Provider = "GCS")]
  IN
  /\ worker[w].pc = "opened"
  /\ \/ /\ revoked
        /\ session' = [session EXCEPT ![s] = linked]
        /\ Moves(w, "aborting")
        /\ UNCHANGED store
     \/ /\ ~revoked
        /\ session' = [session EXCEPT ![s] = [linked EXCEPT !.state = "UPLOADING"]]
        /\ store' = IF Provider = "GCS" THEN [store EXCEPT ![s].capability = "handed"]
                                        ELSE store
        /\ Step(w, Idle)
  /\ UNCHANGED <<owner, clock, asked>>

Abort(w) ==
  LET s == worker[w].s IN
  /\ worker[w].pc = "aborting"
  /\ session' = [session EXCEPT ![s] = Purging(@)]
  /\ Step(w, Deleting(s, FALSE))
  /\ UNCHANGED <<owner, store, clock, asked>>
-----------------------------------------------------------------------------
(* write_chunk holds the owner lock for the whole write and goes by the     *)
(* length of the file, so a torn chunk is the part that is there.  What is  *)
(* sent need not be what was declared.                                      *)
WriteChunk(s, object) ==
  /\ Provider = "LOCAL"
  /\ Usable(s) /\ session[s].state = "UPLOADING"
  /\ store[s].object \in {"empty", "part"}
  /\ store' = [store EXCEPT ![s].object = object]
  /\ UNCHANGED <<session, owner, clock, worker, asked>>

(* The client finalizes the object with the capability, whatever the        *)
(* session has become; the store takes one object per capability.           *)
ClientFinalizes(s, object) ==
  /\ store[s].capability = "handed"
  /\ ~clock[s].ended
  /\ store' = [store EXCEPT ![s] = [object |-> object, capability |-> "closed"]]
  /\ UNCHANGED <<session, owner, clock, worker, asked>>

(* request_completion.  The size is read before the transaction; while the  *)
(* session is UPLOADING it can only have grown.                             *)
RequestCompletion(s) ==
  /\ Usable(s) /\ session[s].state = "UPLOADING"
  /\ store[s].object \in {"good", "bad"}
  /\ session' = [session EXCEPT ![s].state = "VERIFYING"]
  /\ UNCHANGED <<owner, store, clock, worker, asked>>
-----------------------------------------------------------------------------
(* reconcile_uploads lists once and then works through the list; one entry  *)
(* of the list is followed, with the row as it was when it was listed.      *)
List(w, s) ==
  /\ worker[w].pc = "idle"
  /\ session[s].state \in Pending /\ ~session[s].waiting
  /\ \/ session[s].state \in {"VERIFYING", "PURGING"}
     \/ session[s].deleted \/ clock[s].expired \/ ~Owner(s).active
  /\ Step(w, [At("listed", s) EXCEPT !.seen = session[s].state, !.sweep = TRUE,
                !.gone = (session[s].deleted \/ ~Owner(s).active)])
  /\ UNCHANGED <<session, owner, store, clock, asked>>

RevocableWhenGoneFault(w) == worker[w].gone
Revocable(w) == worker[w].gone \/ clock[worker[w].s].expired
SweepRevokes(w) ==
  LET s == worker[w].s IN
  /\ worker[w].pc = "listed" /\ Revocable(w)
  /\ session' = [session EXCEPT ![s] = Purging(@)]
  /\ Step(w, Deleting(s, TRUE))
  /\ UNCHANGED <<owner, store, clock, asked>>

SweepPurges(w) ==
  /\ worker[w].pc = "listed" /\ ~Revocable(w)
  /\ worker[w].seen = "PURGING"
  /\ Step(w, Deleting(worker[w].s, TRUE))
  /\ UNCHANGED <<session, owner, store, clock, asked>>

(* verify: the claim.                                                       *)
Verifying(w) == worker[w].pc = "listed" /\ ~Revocable(w) /\ worker[w].seen = "VERIFYING"
ClaimFree(s) ==
  /\ session[s].state = "VERIFYING"
  /\ session[s].lease # "live"
  /\ ~session[s].waiting
AttemptsOffByOneFault(s) == session[s].attempts <= MaxAttempts
AttemptsLeft(s) == session[s].attempts < MaxAttempts

Claim(w) ==
  LET s == worker[w].s IN
  /\ Verifying(w) /\ ClaimFree(s) /\ Usable(s) /\ AttemptsLeft(s)
  /\ session' = [session EXCEPT ![s].fence = w, ![s].lease = "live", ![s].attempts = @ + 1]
  /\ Step(w, At("reading", s))
  /\ UNCHANGED <<owner, store, clock, asked>>

ClaimExhausted(w) ==
  LET s == worker[w].s IN
  /\ Verifying(w) /\ ClaimFree(s) /\ Usable(s) /\ ~AttemptsLeft(s)
  /\ session' = [session EXCEPT ![s] = Purging(@)]
  /\ Step(w, Idle)
  /\ UNCHANGED <<owner, store, clock, asked>>

(* Someone else has the claim, or the session can no longer be used: the    *)
(* exception reaches the sweep, which delays a session that is pending.     *)
ClaimRefused(w) ==
  LET s == worker[w].s IN
  /\ Verifying(w) /\ ~(ClaimFree(s) /\ Usable(s))
  /\ session' = IF ClaimFree(s) THEN [session EXCEPT ![s].waiting = TRUE] ELSE session
  /\ Step(w, Idle)
  /\ UNCHANGED <<owner, store, clock, asked>>

(* Reading and hashing, outside any transaction.  The periodic check and    *)
(* the deadline end it for good; the store may fail to answer.              *)
Authorized(w) ==
  LET s == worker[w].s IN
  Usable(s) /\ session[s].state = "VERIFYING" /\ session[s].fence = w
MatchesBySizeFault(s) == store[s].object \in {"good", "bad"}
Matches(s) == store[s].object = "good"
Read(w) ==
  LET s == worker[w].s IN
  /\ worker[w].pc = "reading"
  /\ \/ Authorized(w) /\ Matches(s) /\ Moves(w, "matched")
     \/ Authorized(w) /\ ~Matches(s)
        /\ Moves(w, IF Provider = "LOCAL" /\ store[s].object = "absent" THEN "transient"
                                                                       ELSE "final")
     \/ (~Authorized(w) \/ session[s].lease # "live") /\ Moves(w, "final")
     \/ Moves(w, "transient")
  /\ UNCHANGED <<session, owner, store, clock, asked>>

(* The publication, in one transaction with everything it has to check.     *)
Publishable(w) ==
  LET s == worker[w].s IN
  Usable(s) /\ session[s].fence = w /\ session[s].lease = "live"
Publish(w) ==
  LET s == worker[w].s IN
  /\ worker[w].pc = "matched" /\ Publishable(w)
  /\ session' = [session EXCEPT ![s].state = "COMPLETE", ![s].lease = "none",
                   ![s].link = FALSE, ![s].deadline = FALSE, ![s].run = "queued"]
  /\ Step(w, Idle)
  /\ UNCHANGED <<owner, store, clock, asked>>

(* Not publishable; or the same bytes, or another recording of the match,   *)
(* exist already; or the analysis quota is used up.                         *)
PublishRefused(w) ==
  /\ worker[w].pc = "matched"
  /\ \/ Moves(w, "final")
     \/ Publishable(w) /\ Moves(w, "transient")
  /\ UNCHANGED <<session, owner, store, clock, asked>>

SettleAnyFenceFault(w) ==
  LET s == worker[w].s
      retry == worker[w].pc = "transient" /\ AttemptsLeft(s)
  IN
  /\ worker[w].pc \in {"transient", "final"}
  /\ session' = [session EXCEPT ![s] =
       IF retry THEN [@ EXCEPT !.lease = "none", !.waiting = TRUE] ELSE Purging(@)]
  /\ Step(w, IF retry THEN Idle ELSE Deleting(s, FALSE))
  /\ UNCHANGED <<owner, store, clock, asked>>

Settle(w) ==
  LET s == worker[w].s
      current == session[s].state = "VERIFYING" /\ session[s].fence = w
      retry == worker[w].pc = "transient" /\ AttemptsLeft(s)
  IN
  /\ worker[w].pc \in {"transient", "final"}
  /\ \/ ~current /\ Step(w, Idle) /\ UNCHANGED session
     \/ /\ current /\ retry
        /\ session' = [session EXCEPT ![s].lease = "none", ![s].waiting = TRUE]
        /\ Step(w, Idle)
     \/ /\ current /\ ~retry
        /\ session' = [session EXCEPT ![s] = Purging(@)]
        /\ Step(w, Deleting(s, FALSE))
  /\ UNCHANGED <<owner, store, clock, asked>>
-----------------------------------------------------------------------------
(* delete_asset: a transaction, then the remote erasure with the asset as   *)
(* it was loaded, then two updates that commit one after the other.         *)
DeleteCommits(w) ==
  LET s == worker[w].s IN
  /\ worker[w].pc = "deleting"
  /\ session' = [session EXCEPT ![s] = Deleted(@)]
  /\ Step(w, [worker[w] EXCEPT !.pc = "revoking", !.link = session[s].link,
                               !.deadline = session[s].deadline])
  /\ UNCHANGED <<owner, store, clock, asked>>

CancelUpload(w) ==
  /\ worker[w].pc = "revoking"
  /\ store' = IF worker[w].link THEN [store EXCEPT ![worker[w].s].capability = "closed"]
                                ELSE store
  /\ Moves(w, "sweeping")
  /\ UNCHANGED <<session, owner, clock, asked>>

SweepPrefix(w) ==
  /\ worker[w].pc = "sweeping"
  /\ store' = [store EXCEPT ![worker[w].s].object = "absent"]
  /\ Moves(w, "closing")
  /\ UNCHANGED <<session, owner, clock, asked>>

CapabilityByFreshRowFault(w) ==
  LET s == worker[w].s IN session[s].deadline /\ ~session[s].link /\ ~clock[s].ended
CapabilityForEverFault(w) == worker[w].deadline /\ ~worker[w].link
(* An upload whose capability was never learnt may still be finalized until *)
(* the deadline.                                                            *)
CapabilityMayLive(w) == worker[w].deadline /\ ~worker[w].link /\ ~clock[worker[w].s].ended
FailedDelete(w) ==
  LET s == worker[w].s IN
  /\ session' = IF worker[w].sweep /\ session[s].state \in Pending
                THEN [session EXCEPT ![s].waiting = TRUE] ELSE session
  /\ Step(w, Idle)
DeletePends(w) ==
  /\ worker[w].pc = "closing" /\ CapabilityMayLive(w)
  /\ FailedDelete(w)
  /\ UNCHANGED <<owner, store, clock, asked>>
DeleteFails(w) ==
  /\ worker[w].pc \in {"revoking", "sweeping"}
  /\ FailedDelete(w)
  /\ UNCHANGED <<owner, store, clock, asked>>

RecordPurge(w) ==
  LET s == worker[w].s IN
  /\ worker[w].pc = "closing" /\ ~CapabilityMayLive(w)
  /\ session' = [session EXCEPT ![s].link = FALSE, ![s].deadline = FALSE, ![s].purged = TRUE]
  /\ Moves(w, "closed")
  /\ UNCHANGED <<owner, store, clock, asked>>

RecordCancelled(w) ==
  /\ worker[w].pc = "closed"
  /\ session' = [session EXCEPT ![worker[w].s].state = "CANCELLED"]
  /\ Step(w, Idle)
  /\ UNCHANGED <<owner, store, clock, asked>>
-----------------------------------------------------------------------------
(* cancel: refused for a COMPLETE session under the lock.  The state that   *)
(* spares a CANCELLED one was read before it.                               *)
Cancellable(s) == session[s].state \notin {"NONE", "COMPLETE"}
Cancel(w, s) ==
  /\ "CANCEL" \in Requests
  /\ worker[w].pc = "idle"
  /\ Cancellable(s)
  /\ session' = [session EXCEPT ![s] = Purging(@)]
  /\ Step(w, Deleting(s, FALSE))
  /\ UNCHANGED <<owner, store, clock, asked>>

(* The owner deletes the evidence, or its retention ends.                   *)
DeleteEvidence(w, s) ==
  /\ "DELETE" \in Requests
  /\ worker[w].pc = "idle"
  /\ session[s].state # "NONE"
  /\ asked' = asked \cup {s}
  /\ Step(w, Deleting(s, FALSE))
  /\ UNCHANGED <<session, owner, store, clock>>

(* purge_expired goes on with every tombstone that is not purged.           *)
PurgeTombstone(w, s) ==
  /\ worker[w].pc = "idle"
  /\ session[s].deleted /\ ~session[s].purged
  /\ Step(w, Deleting(s, FALSE))
  /\ UNCHANGED <<session, owner, store, clock, asked>>

(* delete_account tombstones every asset and leaves the sessions; the       *)
(* deletions that follow are those of purge_expired.                        *)
DeleteAccount(o) ==
  /\ "ACCOUNT" \in Requests
  /\ owner[o].active
  /\ owner' = [owner EXCEPT ![o].active = FALSE]
  /\ session' = [s \in Sessions |->
       IF s \in SessionsOf(o) /\ session[s].state # "NONE"
       THEN [session[s] EXCEPT !.deleted = TRUE, !.run = IF @ = "none" THEN @ ELSE "cancelled"]
       ELSE session[s]]
  /\ asked' = asked \cup SessionsOf(o)
  /\ UNCHANGED <<store, clock, worker>>

(* record_consent: withdrawal revokes what is pending and no completed      *)
(* capture.  (Deletion of a match and revocation of a device do the same to *)
(* the sessions they name.)                                                 *)
StopQueued(row) == [row EXCEPT !.run = IF @ = "queued" THEN "cancelled" ELSE @]
Withdrawn(row) == [StopQueued(row) EXCEPT !.state = "PURGING", !.fence = Nobody,
                                          !.lease = "none", !.deleted = TRUE]
WithdrawProcessing(o) ==
  /\ "WITHDRAW" \in Requests
  /\ owner[o].active /\ owner[o].consent
  /\ owner' = [owner EXCEPT ![o].consent = FALSE]
  /\ session' = [s \in Sessions |->
       IF s \notin SessionsOf(o) THEN session[s]
       ELSE IF session[s].state \in Pending THEN Withdrawn(session[s])
       ELSE StopQueued(session[s])]
  /\ UNCHANGED <<store, clock, worker, asked>>
GrantProcessing(o) ==
  /\ "WITHDRAW" \in Requests
  /\ owner[o].active /\ ~owner[o].consent
  /\ owner' = [owner EXCEPT ![o].consent = TRUE]
  /\ UNCHANGED <<session, store, clock, worker, asked>>
-----------------------------------------------------------------------------
(* Time, and processes that die.  The capability's deadline is seven days   *)
(* and ten minutes after the reservation, the session's one hour: no call   *)
(* of begin is still under way at the later one.                            *)
SessionExpires(s) ==
  /\ session[s].state # "NONE" /\ ~clock[s].expired
  /\ clock' = [clock EXCEPT ![s].expired = TRUE]
  /\ UNCHANGED <<session, owner, store, worker, asked>>
CapabilityEnds(s) ==
  /\ clock[s].expired /\ ~clock[s].ended
  /\ \A w \in Workers : ~(worker[w].s = s /\ worker[w].pc \in {"opening", "opened"})
  /\ clock' = [clock EXCEPT ![s].ended = TRUE]
  /\ UNCHANGED <<session, owner, store, worker, asked>>
LeaseLapses(s) ==
  /\ session[s].lease = "live"
  /\ session' = [session EXCEPT ![s].lease = "lapsed"]
  /\ UNCHANGED <<owner, store, clock, worker, asked>>
DelayEnds(s) ==
  /\ session[s].waiting
  /\ session' = [session EXCEPT ![s].waiting = FALSE]
  /\ UNCHANGED <<owner, store, clock, worker, asked>>

Crash(w) ==
  /\ "CRASH" \in Requests
  /\ worker[w].pc # "idle"
  /\ Step(w, Idle)
  /\ UNCHANGED <<session, owner, store, clock, asked>>
-----------------------------------------------------------------------------
Proceed(w) ==
  \/ Open(w) \/ RecordOpened(w) \/ Abort(w)
  \/ SweepRevokes(w) \/ SweepPurges(w) \/ Claim(w) \/ ClaimExhausted(w) \/ ClaimRefused(w)
  \/ Read(w) \/ Publish(w) \/ PublishRefused(w) \/ Settle(w)
  \/ DeleteCommits(w) \/ CancelUpload(w) \/ SweepPrefix(w)
  \/ DeletePends(w) \/ RecordPurge(w) \/ RecordCancelled(w)

Elapse(s) == SessionExpires(s) \/ CapabilityEnds(s) \/ LeaseLapses(s) \/ DelayEnds(s)

Next ==
  \/ \E w \in Workers :
       \/ Proceed(w) \/ OpenFails(w) \/ DeleteFails(w) \/ Crash(w)
       \/ \E s \in Sessions :
            \/ Begin(w, s) \/ List(w, s) \/ Cancel(w, s)
            \/ DeleteEvidence(w, s) \/ PurgeTombstone(w, s)
  \/ \E s \in Sessions :
       \/ \E object \in {"part", "good", "bad"} : WriteChunk(s, object)
       \/ \E object \in {"good", "bad"} : ClientFinalizes(s, object)
       \/ RequestCompletion(s)
       \/ Elapse(s)
  \/ \E o \in Owners : DeleteAccount(o) \/ WithdrawProcessing(o) \/ GrantProcessing(o)

Spec == Init /\ [][Next]_vars

(* The sweeps run again and again, time passes, and from some moment on     *)
(* neither the store nor the processes fail any more.  Clients, owners and  *)
(* refusals are given no fairness.                                          *)
Failure == \E w \in Workers : DeleteFails(w) \/ Crash(w)
FairSpec ==
  /\ Spec
  /\ <>[][~Failure]_vars
  /\ \A w \in Workers : WF_vars(Proceed(w))
  /\ \A s \in Sessions :
       /\ WF_vars(SessionExpires(s)) /\ WF_vars(CapabilityEnds(s))
       /\ WF_vars(LeaseLapses(s)) /\ WF_vars(DelayEnds(s))
       /\ WF_vars(\E w \in Workers : List(w, s))
       /\ WF_vars(\E w \in Workers : PurgeTombstone(w, s))
-----------------------------------------------------------------------------
HasBytes(s) == store[s].object \in {"part", "good", "bad"}
UploadPossible(s) == store[s].capability \in {"minted", "handed"} /\ ~clock[s].ended
Transferring == {s \in Sessions : session[s].state \in {"INITIALIZING", "UPLOADING", "VERIFYING"}}
Evidence(s) == session[s].state = "COMPLETE" /\ ~session[s].deleted

(* An owner has at most one transfer and all owners together at most        *)
(* GLOBAL_UPLOAD_SLOTS, although sessions end, fail and are purged by       *)
(* several processes at once (begin's admission).                           *)
SlotsRespected ==
  /\ Cardinality(Transferring) <= UploadSlots
  /\ \A s, t \in Transferring : OwnerOf[s] = OwnerOf[t] => s = t

(* What physically lies in the store never exceeds an owner's quota: space  *)
(* is given back only when the bytes are gone and cannot come back          *)
(* (check_capacity, purge_completed_at).                                    *)
StoreWithinQuota ==
  \A o \in Owners : Cardinality({s \in SessionsOf(o) : HasBytes(s)}) <= OwnerAssets

(* Slots and bytes stay within their limits although purges overlap new     *)
(* reservations.                                                            *)
LimitsRespected == SlotsRespected /\ StoreWithinQuota

(* A purge that is on record is true: no bytes are stored and no capability *)
(* can still finalize an object, whichever way deletion, begin's receipt    *)
(* and the client's upload overtook each other (delete_asset).              *)
PurgedMeansGone ==
  \A s \in Sessions :
    session[s].purged \/ session[s].state = "CANCELLED" => ~HasBytes(s) /\ ~UploadPossible(s)

(* A session is COMPLETE only with the declared bytes in the store and with *)
(* no capability left that could change them (verify).                      *)
VerifiedEvidence ==
  \A s \in Sessions :
    Evidence(s) => store[s].object = "good" /\ ~UploadPossible(s) /\ ~session[s].purged

(* An analysis that may start has its evidence: every way of erasing the    *)
(* bytes cancels the run first (delete_asset, delete_account).              *)
RunHasEvidence ==
  \A s \in Sessions :
    session[s].run = "queued" => store[s].object = "good" /\ ~session[s].deleted

(* What the rows say of the store is true: of an erasure, of a completed    *)
(* capture and of an analysis that may start.                               *)
EvidenceSound == TypeOK /\ PurgedMeansGone /\ VerifiedEvidence /\ RunHasEvidence

(* Once a capture is complete, no verifier, no cancellation and no failing  *)
(* begin takes it away, however late they act: only a deletion somebody     *)
(* asked for does, or a sweep that works from an old list (verify's stale   *)
(* check, cancel's allow_complete).                                         *)
EvidenceOutlivesVerifiers ==
  [][\A s \in Sessions : Evidence(s) /\ ~Evidence(s)' =>
       \/ s \in asked'
       \/ \E w \in Workers : worker[w].s = s /\ worker[w].pc = "listed"
                            /\ worker[w].seen = "VERIFYING" /\ clock[s].expired]_vars

(* docs/architecture/evidence-storage.md: expiry revokes pending uploads,   *)
(* completed captures use existing asset deletion.  reconcile_uploads       *)
(* compares the expiry of a session it listed as VERIFYING and purges it    *)
(* although another verifier has completed it.                              *)
CompletedEvidenceKept ==
  [][\A s \in Sessions : Evidence(s) /\ ~Evidence(s)' => s \in asked']_vars

(* Every session is completed or physically cancelled, whatever crashes,    *)
(* failures and revocations it meets (reconcile_uploads).                   *)
SessionSettles ==
  \A s \in Sessions :
    session[s].state \in Pending ~> session[s].state \in {"COMPLETE", "CANCELLED"}

(* Deleted evidence is erased in the end, also when the deletion was        *)
(* interrupted or the capability was never learnt (purge_expired).          *)
ErasureCompletes ==
  \A s \in Sessions : session[s].deleted ~> session[s].purged /\ ~HasBytes(s)
=============================================================================
