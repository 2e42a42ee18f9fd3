----------------------------- MODULE Admissions -----------------------------
(***************************************************************************)
(* Admission of multipart uploads and the daily processing budget (backend *)
(* /core/security.py, budgets.py, uploads.py, api.upload): an upload       *)
(* reserves its place before its body is read, stores the recording with   *)
(* its analysis in one transaction and gives the place back; an analysis   *)
(* reserves every attempt it may need and is charged, on the day it is     *)
(* settled, for those it took.  Every step holds the capacity mutex.       *)
(***************************************************************************)
EXTENDS Naturals, FiniteSets, Folds

CONSTANTS Requests,         \* the uploads
          Owner,            \* who sends each of them
          MaxUpload, OwnerStorage, GlobalStorage, UploadSlots,
          OwnerPending, GlobalPending,      \* runs queued or processing
          Attempt, MaxAttempts,             \* RUN_DEADLINE_SECONDS, RUN_MAX_ATTEMPTS
          OwnerSeconds, GlobalSeconds,      \* processing seconds of a day
          Overrun,          \* what clean-up adds to a measured attempt
          MaxDay            \* bound: the days

VARIABLES day,
          admission,    \* UploadAdmission: "none", "live" or "expired"
          asset,        \* "none", "kept", "deleted" (its bytes remain) or "purged"
          bytes,        \* what the recording takes
          run,          \* its analysis
          budget        \* RunBudget of the analysis

vars == <<day, admission, asset, bytes, run, budget>>

Owners == {Owner[q] : q \in Requests}
NoRun == [status |-> "none", attempts |-> 0, slot |-> FALSE, spent |-> 0]
NoBudget == [state |-> "none", day |-> 0, charged |-> 0]

Init ==
    /\ day = 0
    /\ admission = [q \in Requests |-> "none"]
    /\ asset = [q \in Requests |-> "none"]
    /\ bytes = [q \in Requests |-> 0]
    /\ run = [q \in Requests |-> NoRun]
    /\ budget = [q \in Requests |-> NoBudget]

Total(f, S) == MapThenFoldSet(+, 0, LAMBDA q : f[q], LAMBDA T : CHOOSE q \in T : TRUE, S)

(* What an owner, or everybody, is held to.                                *)
Scopes == {[of |-> {q \in Requests : Owner[q] = o}, storage |-> OwnerStorage,
            seconds |-> OwnerSeconds, pending |-> OwnerPending] : o \in Owners}
          \cup {[of |-> Requests, storage |-> GlobalStorage,
                 seconds |-> GlobalSeconds, pending |-> GlobalPending]}
ScopesOf(q) == {c \in Scopes : q \in c.of}

-----------------------------------------------------------------------------
(* What is taken.                                                          *)

Unpurged(S) == {q \in S : asset[q] \in {"kept", "deleted"}}
Live(S) == {q \in S : admission[q] = "live"}
Stored(S) == Total(bytes, Unpurged(S))

HeldFault(S) == 0

(* The places other uploads have reserved and not given back.              *)
Held(S) == MaxUpload * Cardinality(Live(S))

(* check_capacity, for the upload q itself.                                *)
Fits(q, incoming) ==
    \A c \in ScopesOf(q) : Stored(c.of) + Held(c.of \ {q}) + incoming <= c.storage

Pending(S) == {q \in S : run[q].status \in {"QUEUED", "PROCESSING"}}

(* admit_run.                                                              *)
RunAdmitted(q) == \A c \in ScopesOf(q) : Cardinality(Pending(c.of)) < c.pending

Reservation == Attempt * MaxAttempts
Reserved(S) == Reservation * Cardinality({q \in S : budget[q].state = "OPEN"})
Used(S) == Total([q \in S |-> budget[q].charged],
                 {q \in S : budget[q].state = "CLOSED" /\ budget[q].day = day})

(* check_daily_capacity.                                                   *)
DayHasRoom(q) ==
    \A c \in ScopesOf(q) : Used(c.of) + Reserved(c.of) + Reservation <= c.seconds

(* reserve_run: the budget is opened if the day has room for it.           *)
ReserveRun(q) == DayHasRoom(q) /\ budget' = [budget EXCEPT ![q].state = "OPEN"]

(* settle_run, once the run has ended and its slots are released.          *)
Settled(q, r) ==
    IF budget[q].state = "OPEN" /\ r.status \notin {"QUEUED", "PROCESSING"} /\ ~r.slot
    THEN [budget EXCEPT ![q] = [state |-> "CLOSED", day |-> day, charged |-> r.spent]]
    ELSE budget

Becomes(q, r) == run' = [run EXCEPT ![q] = r] /\ budget' = Settled(q, r)

-----------------------------------------------------------------------------
(* One upload.                                                             *)

(* reserve_upload.                                                         *)
Reserve(q) ==
    /\ admission[q] = "none" /\ asset[q] = "none"
    /\ DayHasRoom(q) /\ Fits(q, MaxUpload) /\ RunAdmitted(q)
    /\ \A p \in Live(Requests) : Owner[p] # Owner[q]
    /\ Cardinality(Live(Requests)) < UploadSlots
    /\ admission' = [admission EXCEPT ![q] = "live"]
    /\ UNCHANGED <<day, asset, bytes, run, budget>>

(* The transaction at the end of upload, in which all is checked again.    *)
Publish(q, n) ==
    /\ admission[q] = "live" /\ asset[q] = "none"
    /\ Fits(q, n) /\ RunAdmitted(q) /\ ReserveRun(q)
    /\ asset' = [asset EXCEPT ![q] = "kept"]
    /\ bytes' = [bytes EXCEPT ![q] = n]
    /\ run' = [run EXCEPT ![q].status = "QUEUED"]
    /\ UNCHANGED <<day, admission>>

(* The end of bounded_upload, whatever came of the upload.                 *)
Return(q) ==
    /\ admission[q] # "none"
    /\ admission' = [admission EXCEPT ![q] = "none"]
    /\ UNCHANGED <<day, asset, bytes, run, budget>>

(* Fifteen minutes have passed, with a request that is slow or has died.   *)
Expire(q) ==
    /\ admission[q] = "live"
    /\ admission' = [admission EXCEPT ![q] = "expired"]
    /\ UNCHANGED <<day, asset, bytes, run, budget>>

Delete(q) ==
    /\ asset[q] = "kept"
    /\ asset' = [asset EXCEPT ![q] = "deleted"]
    /\ run' = [run EXCEPT ![q].status = IF q \in Pending({q}) THEN "CANCELLED" ELSE @]
    /\ UNCHANGED <<day, admission, bytes, budget>>

Purge(q) ==
    /\ asset[q] = "deleted"
    /\ asset' = [asset EXCEPT ![q] = "purged"]
    /\ UNCHANGED <<day, admission, bytes, run, budget>>

-----------------------------------------------------------------------------
(* Its analysis, as far as the budget goes; RunJobs has the rest.          *)

Claim(q) ==
    /\ run[q].status = "QUEUED" /\ ~run[q].slot
    /\ Becomes(q, IF run[q].attempts < MaxAttempts
                  THEN [run[q] EXCEPT !.status = "PROCESSING", !.slot = TRUE, !.attempts = @ + 1]
                  ELSE [run[q] EXCEPT !.status = "FAILED"])
    /\ UNCHANGED <<day, admission, asset, bytes>>

Finish(q) ==
    /\ run[q].status = "PROCESSING"
    /\ run' = [run EXCEPT ![q].status = "COMPLETED"]
    /\ UNCHANGED <<day, admission, asset, bytes, budget>>

Cancel(q) ==
    /\ q \in Pending({q})
    /\ Becomes(q, [run[q] EXCEPT !.status = "CANCELLED"])
    /\ UNCHANGED <<day, admission, asset, bytes>>

(* acknowledge_stopped, with what was measured or, without a measurement,  *)
(* a whole attempt.                                                        *)
Stop(q, elapsed) ==
    /\ run[q].slot
    /\ Becomes(q, [run[q] EXCEPT !.slot = FALSE, !.spent = @ + elapsed,
                                 !.status = IF @ = "PROCESSING" THEN "QUEUED" ELSE @])
    /\ UNCHANGED <<day, admission, asset, bytes>>

(* reconcile_runs settles what a deletion left open.                       *)
Reconcile(q) ==
    /\ Settled(q, run[q]) # budget
    /\ budget' = Settled(q, run[q])
    /\ UNCHANGED <<day, admission, asset, bytes, run>>

Midnight ==
    /\ day < MaxDay
    /\ day' = day + 1
    /\ UNCHANGED <<admission, asset, bytes, run, budget>>

Next ==
    \/ \E q \in Requests :
           \/ Reserve(q) \/ Return(q) \/ Expire(q) \/ Delete(q) \/ Purge(q)
           \/ \E n \in 1..MaxUpload : Publish(q, n)
           \/ Claim(q) \/ Finish(q) \/ Cancel(q) \/ Reconcile(q)
           \/ \E elapsed \in Attempt..(Attempt + Overrun) : Stop(q, elapsed)
    \/ Midnight

Spec == Init /\ [][Next]_vars

-----------------------------------------------------------------------------
TypeOK ==
    /\ \A q \in Requests : /\ run[q].status \in {"none", "QUEUED", "PROCESSING", "COMPLETED",
                                                "FAILED", "CANCELLED"}
                           /\ run[q].attempts \in 0..MaxAttempts
                           /\ budget[q].state \in {"none", "OPEN", "CLOSED"}
    /\ \A q \in Requests : admission[q] \in {"none", "live", "expired"}

(* Every admitted upload that comes in time finds its room: what is stored *)
(* and what is still to come stay within each quota, although the places   *)
(* are taken, expire and are given back at different times.                *)
AdmittedFits ==
    \A c \in Scopes :
        Stored(c.of) + MaxUpload * Cardinality({q \in Live(c.of) : asset[q] = "none"}) <= c.storage

PendingWithinQuota == \A c \in Scopes : Cardinality(Pending(c.of)) <= c.pending

(* A day's work stays within its limit, runs that began the day before     *)
(* included, but for what clean-up has added to the attempts charged.      *)
DayWithinBudget ==
    \A c \in Scopes :
        Used(c.of) + Reserved(c.of)
            <= c.seconds + Overrun * Total([q \in c.of |-> run[q].attempts],
                                           {q \in c.of : budget[q].state = "CLOSED"
                                                         /\ budget[q].day = day})

(* No reservation is given back while its decoder may run.                 *)
HeldUntilStopped == \A q \in Requests : budget[q].state = "CLOSED" => ~run[q].slot

AdmissionsSound == TypeOK /\ AdmittedFits /\ PendingWithinQuota /\ DayWithinBudget /\ HeldUntilStopped
=============================================================================
