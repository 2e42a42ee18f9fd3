------------------------------ MODULE Companion -----------------------------
(***************************************************************************)
(* One recording that several paired computers of one owner try to sync    *)
(* (companion/sync.py, backend/core/companion.py and companion_api.py).    *)
(* A request is authenticated in one transaction and handled in a second   *)
(* one; it may be lost, its answer may be lost, and it may be handled long *)
(* after the companion gave up on it.  The companion saves its receipt     *)
(* before it goes on and may crash between any two requests.               *)
(***************************************************************************)
EXTENDS Naturals, FiniteSets

CONSTANTS Devices,      \* the paired computers, each with a copy of the recording
          Troubled,     \* those that lose requests, crash, and are paused and cancelled
          Chunks,       \* the size of the recording, in chunks
          MaxFailures   \* failures after which a receipt is rejected (8 in the code)

VARIABLES consent,      \* whether recording sync is granted
          code,         \* whether an unredeemed pairing code is out
          device,       \* RecordingDevice: "new", "active" or "revoked"
          receipt,      \* RecordingReceipt for these bytes
          session,      \* UploadSession behind the receipt; overdue: past its expires_at
          manual,       \* whether the owner uploaded the same bytes by hand
          engine,       \* per device: the SyncEngine and its local receipt
          calls         \* per device: the requests on their way or being handled

vars == <<consent, code, device, receipt, session, manual, engine, calls>>
serverVars == <<consent, code, device, receipt, session, manual>>

Nobody == "nobody"
InProgress == {"UPLOADING", "VERIFYING", "PURGING"}
Gone == {"PURGING", "CANCELLED"}
Terminal == {"COMPLETE", "REMOVED", "DUPLICATE", "CANCELLED", "REJECTED"}
Operations == {"POST", "GET", "DELETE", "PUT", "complete"}
Call == [op : Operations, at : 0..Chunks, known : BOOLEAN, awaited : BOOLEAN]

Init ==
    /\ consent = FALSE /\ code = FALSE /\ manual = FALSE
    /\ device = [d \in Devices |-> "new"]
    /\ receipt = [holder |-> Nobody, opened |-> FALSE, suppressed |-> FALSE]
    /\ session = [state |-> "none", received |-> 0, overdue |-> FALSE]
    /\ engine = [d \in Devices |-> [state |-> "PENDING", id |-> FALSE, failures |-> 0,
                                    enabled |-> FALSE, cancel |-> FALSE, intact |-> TRUE]]
    /\ calls = [d \in Devices |-> {}]

-----------------------------------------------------------------------------
(* Pairing, and the end of it.                                             *)

(* create_pairing: the consent and a one-use code.  Bound: a code is asked *)
(* for while a computer is not paired.                                     *)
CreatePairing ==
    /\ \E d \in Devices : device[d] = "new"
    /\ consent' = TRUE /\ code' = TRUE
    /\ <<consent, code>> # <<TRUE, TRUE>>
    /\ UNCHANGED <<device, receipt, session, manual, engine, calls>>

RedeemPairing(d) ==
    /\ code /\ consent /\ device[d] = "new"
    /\ device' = [device EXCEPT ![d] = "active"]
    /\ code' = FALSE
    /\ UNCHANGED <<consent, receipt, session, manual, engine, calls>>

(* mark_purging and the first transaction of delete_asset: the session,    *)
(* whatever its state, goes to the purge, and its expiry matters no more.  *)
Removed == [session EXCEPT !.state = "PURGING", !.overdue = FALSE]

(* fence_devices: what these devices have in progress goes to the purge.   *)
Fenced(ds) ==
    IF receipt.opened /\ receipt.holder \in ds /\ session.state \in InProgress
    THEN Removed ELSE session

RevokeDevice(d) ==
    /\ device[d] = "active"
    /\ device' = [device EXCEPT ![d] = "revoked"]
    /\ session' = Fenced({d})
    /\ UNCHANGED <<consent, code, receipt, manual, engine, calls>>

(* revoke_all: sync consent withdrawn, every session signed out, or the    *)
(* account deleted.                                                        *)
RevokeAll(withdraw) ==
    /\ \E d \in Devices : device[d] = "active"
    /\ code \/ withdraw    \* bound: signing out everywhere matters here for the code
    /\ consent' = (consent /\ ~withdraw)
    /\ code' = FALSE
    /\ device' = [d \in Devices |-> IF device[d] = "active" THEN "revoked" ELSE device[d]]
    /\ session' = Fenced({d \in Devices : device[d] = "active"})
    /\ UNCHANGED <<receipt, manual, engine, calls>>

(* The device's credential runs out; what it has begun expires by itself.  *)
Usable(d) == device[d] = "active" /\ consent

-----------------------------------------------------------------------------
(* The owner and the server's maintenance.                                 *)

(* Once a device has been there it makes no difference to these bytes.     *)
ManualUpload ==
    /\ ~manual /\ receipt.holder = Nobody
    /\ manual' = TRUE
    /\ UNCHANGED <<consent, code, device, receipt, session, engine, calls>>

(* The owner deletes the recording on the website, or deletes it again; a  *)
(* transferred one is also deleted when its retention ends.                *)
DeleteRecording ==
    /\ session.state \notin {"none", "PURGING"}
    /\ session' = Removed
    /\ UNCHANGED <<consent, code, device, receipt, manual, engine, calls>>

(* The server's worker: verification ends well or badly, a session whose   *)
(* time is over is swept, a purge finishes.                                *)
Verify ==
    /\ session.state = "VERIFYING"
    /\ \/ ~session.overdue /\ session' = [session EXCEPT !.state = "COMPLETE"]
       \/ session' = Removed
    /\ UNCHANGED <<consent, code, device, receipt, manual, engine, calls>>

TimeIsOver ==
    /\ session.state \in {"UPLOADING", "VERIFYING"} /\ ~session.overdue
    /\ session' = [session EXCEPT !.overdue = TRUE]
    /\ UNCHANGED <<consent, code, device, receipt, manual, engine, calls>>

Expire ==
    /\ session.overdue
    /\ session' = Removed
    /\ UNCHANGED <<consent, code, device, receipt, manual, engine, calls>>

Purge ==
    /\ session.state = "PURGING"
    /\ session' = [session EXCEPT !.state = "CANCELLED"]
    /\ UNCHANGED <<consent, code, device, receipt, manual, engine, calls>>

-----------------------------------------------------------------------------
(* The companion.                                                          *)

Awaiting(d) == \E c \in calls[d] : c.awaited
Runs(d) == engine[d].enabled \/ engine[d].cancel
Request(op, at) == [op |-> op, at |-> at, known |-> FALSE, awaited |-> TRUE]
Late(d) == {c \in calls[d] : ~c.awaited}

(* Start, pause and cancel in the window.                                  *)
Start(d) ==
    /\ ~engine[d].enabled /\ device[d] # "new" /\ engine[d].state \notin Terminal
    /\ engine' = [engine EXCEPT ![d].enabled = TRUE]
    /\ UNCHANGED <<serverVars, calls>>
Pause(d) ==
    /\ d \in Troubled
    /\ engine[d].enabled
    /\ engine' = [engine EXCEPT ![d].enabled = FALSE]
    /\ UNCHANGED <<serverVars, calls>>
Cancel(d) ==
    /\ d \in Troubled
    /\ device[d] # "new" /\ ~engine[d].cancel /\ engine[d].state \notin Terminal
    /\ engine' = [engine EXCEPT ![d].enabled = TRUE, ![d].cancel = TRUE]
    /\ UNCHANGED <<serverVars, calls>>

(* A request times out or its connection breaks: it may be lost, or be     *)
(* handled later.  One late request of a device is followed.               *)
Failed(e, fatal, rejected) ==
    [e EXCEPT !.failures = @ + 1, !.enabled = @ /\ ~fatal,
              !.state = IF e.failures + 1 >= MaxFailures \/ rejected THEN "REJECTED" ELSE @]

TimesOut(d, c) ==
    /\ d \in Troubled
    /\ c \in calls[d] /\ c.awaited
    /\ engine' = [engine EXCEPT ![d] = Failed(@, FALSE, FALSE)]
    /\ calls' = [calls EXCEPT ![d] = IF Late(d) = {} THEN {[c EXCEPT !.awaited = FALSE]} ELSE Late(d)]
    /\ UNCHANGED serverVars

LateIsLost(d, c) ==
    /\ c \in Late(d)
    /\ calls' = [calls EXCEPT ![d] = @ \ {c}]
    /\ UNCHANGED <<serverVars, engine>>

(* The process dies; the next start finds the saved receipt and is paused. *)
Crash(d) ==
    /\ d \in Troubled
    /\ Runs(d) \/ Awaiting(d)
    /\ engine' = [engine EXCEPT ![d].enabled = FALSE, ![d].cancel = FALSE]
    /\ calls' = [calls EXCEPT ![d] = Late(d)]
    /\ UNCHANGED serverVars

FileChanges(d) ==
    /\ d \in Troubled
    /\ engine[d].intact /\ engine[d].state \notin Terminal
    /\ engine' = [engine EXCEPT ![d].intact = FALSE]
    /\ UNCHANGED <<serverVars, calls>>

(* tick and the head of transfer.                                          *)
Tick(d) ==
    /\ engine[d].enabled /\ ~Awaiting(d) /\ engine[d].state \notin Terminal
    /\ \/ /\ engine[d].cancel /\ ~engine[d].id
          /\ engine' = [engine EXCEPT ![d].state = "CANCELLED", ![d].cancel = FALSE,
                                      ![d].enabled = FALSE]
          /\ UNCHANGED calls
       \/ /\ ~(engine[d].cancel /\ ~engine[d].id) /\ ~engine[d].intact
          /\ engine' = [engine EXCEPT ![d].state = "REJECTED"]
          /\ UNCHANGED calls
       \/ /\ ~(engine[d].cancel /\ ~engine[d].id) /\ engine[d].intact
          /\ calls' = [calls EXCEPT ![d] =
                 @ \union {Request(IF engine[d].id THEN "GET" ELSE "POST", 0)}]
          /\ UNCHANGED engine
    /\ UNCHANGED serverVars

(* A cancellation that finds nothing to cancel pauses the companion.       *)
NothingToCancel(d) ==
    /\ d \in Troubled
    /\ engine[d].cancel /\ engine[d].state \in Terminal /\ ~Awaiting(d)
    /\ engine' = [engine EXCEPT ![d].cancel = FALSE, ![d].enabled = FALSE]
    /\ UNCHANGED <<serverVars, calls>>

-----------------------------------------------------------------------------
(* A request is authenticated first ...                                    *)
Authenticate(d, c) ==
    /\ c \in calls[d] /\ ~c.known /\ Usable(d)
    /\ calls' = [calls EXCEPT ![d] = (@ \ {c}) \union {[c EXCEPT !.known = TRUE]}]
    /\ UNCHANGED <<serverVars, engine>>

(* The answer reaches the companion if it still waits, and the companion   *)
(* goes on to "next" unless it has been paused.                            *)
Answer(d, c, e, next) ==
    /\ calls' = [calls EXCEPT ![d] = (@ \ {c}) \union IF c.awaited THEN next ELSE {}]
    /\ engine' = IF c.awaited THEN [engine EXCEPT ![d] = e] ELSE engine

(* DEVICE_ACCESS_STOPPED: the credential does not work.                    *)
Refused(d, c) ==
    /\ c \in calls[d] /\ ~Usable(d)
    /\ Answer(d, c, Failed(engine[d], TRUE, FALSE), {})
    /\ UNCHANGED serverVars

(* A fault: a request authenticated once is handled whatever happened      *)
(* since.                                                                  *)
HandledOnFirstCheck(d, c) == c \in calls[d] /\ c.known

(* ... and the device is checked again under the lock that handles it      *)
(* (require_device).                                                       *)
Handled(d, c) == c \in calls[d] /\ c.known /\ Usable(d)

Opened(d, c, e) ==
    Answer(d, c, [e EXCEPT !.id = TRUE], IF Runs(d) THEN {Request("GET", 0)} ELSE {})
Skipped(d, c, state) == Answer(d, c, [engine[d] EXCEPT !.state = state], {})

(* usable: what an upload in progress needs to be worked on.               *)
InTime == session.state \in {"UPLOADING", "VERIFYING"} /\ ~session.overdue

(* status, which every answer about a session ends with, refuses an upload *)
(* whose time is over before the sweep has come for it.                    *)
StatusRefused == session.state = "UPLOADING" /\ session.overdue
Rejected(d, c) == Answer(d, c, Failed(engine[d], FALSE, TRUE), {})

(* device_uploads, for bytes that have a session.                          *)
PostKnown(d, c) ==
    /\ Handled(d, c) /\ c.op = "POST" /\ receipt.opened
    /\ IF session.state \in Gone THEN Skipped(d, c, "REMOVED")
       ELSE IF receipt.holder # d THEN Skipped(d, c, "DUPLICATE")
       ELSE IF StatusRefused THEN Rejected(d, c)
       ELSE Opened(d, c, engine[d])
    /\ UNCHANGED serverVars

(* Bytes another device, or the owner by hand, has been here with.         *)
PostElsewhere(d, c) ==
    /\ Handled(d, c) /\ c.op = "POST" /\ ~receipt.opened
    /\ \/ receipt.suppressed
       \/ receipt.holder \notin {Nobody, d}
       \/ receipt.holder = Nobody /\ manual
    /\ receipt' = IF receipt.holder = Nobody
                  THEN [receipt EXCEPT !.holder = d, !.suppressed = TRUE] ELSE receipt
    /\ Skipped(d, c, "DUPLICATE")
    /\ UNCHANGED <<consent, code, device, session, manual>>

(* A session is reserved; when its file cannot be made it is left to the   *)
(* purge, and the receipt is kept without it.  A later request of the same *)
(* device finds that session again.                                        *)
PostOpens(d, c) ==
    /\ Handled(d, c) /\ c.op = "POST" /\ ~receipt.opened /\ ~receipt.suppressed
    /\ receipt.holder = d \/ (receipt.holder = Nobody /\ ~manual)
    /\ \/ /\ receipt' = [receipt EXCEPT !.holder = d, !.opened = TRUE]
          /\ session' = IF session.state = "none" THEN [session EXCEPT !.state = "UPLOADING"] ELSE session
          /\ Opened(d, c, engine[d])
       \/ /\ session.state = "none"
          /\ receipt' = [receipt EXCEPT !.holder = d]
          /\ session' = Removed
          /\ Answer(d, c, Failed(engine[d], FALSE, FALSE), {})
       \/ /\ session.state = "none"       \* another upload of the owner is in progress
          /\ Answer(d, c, Failed(engine[d], FALSE, FALSE), {})
          /\ UNCHANGED <<receipt, session>>
    /\ UNCHANGED <<consent, code, device, manual>>

Mine(d, c) == Handled(d, c) /\ receipt.opened /\ receipt.holder = d

Cancelled(e, state) == [e EXCEPT !.cancel = FALSE, !.enabled = FALSE, !.state = state]

(* device_session, and what transfer makes of the state.                   *)
Get(d, c) ==
    /\ Mine(d, c) /\ c.op = "GET"
    /\ LET e == engine[d]
           stopped == session.state \in {"COMPLETE", "CANCELLED", "PURGING"}
       IN IF StatusRefused THEN Rejected(d, c)
          ELSE IF ~Runs(d) THEN Answer(d, c, e, {})
          ELSE IF e.cancel
          THEN IF stopped
               THEN Answer(d, c, Cancelled(e, IF session.state = "COMPLETE" THEN "COMPLETE"
                                              ELSE "CANCELLED"), {})
               ELSE Answer(d, c, e, {Request("DELETE", 0)})
          ELSE IF stopped
          THEN Skipped(d, c, IF session.state = "PURGING" THEN "REMOVED" ELSE session.state)
          ELSE IF session.state = "VERIFYING" THEN Skipped(d, c, "VERIFYING")
          ELSE IF ~e.intact THEN Skipped(d, c, "REJECTED")
          ELSE Answer(d, c, e, {IF session.received < Chunks THEN Request("PUT", session.received)
                                ELSE Request("complete", 0)})
    /\ UNCHANGED serverVars

Delete(d, c) ==
    /\ Mine(d, c) /\ c.op = "DELETE"
    /\ IF session.state = "COMPLETE"
       THEN Rejected(d, c) /\ UNCHANGED session
       ELSE /\ session' = IF session.state = "CANCELLED" THEN session ELSE Removed
            /\ Answer(d, c, Cancelled(engine[d], "CANCELLED"), {})
    /\ UNCHANGED <<consent, code, device, receipt, manual>>

(* device_chunk: a chunk that is there already is taken again.             *)
Put(d, c) ==
    /\ Mine(d, c) /\ c.op = "PUT"
    /\ IF InTime /\ session.state = "UPLOADING" /\ c.at <= session.received
       THEN /\ session' = [session EXCEPT !.received = IF c.at = @ THEN @ + 1 ELSE @]
            /\ IF ~engine[d].enabled \/ engine[d].cancel
               THEN Answer(d, c, [engine[d] EXCEPT !.failures = 0], {})
               ELSE IF ~engine[d].intact THEN Skipped(d, c, "REJECTED")
               ELSE Answer(d, c, engine[d],
                           {IF c.at + 1 < Chunks THEN Request("PUT", c.at + 1)
                            ELSE Request("complete", 0)})
       ELSE Rejected(d, c) /\ UNCHANGED session
    /\ UNCHANGED <<consent, code, device, receipt, manual>>

(* A fault: everything that arrived whole may be completed.                *)
CompletableByLengthFault == session.received = Chunks

(* A recording that is transferred already is completed again with success.*)
Completable ==
    \/ session.state = "COMPLETE"
    \/ InTime /\ (session.state = "VERIFYING" \/ session.received = Chunks)

(* device_complete.                                                        *)
Complete(d, c) ==
    /\ Mine(d, c) /\ c.op = "complete"
    /\ IF Completable
       THEN /\ session' = IF session.state = "COMPLETE" THEN session
                          ELSE [session EXCEPT !.state = "VERIFYING"]
            /\ Answer(d, c, [engine[d] EXCEPT !.state = "VERIFYING", !.failures = 0], {})
       ELSE Rejected(d, c) /\ UNCHANGED session
    /\ UNCHANGED <<consent, code, device, receipt, manual>>

Serve(d, c) ==
    \/ Authenticate(d, c) \/ Refused(d, c)
    \/ PostKnown(d, c) \/ PostElsewhere(d, c) \/ PostOpens(d, c)
    \/ Get(d, c) \/ Delete(d, c) \/ Put(d, c) \/ Complete(d, c)

Next ==
    \/ CreatePairing \/ ManualUpload
    \/ DeleteRecording \/ Verify \/ TimeIsOver \/ Expire \/ Purge
    \/ \E withdraw \in BOOLEAN : RevokeAll(withdraw)
    \/ \E d \in Devices :
           \/ RedeemPairing(d) \/ RevokeDevice(d)
           \/ Start(d) \/ Pause(d) \/ Cancel(d) \/ Crash(d) \/ FileChanges(d)
           \/ Tick(d) \/ NothingToCancel(d)
           \/ \E c \in calls[d] : TimesOut(d, c) \/ LateIsLost(d, c) \/ Serve(d, c)

Spec == Init /\ [][Next]_vars

-----------------------------------------------------------------------------
TypeOK ==
    /\ \A d \in Devices : calls[d] \subseteq Call /\ Cardinality(calls[d]) <= 2
    /\ \A d \in Devices : engine[d].failures <= MaxFailures
    /\ session.received \in 0..Chunks

(* A revoked device has nothing in progress, and neither has anyone once   *)
(* sync is withdrawn: requests under way when it happened change nothing.  *)
RevokedDeviceIdle ==
    session.state \in {"UPLOADING", "VERIFYING"} =>
        consent /\ device[receipt.holder] = "active"

(* What the companion tells its user is so: a transferred recording has    *)
(* arrived whole and was verified, and if it is not on the server now it   *)
(* was removed since; a duplicate is known there by another way; and what  *)
(* was removed, or cancelled after the server had it, is gone there.       *)
LocalOutcomeTrue ==
    \A d \in Devices :
        /\ engine[d].state = "COMPLETE" =>
               session.received = Chunks /\ session.state \in {"COMPLETE"} \cup Gone
        /\ engine[d].state = "DUPLICATE" => receipt.suppressed \/ receipt.holder \notin {Nobody, d}
        /\ engine[d].state = "REMOVED" => session.state \in Gone
        /\ engine[d].state = "CANCELLED" /\ engine[d].id => session.state \in Gone

CompanionSound == TypeOK /\ RevokedDeviceIdle /\ LocalOutcomeTrue

(* A recording that was removed is not restored by any retry, late request *)
(* or new pairing, and bytes uploaded by hand are not uploaded twice.      *)
NothingRestored ==
    /\ session.state \in Gone => session'.state \in Gone
    /\ session.state = "none" /\ manual /\ receipt.holder = Nobody => session'.state = "none"

RemovedStaysRemoved == [][NothingRestored]_vars
=============================================================================
