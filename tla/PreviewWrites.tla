---------------------------- MODULE PreviewWrites ----------------------------
(***************************************************************************)
(* The private preview of one recording kept in cloud storage              *)
(* (backend/core/previews.py, preview_writes.py, preview_ledger.py).       *)
(* SQL holds the preview row and its run; an independent ledger holds one  *)
(* intent per attempt, with the state of each file's upload.  A            *)
(* coordinator uploads file by file and writes every step in the ledger    *)
(* first; revocation marks the intents before SQL; cleanup cancels the     *)
(* upload sessions, erases what was written and only then frees the bytes. *)
(***************************************************************************)
EXTENDS Naturals

CONSTANTS
    Files,        \* files of a bundle, 1..n in upload order
    MaxAttempts   \* attempts over the life of the preview

VARIABLES
    preview,   \* the RecordingPreview row
    run,       \* status of its run, and the attempt whose fence and lease hold
    slots,     \* attempts whose execution slot is not released
    intent,    \* intent[k]: ledger row of attempt k
    session,   \* session[k][f]: resumable session at the provider
    object,    \* object[k][f]: the object exists
    at,        \* at[k]: where the coordinator of attempt k stands
    file       \* file[k]: the file it is working on

vars == <<preview, run, slots, intent, session, object, at, file>>
sql == <<preview, run, slots>>
remote == <<session, object>>

Attempts == 1..MaxAttempts
Last == CHOOSE f \in Files : \A g \in Files : g <= f

FileState == {"PLANNED", "INITIALIZING", "SESSION", "FINALIZED", "STOPPED"}
IntentState == {"NONE", "OPEN", "PUBLISHED", "CLEANUP", "ERASED"}
Steps == {"none", "start", "plan", "mark", "init", "begin", "record", "put", "final",
          "saved", "complete", "dead"}

Init ==
    /\ preview = [state |-> "NONE", fence |-> 0, pending |-> FALSE, manifest |-> FALSE]
    /\ run = [status |-> "NONE", current |-> 0]
    /\ slots = {}
    /\ intent = [k \in Attempts |-> [state |-> "NONE", files |-> [f \in Files |-> "PLANNED"]]]
    /\ session = [k \in Attempts |-> [f \in Files |-> "none"]]
    /\ object = [k \in Attempts |-> [f \in Files |-> FALSE]]
    /\ at = [k \in Attempts |-> "none"]
    /\ file = [k \in Attempts |-> 1]
-----------------------------------------------------------------------------
Heartbeat(k) == run.status = "PROCESSING" /\ run.current = k
GoTo(k, step) == at' = [at EXCEPT ![k] = step]
Planned == {k \in Attempts : intent[k].state # "NONE"}

(* transition: what the ledger accepts for a file of an intent.            *)
FileMoves == [s \in FileState |->
    CASE s = "PLANNED"      -> {"INITIALIZING", "STOPPED"}
      [] s = "INITIALIZING" -> {"SESSION"}
      [] s = "SESSION"      -> {"FINALIZED", "STOPPED"}
      [] s = "FINALIZED"    -> {"STOPPED"}
      [] s = "STOPPED"      -> {}]

Accepts(k, f, s) ==
    /\ s \in FileMoves[intent[k].files[f]]
    /\ s = "INITIALIZING" => intent[k].state = "OPEN"
    /\ s = "STOPPED" => intent[k].state = "CLEANUP"
WithFile(k, f, s) == intent' = [intent EXCEPT ![k].files[f] = s]
WithIntent(k, s) == intent' = [intent EXCEPT ![k].state = s]

(* check_open: the run is still ours and the intent still open.            *)
Open(k) == Heartbeat(k) /\ intent[k].state = "OPEN"
-----------------------------------------------------------------------------
(* enqueue_preview: a queued or ready preview is returned as it is, one    *)
(* being purged refuses, any other gets a new run.  Bound: a run that the  *)
(* purge of its preview left QUEUED is cancelled before a new one is made. *)
Enqueue ==
    /\ preview.state \in {"NONE", "PURGED"}
    /\ run.status \notin {"QUEUED", "PROCESSING"}
    /\ preview' = [state |-> "QUEUED", fence |-> 0, pending |-> FALSE, manifest |-> FALSE]
    /\ run' = [status |-> "QUEUED", current |-> 0]
    /\ UNCHANGED <<slots, intent, remote, at, file>>

(* A claim of the run opens the slot of the next attempt.                  *)
Claim(k) ==
    /\ run.status = "QUEUED" /\ slots = {}
    /\ at[k] = "none" /\ \A j \in 1..(k - 1) : at[j] # "none"
    /\ run' = [status |-> "PROCESSING", current |-> k]
    /\ slots' = slots \cup {k}
    /\ GoTo(k, "start")
    /\ UNCHANGED <<preview, intent, remote, file>>

(* The lease runs out, or the run is fenced: heartbeats of k fail now.     *)
Lapse(k) ==
    /\ Heartbeat(k)
    /\ run' = [run EXCEPT !.current = 0]
    /\ UNCHANGED <<preview, slots, intent, remote, at, file>>

(* The coordinator gives up: an exception, a refused heartbeat, a crash or *)
(* a stopped machine.  A worker that still holds the run records FAILED.   *)
Stops(k) ==
    /\ at[k] \notin {"none", "dead"}
    /\ GoTo(k, "dead")
    /\ run' \in {run, IF Heartbeat(k) THEN [run EXCEPT !.status = "FAILED", !.current = 0] ELSE run}
    /\ UNCHANGED <<preview, slots, intent, remote, file>>

(* acknowledge_stopped by the coordinator itself, which writes nothing     *)
(* after it, on the deletion of its machine, or by the operator: the       *)
(* coordinator is gone; a run still processing is queued again.            *)
Acknowledge(k) ==
    /\ k \in slots /\ at[k] = "dead"
    /\ slots' = slots \ {k}
    /\ run' = IF run.status = "PROCESSING" THEN [status |-> "QUEUED", current |-> 0] ELSE run
    /\ UNCHANGED <<preview, intent, remote, at, file>>
-----------------------------------------------------------------------------
StartPreview(k) ==
    /\ at[k] = "start" /\ Heartbeat(k) /\ preview.state = "QUEUED"
    /\ preview' = [preview EXCEPT !.fence = k]
    /\ GoTo(k, "plan")
    /\ UNCHANGED <<run, slots, intent, remote, file>>

(* publish_files: the intent of every file.  The heartbeat before it is an *)
(* earlier step, so the run may be revoked and the slot reaped by now.     *)
PlanWrites(k) ==
    /\ at[k] = "plan" /\ intent[k].state = "NONE"
    /\ WithIntent(k, "OPEN")
    /\ GoTo(k, "mark")
    /\ UNCHANGED <<sql, remote, file>>

MarkPending(k) ==
    /\ at[k] = "mark" /\ Heartbeat(k)
    /\ preview' = [preview EXCEPT !.pending = IF preview.fence = k THEN TRUE ELSE @]
    /\ GoTo(k, "init")
    /\ UNCHANGED <<run, slots, intent, remote, file>>

(* Durable before the session is asked for.                                *)
Initialize(k) ==
    /\ at[k] = "init" /\ Heartbeat(k)
    /\ Accepts(k, file[k], "INITIALIZING")
    /\ WithFile(k, file[k], "INITIALIZING")
    /\ GoTo(k, "begin")
    /\ UNCHANGED <<sql, remote, file>>

(* begin_preview: the session is opened and its capability received, or    *)
(* the response is lost and nobody ever learns it.                         *)
Begin(k) ==
    /\ at[k] = "begin"
    /\ session' = [session EXCEPT ![k][file[k]] = "open"]
    /\ \E step \in {"record", "dead"} : GoTo(k, step)
    /\ UNCHANGED <<sql, intent, object, file>>

(* Fault: a session received after revocation is dropped, not recorded.    *)
RecordIfOpenFault(k) == IF Open(k) THEN Accepts(k, file[k], "SESSION") ELSE FALSE
RecordAllowed(k) == Accepts(k, file[k], "SESSION")

(* The late receipt is saved even after revocation: cleanup needs it.      *)
RecordSession(k) ==
    /\ at[k] = "record" /\ RecordAllowed(k)
    /\ WithFile(k, file[k], "SESSION")
    /\ GoTo(k, IF Open(k) THEN "put" ELSE "dead")
    /\ UNCHANGED <<sql, remote, file>>

(* preview_upload: the last byte makes the object, if the session lives;   *)
(* the answer may be lost and is then probed from the same session.        *)
Put(k) ==
    /\ at[k] = "put" /\ session[k][file[k]] = "open"
    /\ object' = [object EXCEPT ![k][file[k]] = TRUE]
    /\ \E step \in {"final", "put"} : GoTo(k, step)
    /\ UNCHANGED <<sql, intent, session, file>>

Finalize(k) ==
    /\ at[k] = "final" /\ Accepts(k, file[k], "FINALIZED")
    /\ WithFile(k, file[k], "FINALIZED")
    /\ GoTo(k, IF Open(k) THEN "saved" ELSE "dead")
    /\ UNCHANGED <<sql, remote, file>>

(* The next file, or the manifest, saved only for the attempt it names.    *)
FileSaved(k) ==
    /\ at[k] = "saved"
    /\ preview' = [preview EXCEPT !.pending = IF preview.fence = k THEN FALSE ELSE @,
                   !.manifest = @ \/ (file[k] = Last /\ preview.state = "QUEUED"
                                                    /\ preview.fence = k)]
    /\ GoTo(k, IF file[k] = Last THEN "complete" ELSE "mark")
    /\ file' = [file EXCEPT ![k] = IF @ = Last THEN @ ELSE @ + 1]
    /\ UNCHANGED <<run, slots, intent, remote>>

(* complete_preview: the run is finished and the ledger published; then    *)
(* SQL commits, or rolls everything back but the ledger.                   *)
Complete(k) ==
    /\ at[k] = "complete" /\ Heartbeat(k)
    /\ preview.state = "QUEUED" /\ preview.fence = k /\ preview.manifest
    /\ intent[k].state = "OPEN" /\ \A f \in Files : intent[k].files[f] = "FINALIZED"
    /\ WithIntent(k, "PUBLISHED")
    /\ GoTo(k, "dead")
    /\ \/ /\ run' = [status |-> "READY", current |-> 0]
          /\ preview' = [preview EXCEPT !.state = "READY"]
       \/ UNCHANGED <<run, preview>>
    /\ UNCHANGED <<slots, remote, file>>
-----------------------------------------------------------------------------
Doomed == {k \in Planned : intent[k].state # "ERASED"}
Cancelled == [status |-> "CANCELLED", current |-> 0]
Withdrawn == [preview EXCEPT !.state = IF @ = "PURGED" THEN @ ELSE "PURGING"]

(* revoke_ids: the intents are marked one by one, each for good, before    *)
(* SQL changes; an outage leaves some unmarked and rolls SQL back.         *)
Mark(marked) == intent' = [k \in Attempts |-> IF k \in marked
                                              THEN [intent[k] EXCEPT !.state = "CLEANUP"]
                                              ELSE intent[k]]

(* cancel_run leaves the preview alone; delete_asset, a withdrawal and the *)
(* owner's deletion of the preview cancel the run and withdraw it; the     *)
(* sweep of reconcile_previews and the end of process_one only withdraw    *)
(* it, whatever its run is doing.                                          *)
Revoke ==
    /\ preview.state # "NONE"
    /\ \E marked \in SUBSET Doomed :
       /\ Mark(marked)
       /\ \/ UNCHANGED <<preview, run>>
          \/ /\ marked = Doomed /\ run.status \in {"QUEUED", "PROCESSING"}
             /\ run' = Cancelled /\ UNCHANGED preview
          \/ /\ marked = Doomed
             /\ preview' = Withdrawn /\ run' \in {run, Cancelled}
    /\ UNCHANGED <<slots, remote, at, file>>

(* The reaper of reconcile_previews: a slot of a LOCAL worker that was     *)
(* asked to stop, because its lease ran out or its run ended, loses its    *)
(* decoder's container and is released.  The run fails, ended or not, and  *)
(* the preview is withdrawn.  The coordinator may still be running.        *)
Reap(k) ==
    /\ k \in slots /\ ~Heartbeat(k)
    /\ \E marked \in SUBSET Doomed :
       /\ Mark(marked)
       /\ \/ UNCHANGED sql
          \/ /\ marked = Doomed
             /\ run' = [status |-> "FAILED", current |-> 0]
             /\ preview' = Withdrawn
             /\ slots' = slots \ {k}
    /\ UNCHANGED <<remote, at, file>>

(* Fault: a file whose session was never received counts as not started.   *)
NeverUnknownFault(k) == FALSE
Unknown(k) == \E f \in Files : intent[k].files[f] = "INITIALIZING"

(* cleanup of one file: cancel its session, then record that.              *)
CleanFile(k, f) ==
    /\ intent[k].state = "CLEANUP" /\ ~Unknown(k)
    /\ intent[k].files[f] # "STOPPED"
    /\ session' = [session EXCEPT ![k][f] = IF @ = "open" THEN "closed" ELSE @]
    /\ \/ WithFile(k, f, "STOPPED")
       \/ UNCHANGED intent
    /\ UNCHANGED <<sql, object, at, file>>

(* Fault: nothing to erase unless the upload was finalized.                *)
EraseFinalizedFault(k) == \A f \in Files : intent[k].files[f] = "FINALIZED"
EraseRequired(k) == TRUE

(* Every generation under the prefix is deleted, then the bytes are freed. *)
CleanDone(k) ==
    /\ intent[k].state = "CLEANUP"
    /\ \A f \in Files : intent[k].files[f] = "STOPPED"
    /\ object' = IF EraseRequired(k) THEN [object EXCEPT ![k] = [f \in Files |-> FALSE]] ELSE object
    /\ WithIntent(k, "ERASED")
    /\ UNCHANGED <<sql, session, at, file>>

(* Fault: a purge does not wait for the slot of a worker being stopped.    *)
PurgeWhileSlotOpenFault ==
    /\ \A k \in Planned : intent[k].state = "ERASED"
    /\ preview.pending => Planned # {}
PurgeReady ==
    /\ \A k \in Planned : intent[k].state = "ERASED"
    /\ preview.pending => Planned # {}
    /\ slots = {}

(* purge_preview: everything under the prefix of the preview goes first.   *)
PurgePreview ==
    /\ preview.state = "PURGING" /\ PurgeReady
    /\ object' = [k \in Attempts |-> [f \in Files |-> FALSE]]
    /\ preview' = [preview EXCEPT !.state = "PURGED", !.pending = FALSE, !.manifest = FALSE]
    /\ UNCHANGED <<run, slots, intent, session, at, file>>

Upload(k) == \/ StartPreview(k) \/ PlanWrites(k) \/ MarkPending(k) \/ Initialize(k) \/ Begin(k)
             \/ RecordSession(k) \/ Put(k) \/ Finalize(k) \/ FileSaved(k) \/ Complete(k)

Next ==
    \/ Enqueue \/ Revoke \/ PurgePreview
    \/ \E k \in Attempts : \/ Claim(k) \/ Lapse(k) \/ Stops(k) \/ Acknowledge(k) \/ Reap(k)
                           \/ Upload(k) \/ CleanDone(k)
                           \/ \E f \in Files : CleanFile(k, f)

Spec == Init /\ [][Next]_vars
-----------------------------------------------------------------------------
TypeOK ==
    /\ preview \in [state : {"NONE", "QUEUED", "READY", "PURGING", "PURGED"},
                    fence : 0..MaxAttempts, pending : BOOLEAN, manifest : BOOLEAN]
    /\ run \in [status : {"NONE", "QUEUED", "PROCESSING", "READY", "FAILED", "CANCELLED"},
                current : 0..MaxAttempts]
    /\ slots \subseteq Attempts
    /\ intent \in [Attempts -> [state : IntentState, files : [Files -> FileState]]]
    /\ at \in [Attempts -> Steps]

(* Bytes are refunded only when no capability can write them any more and  *)
(* nothing of the attempt is left; an upload session whose answer was lost *)
(* keeps its reservation for ever.                                         *)
ErasedMeansGone ==
    \A k \in Attempts : intent[k].state = "ERASED" =>
        \A f \in Files : session[k][f] # "open" /\ ~object[k][f]

(* Every open upload session is one the ledger knows of or waits for.      *)
CapabilityKnown ==
    \A k \in Attempts, f \in Files :
        session[k][f] = "open" => intent[k].files[f] \in {"INITIALIZING", "SESSION", "FINALIZED"}

(* A purged preview has nothing left of any attempt, and no coordinator,   *)
(* though one may live, that could still write: none waits for a session   *)
(* or has one, and what it plans late stays a plan.                        *)
PurgedMeansGone ==
    preview.state = "PURGED" =>
        \A k \in Attempts :
            /\ at[k] \notin {"begin", "record"}
            /\ \A f \in Files : /\ session[k][f] # "open" /\ ~object[k][f]
                                /\ intent[k].files[f] \in {"PLANNED", "STOPPED"}

WritesSound == TypeOK /\ ErasedMeansGone /\ CapabilityKnown /\ PurgedMeansGone

(* Fault: SQL alone decides what is served.                                *)
ServedBySqlFault == preview.state = "READY" /\ run.status = "READY"
(* is_published: the ledger knows the preview that SQL names.              *)
IsPublished == preview.fence \in Attempts /\ intent[preview.fence].state = "PUBLISHED"

(* preview_view: what the owner is shown.                                  *)
Served == preview.state = "READY" /\ run.status = "READY" /\ IsPublished

(* What is shown is there, whole, and not being erased.                    *)
ServedIsWhole ==
    Served => \A f \in Files : object[preview.fence][f] /\ intent[preview.fence].files[f] = "FINALIZED"
=============================================================================
