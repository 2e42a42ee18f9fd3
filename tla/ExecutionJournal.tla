-------------------------- MODULE ExecutionJournal --------------------------
(***************************************************************************)
(* Batch preview workers and the independent journal of their executions   *)
(* (backend/core/cloud_execution.py, batch_preview.py and the hosted path  *)
(* of dispatch.py).  An execution is planned, then marked as submitting,   *)
(* then created remotely; cancelling writes a tombstone for the run before *)
(* it touches the rows and before SQL; a maintenance pass stops what must  *)
(* stop and refunds a slot only on proof that the machine is gone.         *)
(*                                                                         *)
(* A journal update is one step (module CloudLog says why that is sound).  *)
(* An attempt is a run and the number of its claim; a fence that moved on  *)
(* is current = 0.                                                         *)
(***************************************************************************)
EXTENDS Naturals, FiniteSets

CONSTANTS
    Runs,         \* preview runs
    MaxAttempts,  \* claims of a run (bounds the model and the code)
    SlotLimit     \* physical workers at one time (two in the code)

VARIABLES
    run,        \* run[r]: status, number of claims, attempt the fence names
    slot,       \* slot[a]: "none", "open", "stop" (requested) or "released"
    row,        \* row[a]: the reduced journal row of an attempt
    tombs,      \* runs with a revocation record in the journal
    vm,         \* vm[a]: the Batch job and its machine
    launcher,   \* launcher[a]: where the dispatch that claimed a stands
    canceller,  \* canceller[r]: where a cancellation of r stands
    pass,       \* pass[a]: the maintenance pass over a, with what it has read
    quarantine  \* SQL was restored and recovery has not finished

sql == <<run, slot>>
vars == <<run, slot, row, tombs, vm, launcher, canceller, pass, quarantine>>

Attempts == Runs \X (1..MaxAttempts)
Of(r) == {a \in Attempts : a[1] = r}

RowState == {"NONE", "PLANNED", "SUBMITTING", "ACTIVE", "STOPPING", "STOPPED"}
Row == [state : RowState, uid : BOOLEAN, op : BOOLEAN, revoked : BOOLEAN]
NoRow == [state |-> "NONE", uid |-> FALSE, op |-> FALSE, revoked |-> FALSE]

Transitions == [s \in RowState |->
    CASE s = "NONE"       -> {"PLANNED"}
      [] s = "PLANNED"    -> {"PLANNED", "SUBMITTING", "STOPPED"}
      [] s = "SUBMITTING" -> {"SUBMITTING", "ACTIVE", "STOPPING", "STOPPED"}
      [] s = "ACTIVE"     -> {"ACTIVE", "STOPPING"}
      [] s = "STOPPING"   -> {"STOPPING", "STOPPED"}
      [] s = "STOPPED"    -> {"STOPPED"}]

Idle == [pc |-> "idle", stop |-> FALSE, seen |-> NoRow, body |-> "none"]

Init == /\ run = [r \in Runs |-> [status |-> "QUEUED", claims |-> 0, current |-> 0]]
        /\ slot = [a \in Attempts |-> "none"]
        /\ row = [a \in Attempts |-> NoRow]
        /\ tombs = {}
        /\ vm = [a \in Attempts |-> "none"]
        /\ launcher = [a \in Attempts |-> "none"]
        /\ canceller = [r \in Runs |-> "idle"]
        /\ pass = [a \in Attempts |-> Idle]
        /\ quarantine = FALSE
-----------------------------------------------------------------------------
(* Fault: a tombstone stops only executions that are not planned yet.      *)
AcceptsAfterPlanFault(a, new) ==
    /\ new.state \in Transitions[row[a].state]
    /\ row[a].state = "NONE" => a[1] \notin tombs
(* update: pins and transitions are checked before signing, and a revoked  *)
(* run takes neither a new row nor a row that is (still) submitting.       *)
Accepts(a, new) ==
    /\ new.state \in Transitions[row[a].state]
    /\ (row[a].state = "NONE" \/ new.state = "SUBMITTING") => a[1] \notin tombs

WithRow(a, new) == row' = [row EXCEPT ![a] = new]

Revoked(r) == r \in tombs \/ \E a \in Of(r) : row[a].revoked
Allowed(a) == /\ ~Revoked(a[1])
              /\ row[a].state \in {"SUBMITTING", "ACTIVE"}

(* extra_slots: a row that is not stopped and that no open slot accounts   *)
(* for holds capacity too.                                                 *)
OpenSlots == {a \in Attempts : slot[a] \in {"open", "stop"}}
ExtraSlots == {a \in Attempts : row[a].state \notin {"NONE", "STOPPED"}} \ OpenSlots
CapacityFree == Cardinality(OpenSlots) + Cardinality(ExtraSlots) < SlotLimit

(* acknowledge_stopped: free the slot; a current attempt is queued again.  *)
Acknowledged(a) ==
    /\ slot' = [slot EXCEPT ![a] = IF a \in OpenSlots THEN "released" ELSE @]
    /\ run' = IF a \in OpenSlots /\ run[a[1]].status = "PROCESSING" /\ run[a[1]].current = a[2]
              THEN [run EXCEPT ![a[1]].status = "QUEUED", ![a[1]].current = 0]
              ELSE run

(* Locks: a cancellation holds its owner's lock from tombstone to commit.  *)
Unlocked(r) == canceller[r] = "idle"
-----------------------------------------------------------------------------
(* launch_dispatch, first transaction: claim_run and the durable LAUNCHING.*)
Claim(r) ==
    /\ run[r].status = "QUEUED" /\ Unlocked(r) /\ ~quarantine
    /\ \/ /\ Revoked(r)
          /\ run' = [run EXCEPT ![r].status = "CANCELLED"]
          /\ UNCHANGED <<slot, launcher>>
       \/ /\ ~Revoked(r) /\ Of(r) \cap OpenSlots = {}
          /\ run[r].claims = MaxAttempts
          /\ run' = [run EXCEPT ![r].status = "FAILED"]
          /\ UNCHANGED <<slot, launcher>>
       \/ /\ ~Revoked(r) /\ Of(r) \cap OpenSlots = {}
          /\ run[r].claims < MaxAttempts /\ CapacityFree
          /\ LET n == run[r].claims + 1 IN
             /\ run' = [run EXCEPT ![r] = [status |-> "PROCESSING", claims |-> n, current |-> n]]
             /\ slot' = [slot EXCEPT ![<<r, n>>] = "open"]
             /\ launcher' = [launcher EXCEPT ![<<r, n>>] = "plan"]
    /\ UNCHANGED <<row, tombs, vm, canceller, pass, quarantine>>

At(a, step) == launcher[a] = step
GoTo(a, step) == launcher' = [launcher EXCEPT ![a] = step]

(* plan: the row exists before anything remote does.                       *)
Plan(a) ==
    /\ At(a, "plan")
    /\ LET new == [NoRow EXCEPT !.state = "PLANNED"] IN
       \/ Accepts(a, new) /\ WithRow(a, new) /\ GoTo(a, "submit")
       \/ ~Accepts(a, new) /\ GoTo(a, "rejected") /\ UNCHANGED row
    /\ UNCHANGED <<run, slot, tombs, vm, canceller, pass, quarantine>>

(* SUBMITTING is durable before the creation RPC.  A tombstone rejects the *)
(* launch; a row that was stopped meanwhile raises and leaves LAUNCHING.   *)
Submit(a) ==
    /\ At(a, "submit")
    /\ LET new == [row[a] EXCEPT !.state = "SUBMITTING"] IN
       \/ Accepts(a, new) /\ WithRow(a, new) /\ GoTo(a, "create")
       \/ /\ ~Accepts(a, new)
          /\ GoTo(a, IF a[1] \in tombs THEN "rejected" ELSE "uncertain")
          /\ UNCHANGED row
    /\ UNCHANGED <<run, slot, tombs, vm, canceller, pass, quarantine>>

(* provider.create: done, refused for certain, or unknown, and then the    *)
(* request may still be executed.                                          *)
Create(a) ==
    /\ At(a, "create")
    /\ \/ /\ GoTo(a, "receipt")
          /\ vm' = [vm EXCEPT ![a] = "live"]
          /\ UNCHANGED row
       \/ /\ GoTo(a, "uncertain")
          /\ vm' = [vm EXCEPT ![a] = "requested"]
          /\ UNCHANGED row
       \/ /\ GoTo(a, "rejected")
          /\ row' = IF "STOPPED" \in Transitions[row[a].state]
                    THEN [row EXCEPT ![a].state = "STOPPED"] ELSE row
          /\ UNCHANGED vm
    /\ UNCHANGED <<run, slot, tombs, canceller, pass, quarantine>>

(* Fault: a receipt the archive could not take counts as a rejection.      *)
ReceiptLostIsRejectionFault(a) == GoTo(a, "rejected")
ReceiptLost(a) == GoTo(a, "uncertain")

(* The receipt is recorded even after a stop was requested; an outage      *)
(* makes the launch uncertain, never rejected.                             *)
Receipt(a) ==
    /\ At(a, "receipt")
    /\ \/ /\ WithRow(a, [row[a] EXCEPT !.uid = TRUE,
                         !.state = IF @ = "SUBMITTING" THEN "ACTIVE" ELSE @])
          /\ GoTo(a, "done")
       \/ ReceiptLost(a) /\ UNCHANGED row
    /\ UNCHANGED <<run, slot, tombs, vm, canceller, pass, quarantine>>

(* launch_dispatch after an explicit rejection: no execution was created.  *)
Rejected(a) ==
    /\ At(a, "rejected") /\ Unlocked(a[1])
    /\ Acknowledged(a)
    /\ GoTo(a, "done")
    /\ UNCHANGED <<row, tombs, vm, canceller, pass, quarantine>>

(* The dispatcher's process dies, or an outage of the archive stops it     *)
(* between two of its steps: what it had not done yet is not done.         *)
LauncherStops(a) ==
    /\ launcher[a] \in {"plan", "submit", "create", "receipt", "rejected"}
    /\ GoTo(a, "uncertain")
    /\ UNCHANGED <<run, slot, row, tombs, vm, canceller, pass, quarantine>>
-----------------------------------------------------------------------------
(* cancel_run and stop_runs: the tombstone first, then the rows, then SQL. *)
Tombstone(r) ==
    /\ canceller[r] = "idle"
    /\ run[r].status \in {"QUEUED", "PROCESSING", "CANCELLED"}
    /\ tombs' = tombs \cup {r}
    /\ canceller' = [canceller EXCEPT ![r] = "rows"]
    /\ UNCHANGED <<run, slot, row, vm, launcher, pass, quarantine>>

StopNeeded(r) == {a \in Of(r) : row[a].state # "NONE" /\ ~row[a].revoked}

StopRow(a) ==
    /\ canceller[a[1]] = "rows" /\ a \in StopNeeded(a[1])
    /\ WithRow(a, [row[a] EXCEPT !.revoked = TRUE,
                   !.state = IF @ \in {"PLANNED", "STOPPED"} THEN "STOPPED" ELSE "STOPPING"])
    /\ UNCHANGED <<run, slot, tombs, vm, launcher, canceller, pass, quarantine>>

CancelCommits(r) ==
    /\ canceller[r] = "rows" /\ StopNeeded(r) = {}
    /\ run' = [run EXCEPT ![r].status = "CANCELLED", ![r].current = 0]
    /\ slot' = [a \in Attempts |->
                    IF a \in Of(r) /\ slot[a] = "open" THEN "stop" ELSE slot[a]]
    /\ canceller' = [canceller EXCEPT ![r] = "idle"]
    /\ UNCHANGED <<row, tombs, vm, launcher, pass, quarantine>>

(* A crash or an outage at any point rolls SQL back and keeps the journal. *)
CancelRollsBack(r) ==
    /\ canceller[r] = "rows"
    /\ canceller' = [canceller EXCEPT ![r] = "idle"]
    /\ UNCHANGED <<run, slot, row, tombs, vm, launcher, pass, quarantine>>
-----------------------------------------------------------------------------
(* The remote side: a request of unknown outcome is executed or dropped,   *)
(* a job ends, a deletion takes its machine away, the job leaves last.     *)
RequestResolves(a) ==
    /\ vm[a] = "requested"
    /\ \E s \in {"live", "none"} : vm' = [vm EXCEPT ![a] = s]
    /\ UNCHANGED <<run, slot, row, tombs, launcher, canceller, pass, quarantine>>
TaskEnds(a) ==
    /\ vm[a] = "live"
    /\ vm' = [vm EXCEPT ![a] = "ended"]
    /\ UNCHANGED <<run, slot, row, tombs, launcher, canceller, pass, quarantine>>
DeletionEnds(a) ==
    /\ vm[a] = "deleting"
    /\ vm' = [vm EXCEPT ![a] = "gone"]
    /\ UNCHANGED <<run, slot, row, tombs, launcher, canceller, pass, quarantine>>

(* reconcile_runs: a stale lease, or a run no longer processing, asks for  *)
(* the slot's stop.                                                        *)
RequestStop(a) ==
    /\ slot[a] = "open"
    /\ slot' = [slot EXCEPT ![a] = "stop"]
    /\ UNCHANGED <<run, row, tombs, vm, launcher, canceller, pass, quarantine>>
-----------------------------------------------------------------------------
(* reconcile over one row: the events are read once, the row kept as read. *)
PassAt(a, step) == pass[a].pc = step
Jump(a, step) == pass' = [pass EXCEPT ![a].pc = step]
Leave(a) == pass' = [pass EXCEPT ![a] = Idle]
JumpWith(a, step, new) == pass' = [pass EXCEPT ![a].pc = step, ![a].seen = new]
PassFrame == UNCHANGED <<tombs, launcher, canceller, quarantine>>

MustStop(a) ==
    \/ quarantine
    \/ Revoked(a[1])
    \/ slot[a] # "open"
    \/ run[a[1]].status # "PROCESSING"

PassBegins(a) ==
    /\ \A b \in Attempts : PassAt(b, "idle")   \* one maintenance pass at a time
    /\ row[a].state # "NONE"
    /\ pass' = [pass EXCEPT ![a] = [pc |-> "planned", stop |-> MustStop(a),
                                    seen |-> row[a], body |-> "none"]]
    /\ PassFrame /\ UNCHANGED <<run, slot, row, vm>>

(* A planned row that must stop is stopped without an RPC, unless a        *)
(* launcher was faster; then it is stopping.                               *)
PassStopsPlanned(a) ==
    /\ PassAt(a, "planned")
    /\ \/ /\ ~(pass[a].seen.state = "PLANNED" /\ pass[a].stop)
          /\ Jump(a, "inspect")
          /\ UNCHANGED row
       \/ /\ pass[a].seen.state = "PLANNED" /\ pass[a].stop
          /\ LET new == [row[a] EXCEPT !.state = IF @ = "PLANNED" THEN "STOPPED" ELSE "STOPPING"]
             IN  \/ Accepts(a, new) /\ WithRow(a, new) /\ JumpWith(a, "inspect", new)
                 \/ ~Accepts(a, new) /\ Leave(a) /\ UNCHANGED row
    /\ PassFrame /\ UNCHANGED <<run, slot, vm>>

Present(a) == vm[a] \in {"live", "ended", "deleting"}

(* inspect: the job as it is now; a missing uid is recovered from it.      *)
PassInspects(a) ==
    /\ PassAt(a, "inspect")
    /\ \/ pass[a].seen.state = "STOPPED" /\ Jump(a, "ack") /\ UNCHANGED row
       \/ /\ pass[a].seen.state # "STOPPED"
          /\ (~Present(a) \/ pass[a].seen.uid)
          /\ pass' = [pass EXCEPT ![a].pc = "mark",
                                  ![a].body = IF Present(a) THEN vm[a] ELSE "none"]
          /\ UNCHANGED row
       \/ /\ pass[a].seen.state # "STOPPED"
          /\ Present(a) /\ ~pass[a].seen.uid
          /\ LET new == [row[a] EXCEPT !.uid = TRUE] IN
             \/ /\ Accepts(a, new) /\ WithRow(a, new)
                /\ pass' = [pass EXCEPT ![a].pc = "mark", ![a].body = vm[a], ![a].seen = new]
             \/ ~Accepts(a, new) /\ Leave(a) /\ UNCHANGED row
    /\ PassFrame /\ UNCHANGED <<run, slot, vm>>

Terminal(body) == body \in {"ended", "deleting"}

PassMarksStopping(a) ==
    /\ PassAt(a, "mark")
    /\ LET stopping == pass[a].stop \/ Terminal(pass[a].body) \/ pass[a].seen.state = "STOPPING"
           new == [row[a] EXCEPT !.state = "STOPPING"]
       IN  \/ ~stopping /\ Leave(a) /\ UNCHANGED row
           \/ stopping /\ Accepts(a, new) /\ WithRow(a, new) /\ JumpWith(a, "delete", new)
           \/ stopping /\ ~Accepts(a, new) /\ Leave(a) /\ UNCHANGED row
    /\ PassFrame /\ UNCHANGED <<run, slot, vm>>

(* delete, then its receipt; both are repeated by a later pass if lost.    *)
PassDeletes(a) ==
    /\ PassAt(a, "delete")
    /\ \/ /\ ~(pass[a].seen.uid /\ ~pass[a].seen.op /\ pass[a].body # "none")
          /\ Jump(a, "prove")
          /\ UNCHANGED <<row, vm>>
       \/ /\ pass[a].seen.uid /\ ~pass[a].seen.op /\ pass[a].body # "none" /\ Present(a)
          /\ vm' = [vm EXCEPT ![a] = "deleting"]
          /\ LET new == [row[a] EXCEPT !.state = "STOPPING", !.op = TRUE] IN
             \/ Accepts(a, new) /\ WithRow(a, new) /\ JumpWith(a, "prove", new)
             \/ Leave(a) /\ UNCHANGED row
       \/ /\ pass[a].seen.uid /\ ~pass[a].seen.op /\ pass[a].body # "none" /\ ~Present(a)
          /\ Leave(a)
          /\ UNCHANGED <<row, vm>>
    /\ PassFrame /\ UNCHANGED <<run, slot>>

(* Fault: a job the provider no longer knows is proof enough.              *)
ProvenByAbsenceFault(a) == ~Present(a)
(* stopped: the deletion operation is done, no machine carries the job's   *)
(* uid, and the job is absent.                                             *)
Proven(a) == pass[a].seen.uid /\ pass[a].seen.op /\ vm[a] = "gone"

PassProvesStopped(a) ==
    /\ PassAt(a, "prove")
    /\ LET new == [row[a] EXCEPT !.state = "STOPPED"] IN
       \/ ~Proven(a) /\ Leave(a) /\ UNCHANGED row
       \/ Proven(a) /\ Accepts(a, new) /\ WithRow(a, new) /\ JumpWith(a, "ack", new)
    /\ PassFrame /\ UNCHANGED <<run, slot, vm>>

PassAcknowledges(a) ==
    /\ PassAt(a, "ack") /\ Unlocked(a[1])
    /\ Acknowledged(a)
    /\ Leave(a)
    /\ PassFrame /\ UNCHANGED <<row, vm>>

(* An outage of the archive or of the provider ends the pass over a row.   *)
PassFails(a) ==
    /\ pass[a].pc \in {"planned", "inspect", "mark", "delete", "prove", "ack"}
    /\ Leave(a)
    /\ PassFrame /\ UNCHANGED <<run, slot, row, vm>>
-----------------------------------------------------------------------------
(* SQL is restored from before every claim: slots are forgotten, processes *)
(* are stopped first, the journals and the machines stay.                  *)
Restore ==
    /\ ~quarantine
    /\ quarantine' = TRUE
    /\ run' = [r \in Runs |-> [status |-> "CANCELLED", claims |-> MaxAttempts, current |-> 0]]
    /\ slot' = [a \in Attempts |-> "none"]
    /\ launcher' = [a \in Attempts |-> "none"]
    /\ canceller' = [r \in Runs |-> "idle"]
    /\ pass' = [a \in Attempts |-> Idle]
    /\ UNCHANGED <<row, tombs, vm>>

(* apply_restore_controls ends without error: every row is stopped.  Runs  *)
(* queued afterwards are new, and have attempts the journal never saw.     *)
Released ==
    /\ quarantine
    /\ \A a \in Attempts : row[a].state \in {"NONE", "STOPPED"}
    /\ quarantine' = FALSE
    /\ UNCHANGED <<run, slot, row, tombs, vm, launcher, canceller, pass>>

LauncherStep(a) == Plan(a) \/ Submit(a) \/ Create(a) \/ Receipt(a) \/ Rejected(a)
PassStep(a) == \/ PassBegins(a) \/ PassStopsPlanned(a) \/ PassInspects(a)
               \/ PassMarksStopping(a) \/ PassDeletes(a) \/ PassProvesStopped(a)
               \/ PassAcknowledges(a)
RemoteStep(a) == RequestResolves(a) \/ TaskEnds(a) \/ DeletionEnds(a)

Next ==
    \/ \E r \in Runs : Claim(r) \/ Tombstone(r) \/ CancelCommits(r) \/ CancelRollsBack(r)
    \/ \E a \in Attempts : \/ LauncherStep(a) \/ LauncherStops(a) \/ StopRow(a)
                           \/ RemoteStep(a) \/ RequestStop(a)
                           \/ PassStep(a) \/ PassFails(a)
    \/ Restore
    \/ Released

Spec == Init /\ [][Next]_vars
-----------------------------------------------------------------------------
TypeOK ==
    /\ run \in [Runs -> [status : {"QUEUED", "PROCESSING", "CANCELLED", "FAILED"},
                         claims : 0..MaxAttempts, current : 0..MaxAttempts]]
    /\ slot \in [Attempts -> {"none", "open", "stop", "released"}]
    /\ row \in [Attempts -> Row]
    /\ tombs \subseteq Runs
    /\ vm \in [Attempts -> {"none", "requested", "live", "ended", "deleting", "gone"}]
    /\ quarantine \in BOOLEAN

(* A machine that may run, or may still come to run.                       *)
MayRun(a) == vm[a] \in {"requested", "live", "ended", "deleting"} \/ launcher[a] = "create"

(* A slot is refunded, and a row stopped, only when no machine of the      *)
(* attempt runs or can still be created: not on a timeout, a lost receipt, *)
(* an ended task or an absent job.                                         *)
RefundNeedsProof ==
    \A a \in Attempts : (slot[a] = "released" \/ row[a].state = "STOPPED") => ~MayRun(a)

(* Every machine is accounted for by an open slot or, when the database    *)
(* lost it, by its journal row, so there are never more than the limit.    *)
MachinesAccounted ==
    /\ \A a \in Attempts : MayRun(a) => a \in OpenSlots \cup ExtraSlots
    /\ Cardinality({a \in Attempts : MayRun(a)}) <= SlotLimit

ExecutionsSound == TypeOK /\ RefundNeedsProof /\ MachinesAccounted

(* Once the journal holds a run's tombstone no attempt of it is submitted, *)
(* whatever SQL says, a rollback or a restore included.                    *)
TombstoneIsFinal ==
    [][\A a \in Attempts : a[1] \in tombs =>
           /\ (row[a].state # "SUBMITTING" => row[a].state' # "SUBMITTING")
           /\ (launcher[a] # "create" => launcher'[a] # "create")]_vars

(* reconcile finds the uid of a job whose receipt was lost.                *)
UidRecovered ==
    \A a \in Attempts :
        [](vm[a] = "live" /\ launcher[a] = "uncertain" => <>(row[a].uid \/ vm[a] # "live" \/ quarantine))
=============================================================================
