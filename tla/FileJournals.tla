---------------------------- MODULE FileJournals ----------------------------
(***************************************************************************)
(* The two journals kept as files beside the database: the control journal *)
(* of deletions and withdrawals (backend/core/control_journal.py) and the  *)
(* preview ledger (FileLedger of preview_ledger.py).  Both write a         *)
(* temporary file, rename it to a record, then do the same for a signed    *)
(* checkpoint.  They differ in what the checkpoint says: the ledger counts *)
(* its own events, the control journal signs whatever the directory holds. *)
(* A process may die between any two steps, and a restored replica may     *)
(* miss a record.                                                          *)
(***************************************************************************)
EXTENDS Naturals, FiniteSets

CONSTANTS
    Journals,     \* {"control", "ledger"}
    MaxRecords    \* records of one journal (4096 in the code)

VARIABLES
    records,     \* records[j]: numbers of the record files in the directory
    torn,        \* torn[j]: a process died and left a temporary file behind
    checkpoint,  \* checkpoint[j]: the records the signed checkpoint covers
    at,          \* at[j]: step of the process that appends (a lock serializes them)
    reported,    \* reported[j]: records whose append returned to its caller
    applied,     \* intents whose database change committed
    quarantine   \* the database and the directory were restored

vars == <<records, torn, checkpoint, at, reported, applied, quarantine>>

Numbers == 1..MaxRecords
Steps == {"idle", "written", "renamed", "checked", "mutated"}

Init == /\ records = [j \in Journals |-> {}]
        /\ torn = [j \in Journals |-> FALSE]
        /\ checkpoint = [j \in Journals |-> {}]
        /\ at = [j \in Journals |-> "idle"]
        /\ reported = [j \in Journals |-> {}]
        /\ applied = {}
        /\ quarantine = FALSE

(* The number of the record being written: nothing is ever removed.        *)
Fresh(j) == Cardinality(records[j]) + 1
Newest(j) == Cardinality(records[j])

(* Fault: a reader looks at the records and not at the checkpoint.         *)
ReadableUncheckedFault(j) == ~torn[j]
(* _read and verified_records: no half-written file, and exactly the       *)
(* records of the checkpoint.                                              *)
Readable(j) == ~torn[j] /\ records[j] = checkpoint[j]

Ready(j) == j = "control" \/ Readable(j)

(* record_intent and FileLedger.update write the record under a temporary  *)
(* name; the ledger reads itself first and refuses when it cannot.         *)
Write(j) ==
    /\ at[j] = "idle" /\ ~quarantine /\ Ready(j)
    /\ Fresh(j) \in Numbers
    /\ at' = [at EXCEPT ![j] = "written"]
    /\ UNCHANGED <<records, torn, checkpoint, reported, applied, quarantine>>

Rename(j) ==
    /\ at[j] = "written"
    /\ records' = [records EXCEPT ![j] = @ \cup {Fresh(j)}]
    /\ at' = [at EXCEPT ![j] = "renamed"]
    /\ UNCHANGED <<torn, checkpoint, reported, applied, quarantine>>

(* write_checkpoint: the control journal indexes the directory, the ledger *)
(* adds the event it has just written to the count it read.                *)
WriteCheckpoint(j) ==
    /\ at[j] = "renamed"
    /\ checkpoint' = [checkpoint EXCEPT ![j] = IF j = "control" THEN records[j]
                                               ELSE @ \cup {Newest(j)}]
    /\ at' = [at EXCEPT ![j] = "checked"]
    /\ UNCHANGED <<records, torn, reported, applied, quarantine>>

(* Fault: the caller hears of success before the checkpoint is written.    *)
ReportsEarlyFault(j) == at[j] \in {"renamed", "checked"}
Reports(j) == at[j] = "checked"

(* The append returns; only then does its caller change the database.      *)
Return(j) ==
    /\ Reports(j)
    /\ reported' = [reported EXCEPT ![j] = @ \cup {Newest(j)}]
    /\ at' = [at EXCEPT ![j] = IF j = "control" THEN "mutated" ELSE "idle"]
    /\ UNCHANGED <<records, torn, checkpoint, applied, quarantine>>

(* The transaction of the deletion or withdrawal commits or rolls back.    *)
Transact ==
    /\ at["control"] = "mutated"
    /\ at' = [at EXCEPT !["control"] = "idle"]
    /\ \/ applied' = applied \cup {Newest("control")}
       \/ UNCHANGED applied
    /\ UNCHANGED <<records, torn, checkpoint, reported, quarantine>>

(* The process dies; what it renamed stays, what it only wrote is a torn   *)
(* temporary file that nothing removes.                                    *)
Crash(j) ==
    /\ at[j] # "idle"
    /\ at' = [at EXCEPT ![j] = "idle"]
    /\ torn' = [torn EXCEPT ![j] = @ \/ at[j] = "written"]
    /\ UNCHANGED <<records, checkpoint, reported, applied, quarantine>>

(* An exception instead of a death: record_intent unlinks its temporary.   *)
WriteFails ==
    /\ at["control"] = "written"
    /\ at' = [at EXCEPT !["control"] = "idle"]
    /\ UNCHANGED <<records, torn, checkpoint, reported, applied, quarantine>>

(* Disaster: SQL comes back older, a journal's replica may miss a record.  *)
Restore(j, lost) ==
    /\ ~quarantine
    /\ quarantine' = TRUE
    /\ at' = [i \in Journals |-> "idle"]
    /\ applied' = {}
    /\ records' = [records EXCEPT ![j] = @ \ lost]
    /\ UNCHANGED <<torn, checkpoint, reported>>

(* Fault: recovery replays what it can read.                               *)
RecoveryUncheckedFault == TRUE
RecoveryAllowed == \A j \in Journals : Readable(j)

(* apply_restore_controls verifies both journals before it applies any     *)
(* intent, then applies all of them and lets the service run again.        *)
Recover ==
    /\ quarantine /\ RecoveryAllowed
    /\ applied' = records["control"]
    /\ quarantine' = FALSE
    /\ UNCHANGED <<records, torn, checkpoint, at, reported>>

Next ==
    \/ \E j \in Journals : \/ Write(j) \/ Rename(j) \/ WriteCheckpoint(j) \/ Return(j) \/ Crash(j)
                           \/ \E lost \in SUBSET Numbers : Restore(j, lost)
    \/ Transact
    \/ WriteFails
    \/ Recover

Spec == Init /\ [][Next]_vars
-----------------------------------------------------------------------------
TypeOK == /\ records \in [Journals -> SUBSET Numbers]
          /\ checkpoint \in [Journals -> SUBSET Numbers]
          /\ at \in [Journals -> Steps]
          /\ applied \subseteq Numbers

(* A journal that can be read has every record whose append returned:      *)
(* a torn, truncated or incomplete one is refused, never read short.       *)
ReadableIsComplete ==
    \A j \in Journals : Readable(j) => reported[j] \subseteq records[j]

(* A deletion the database carried out is in the journal, so that no       *)
(* restore of an older database brings it back.                            *)
AppliedIsReported == applied \subseteq reported["control"] \cup records["control"]

JournalsSound == TypeOK /\ ReadableIsComplete /\ AppliedIsReported

(* Recovery re-applies every intent ever reported: after a restore the     *)
(* service does not come back without them.                                *)
RecoveryIsComplete ==
    [][quarantine /\ ~quarantine' => reported["control"] \subseteq applied']_vars
=============================================================================
