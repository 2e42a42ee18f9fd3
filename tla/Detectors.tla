------------------------------ MODULE Detectors ------------------------------
(***************************************************************************)
(* The detectors of a dataset (backend/core/recognition.py and             *)
(* recognition_api.py): a manager registers fixed versions, measures them  *)
(* on sealed snapshots, has each report reviewed by two operators and      *)
(* activates one of them.  What the dataset, a release or an account takes *)
(* back comes in between; each operation is one transaction under the      *)
(* capacity lock.  For the snapshots themselves see Studies.               *)
(***************************************************************************)
EXTENDS Naturals, Sequences

CONSTANTS Versions,     \* the versions that may be registered
          Manager,
          ReviewersOf,  \* the two operators that are assigned to each version
          Leaving,      \* bound: the accounts that end, or withdraw consent ...
          Suspended,    \* bound: ... and those that are disabled for a while
          Inputs,       \* what a snapshot of the dataset may hold
          MaxRuns       \* bound: the receipts

VARIABLES person,       \* "live", "inactive" or "left"
          grant,        \* the dataset: its measurement stands and it is not closed
          inputs,       \* what a snapshot of it would hold now
          sealed,       \* what its snapshots hold that are not invalidated
          version,      \* DetectorVersion.state, or "none"
          receipts      \* the RecognitionRuns with their reviews, in their order

vars == <<person, grant, inputs, sealed, version, receipts>>

Reviewers == UNION {ReviewersOf[d] : d \in Versions}
People == {Manager} \cup Reviewers

Init ==
    /\ person = [p \in People |-> "live"]
    /\ grant = TRUE /\ inputs \in Inputs /\ sealed = {}
    /\ version = [d \in Versions |-> "none"]
    /\ receipts = <<>>

-----------------------------------------------------------------------------
(* What counts at this moment.                                             *)

PeopleOf(d) == {Manager} \cup ReviewersOf[d]
Staffed(d) == \A p \in PeopleOf(d) : person[p] = "live"

(* current: the version may be used at all.                                *)
Current(d) == version[d] \notin {"none", "INVALIDATED"} /\ grant /\ Staffed(d)

RunsOf(d) == {i \in DOMAIN receipts : receipts[i].of = d}
LiveRunsOf(d) == {i \in RunsOf(d) : receipts[i].live}
LatestOf(d) == CHOOSE i \in LiveRunsOf(d) : \A j \in LiveRunsOf(d) : j <= i

(* live_run: the snapshot of the receipt must still be what would be       *)
(* sealed; a failure rolls back whatever asked for it.                     *)
IsStale(i) == receipts[i].basis # inputs
LiveRun(i) == receipts[i].live /\ ~IsStale(i)

Approved(i) == \A p \in ReviewersOf[receipts[i].of] : receipts[i].reviews[p] = "APPROVE"

(* invalidate_dataset: every receipt ends and its report is erased, and    *)
(* the versions end with them; a change of blind inputs leaves those that  *)
(* have not seen any.                                                      *)
InvalidateDataset(ending) ==
    /\ receipts' = [i \in DOMAIN receipts |-> [of |-> receipts[i].of, live |-> FALSE]]
    /\ version' = [d \in Versions |-> IF d \in ending /\ version[d] # "none" THEN "INVALIDATED"
                                      ELSE version[d]]
Measured == {d \in Versions : RunsOf(d) # {}}

-----------------------------------------------------------------------------
(* The manager and the reviewers.                                          *)

Register(d) ==
    /\ version[d] = "none" /\ grant /\ Staffed(d)
    /\ version' = [version EXCEPT ![d] = "REGISTERED"]
    /\ UNCHANGED <<person, grant, inputs, sealed, receipts>>

(* run: a report that shows drift stops an active version.                 *)
Run(d, passes) ==
    /\ Current(d) /\ inputs \in sealed /\ Len(receipts) < MaxRuns
    /\ receipts' = Append(receipts, [of |-> d, basis |-> inputs, passes |-> passes, live |-> TRUE,
                                     reviews |-> [p \in ReviewersOf[d] |-> "none"]])
    /\ version' = [version EXCEPT ![d] = IF @ = "ACTIVE" /\ ~passes THEN "DISABLED" ELSE @]
    /\ UNCHANGED <<person, grant, inputs, sealed>>

(* view: who looks at a version that is not authorized any more, or at a   *)
(* receipt that is stale, ends them all, but not the snapshots.            *)
StaleReceipts(d) == \E i \in LiveRunsOf(d) : IsStale(i)
View(d) ==
    /\ version[d] \notin {"none", "INVALIDATED"}
    /\ ~Current(d) \/ StaleReceipts(d)
    /\ InvalidateDataset(Versions)
    /\ UNCHANGED <<person, grant, inputs, sealed>>

(* command: the other commands are answered with the view.                 *)
Answered(d, written, versions) ==
    /\ IF StaleReceipts(d) THEN InvalidateDataset(Versions)
       ELSE receipts' = written /\ version' = versions
    /\ UNCHANGED <<person, grant, inputs, sealed>>

Review(i, p, decision) ==
    /\ Current(receipts[i].of) /\ LiveRun(i)
    /\ p \in ReviewersOf[receipts[i].of] /\ receipts[i].reviews[p] = "none"
    /\ Answered(receipts[i].of, [receipts EXCEPT ![i].reviews[p] = decision], version)

(* Whether the receipt is the one to go by.                                *)
IsLatest(i) == i = LatestOf(receipts[i].of)

(* activate: one version takes the place of another.                       *)
Activate(i) ==
    LET d == receipts[i].of
    IN  /\ Current(d) /\ LiveRun(i) /\ receipts[i].passes /\ Approved(i) /\ IsLatest(i)
        /\ Answered(d, receipts, [c \in Versions |-> IF c = d THEN "ACTIVE"
                                                     ELSE IF version[c] = "ACTIVE" THEN "DISABLED"
                                                     ELSE version[c]])

Disable(d) == Current(d) /\ Answered(d, receipts, [version EXCEPT ![d] = "DISABLED"])

-----------------------------------------------------------------------------
(* What happens to the dataset, and to the accounts.                       *)

SealSnapshot ==
    /\ grant /\ person[Manager] = "live"
    /\ inputs \notin sealed
    /\ sealed' = sealed \cup {inputs}
    /\ UNCHANGED <<person, grant, inputs, version, receipts>>

(* Time, or another study that prolongs a retention: what would be sealed  *)
(* now differs, and may agree again later.                                 *)
Drift ==
    /\ grant
    /\ inputs' \in Inputs \ {inputs}
    /\ UNCHANGED <<person, grant, sealed, version, receipts>>

(* bump of a linked study.                                                 *)
StudyChanges ==
    /\ grant
    /\ sealed' = {}
    /\ InvalidateDataset(Measured)
    /\ UNCHANGED <<person, grant, inputs>>

(* A reader of the dataset finds a snapshot stale.                         *)
ReadDataset ==
    /\ grant /\ \E held \in sealed : held # inputs
    /\ sealed' = {}
    /\ InvalidateDataset(Versions)
    /\ UNCHANGED <<person, grant, inputs>>

(* The definitions are withdrawn, or the dataset is closed.                *)
EndGrant ==
    /\ grant
    /\ grant' = FALSE /\ sealed' = {}
    /\ InvalidateDataset(Versions)
    /\ UNCHANGED <<person, inputs>>

(* erase_account of the manager ends the dataset; of a reviewer, the       *)
(* versions of every dataset in which one is assigned to him.              *)
Leave(p) ==
    /\ p \in Leaving /\ person[p] # "left"
    /\ person' = [person EXCEPT ![p] = "left"]
    /\ IF p = Manager
       THEN grant' = FALSE /\ sealed' = {} /\ InvalidateDataset(Versions)
       ELSE /\ IF \E d \in Versions : version[d] # "none" /\ p \in ReviewersOf[d]
               THEN InvalidateDataset(Versions) ELSE UNCHANGED <<version, receipts>>
            /\ UNCHANGED <<grant, sealed>>
    /\ UNCHANGED inputs

Suspend(p) ==
    /\ p \in Suspended /\ person[p] = "live"
    /\ person' = [person EXCEPT ![p] = "inactive"]
    /\ UNCHANGED <<grant, inputs, sealed, version, receipts>>
Resume(p) ==
    /\ person[p] = "inactive"
    /\ person' = [person EXCEPT ![p] = "live"]
    /\ UNCHANGED <<grant, inputs, sealed, version, receipts>>

-----------------------------------------------------------------------------
Next ==
    \/ \E d \in Versions : \/ Register(d) \/ Disable(d) \/ View(d)
                           \/ \E passes \in BOOLEAN : Run(d, passes)
    \/ \E i \in DOMAIN receipts :
           \/ Activate(i)
           \/ \E p \in Reviewers, decision \in {"APPROVE", "REJECT"} : Review(i, p, decision)
    \/ SealSnapshot \/ Drift \/ StudyChanges \/ ReadDataset \/ EndGrant
    \/ \E p \in People : Leave(p) \/ Suspend(p) \/ Resume(p)

Spec == Init /\ [][Next]_vars

-----------------------------------------------------------------------------
TypeOK ==
    /\ inputs \in Inputs /\ sealed \subseteq Inputs
    /\ \A d \in Versions :
           version[d] \in {"none", "REGISTERED", "ACTIVE", "DISABLED", "INVALIDATED"}
    /\ Len(receipts) <= MaxRuns

(* One version of a dataset is active; it has been approved by both of its *)
(* reviewers on a report that stands and passed, and nothing measured      *)
(* since shows drift, in whatever order reports come, are reviewed, and    *)
(* versions replace each other.                                            *)
ActiveIsApproved ==
    \A d \in Versions : version[d] = "ACTIVE" =>
        /\ \A c \in Versions \ {d} : version[c] # "ACTIVE"
        /\ \E i \in LiveRunsOf(d) : receipts[i].passes /\ Approved(i)
        /\ receipts[LatestOf(d)].passes

(* A report stands only while the snapshot it was made of has not been     *)
(* withdrawn and everybody who answers for it has an account.              *)
ReceiptsAreGrounded ==
    \A i \in DOMAIN receipts : receipts[i].live =>
        /\ grant /\ receipts[i].basis \in sealed
        /\ version[receipts[i].of] # "INVALIDATED"
        /\ \A p \in PeopleOf(receipts[i].of) : person[p] # "left"

DetectorsSound == TypeOK /\ ActiveIsApproved /\ ReceiptsAreGrounded
=============================================================================
