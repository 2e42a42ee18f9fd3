------------------------------- MODULE Studies -------------------------------
(***************************************************************************)
(* Pilot studies and the dataset that some of them feed (backend/core/     *)
(* pilots.py, pilot_reports.py, datasets.py): a player registers one       *)
(* recording with studies that keep it longer than the account would,      *)
(* reviewers label it, a manager freezes the studies, generates reports,   *)
(* seals snapshots and imports facts from them.  Time, withdrawals, the    *)
(* end of accounts and of recordings, and the withdrawal of the measured   *)
(* definition come in between; each operation is one transaction under the *)
(* capacity lock.                                                          *)
(***************************************************************************)
EXTENDS Naturals, FiniteSets

CONSTANTS Studies,      \* the studies, all of one manager
          Linkings,     \* which of them may have been created for the dataset
          Expiry,       \* the end of each study's audit, when its consents end
          Original,     \* the end of the recording's retention in its account
          Reviewed,     \* bound: the studies that invite the reviewer
          MaxTime       \* bound: the clock

VARIABLES linked,       \* DatasetStudy: the studies of the dataset
          now,
          measurement,  \* the dataset's definitions: "effective", "retired", "withdrawn"
          study,        \* PilotStudy.state
          member,       \* PilotEnrollment of the player and of the reviewer
          split,        \* the player's split
          session,      \* whether the player's session is recorded
          capture,      \* PilotCapture: "none", "live" or "withdrawn"
          original,     \* its original_retain_until
          label,        \* PilotTask: "none", "task", or "reviewed"
          report,       \* the reports of the study's revision
          asset,        \* the recording: kept or not, and until when
          dataset,      \* DatasetCollection.state
          partition,    \* DatasetPartition: the player's split
          snapshot,     \* the last DatasetSnapshot
          imported      \* whether facts of the snapshot are live

vars == <<linked, now, measurement, study, member, split, session, capture, original, label,
          report, asset, dataset, partition, snapshot, imported>>
evidence == <<session, capture, original, label>>
sealed == <<snapshot, imported>>

Roles == {"player", "reviewer"}
Splits == {"development", "held-out"}
NoContent == <<>>

Init ==
    /\ linked \in Linkings
    /\ now = 0 /\ measurement = "effective"
    /\ study = [s \in Studies |-> "COLLECTING"]
    /\ member = [s \in Studies |-> [r \in Roles |-> "none"]]
    /\ split = [s \in Studies |-> "development"]
    /\ session = [s \in Studies |-> FALSE]
    /\ capture = [s \in Studies |-> "none"]
    /\ original = [s \in Studies |-> 0]
    /\ label = [s \in Studies |-> "none"]
    /\ report = [s \in Studies |-> NoContent]
    /\ asset = [kept |-> TRUE, until |-> Original]
    /\ dataset = "COLLECTING" /\ partition = "none"
    /\ snapshot = NoContent /\ imported = FALSE

-----------------------------------------------------------------------------
(* What counts at this moment.                                             *)

LiveMeasurement ==
    /\ dataset # "CLOSED"
    /\ measurement = "effective" \/ (measurement = "retired" /\ dataset = "FROZEN")

Active(s, r) == member[s][r] = "ACTIVE" /\ Expiry[s] > now

LiveCapture(s) ==
    /\ capture[s] = "live" /\ asset.kept /\ asset.until > now /\ Active(s, "player")
    /\ s \in linked => LiveMeasurement

FinalLabel(s) == label[s] = "reviewed" /\ Active(s, "reviewer")

(* snapshot: what the reports of a study are made from.                    *)
Content(s) ==
    [members |-> {r \in Roles : Active(s, r)},
     session |-> session[s] /\ Active(s, "player"),
     captured |-> LiveCapture(s),
     labelled |-> LiveCapture(s) /\ FinalLabel(s)]

(* material: what a snapshot of the dataset seals, its inputs being frozen *)
(* and complete.                                                           *)
Sealable ==
    /\ dataset = "FROZEN" /\ \E s \in linked : capture[s] = "live"
    /\ \A s \in linked : /\ study[s] = "FROZEN"
                         /\ capture[s] = "live" => LiveCapture(s) /\ FinalLabel(s)

Material ==
    [studies |-> [s \in linked |-> Content(s)],
     until |-> asset.until]

(* study_for, and what depends on the state of the study.                  *)
Open(s) ==
    /\ study[s] # "CLOSED"
    /\ s \in linked => LiveMeasurement
Collecting(s) == Open(s) /\ study[s] = "COLLECTING"

-----------------------------------------------------------------------------
(* What a change invalidates.                                              *)

InvalidateDataset(yes) ==
    /\ snapshot' = IF yes THEN NoContent ELSE snapshot
    /\ imported' = (imported /\ ~yes)

BumpReportsFault(S) ==
    /\ report' = [s \in Studies |-> IF s \in S THEN NoContent ELSE report[s]]
    /\ InvalidateDataset(\E s \in S : s \in linked /\ study[s] = "COLLECTING")

(* bump: a new revision, for which no report has been generated yet.       *)
Bump(S) ==
    /\ report' = [s \in Studies |-> IF s \in S THEN NoContent ELSE report[s]]
    /\ InvalidateDataset(S \cap linked # {})

Largest(S) == CHOOSE x \in S : \A y \in S : y <= x

(* The retention that is left when the captures of S are withdrawn.        *)
Others(S) == {s \in Studies \ S : capture[s] = "live" /\ Active(s, "player")}
Restored(S) ==
    IF \E s \in S : capture[s] = "live"
    THEN LET s == CHOOSE t \in S : capture[t] = "live"
         IN  [asset EXCEPT !.until = Largest({original[s]} \cup {Expiry[t] : t \in Others(S)})]
    ELSE asset

(* erase_enrollment, for the members with role r of the studies of S.      *)
Erase(S, r) ==
    /\ member' = [s \in Studies |-> IF s \in S THEN [member[s] EXCEPT ![r] = "WITHDRAWN"]
                                    ELSE member[s]]
    /\ IF r = "player"
       THEN /\ session' = [s \in Studies |-> session[s] /\ s \notin S]
            /\ capture' = [s \in Studies |-> IF s \in S THEN "none" ELSE capture[s]]
            /\ label' = [s \in Studies |-> IF s \in S THEN "none" ELSE label[s]]
            /\ original' = [s \in Studies |-> IF s \in S THEN 0 ELSE original[s]]
            /\ asset' = Restored(S)
       ELSE /\ label' = [s \in Studies |-> IF s \in S /\ label[s] = "reviewed" THEN "task"
                                           ELSE label[s]]
            /\ UNCHANGED <<session, capture, original, asset>>
    /\ Bump(S)

-----------------------------------------------------------------------------
(* Members and what they add.                                              *)

Enroll(s, r) ==
    /\ study[s] = "COLLECTING" /\ Expiry[s] > now /\ member[s][r] = "none"
    /\ r = "reviewer" => s \in Reviewed
    /\ member' = [member EXCEPT ![s][r] = "ACTIVE"]
    /\ Bump({s})
    /\ UNCHANGED <<now, measurement, study, split, evidence, asset, dataset, partition>>

(* assign_split, and check_split of the dataset.                           *)
AssignSplit(s, x) ==
    /\ Collecting(s) /\ member[s]["player"] = "ACTIVE" /\ ~session[s]
    /\ s \in linked => /\ \A t \in linked \ {s} : session[t] => split[t] = x
                       /\ partition \in {"none", x}
    /\ split[s] # x
    /\ split' = [split EXCEPT ![s] = x]
    /\ Bump({s})
    /\ UNCHANGED <<now, measurement, study, member, evidence, asset, dataset, partition>>

(* session_guard of the dataset: its first session decides the split.      *)
SessionGuard(s) ==
    IF s \in linked
    THEN dataset = "COLLECTING" /\ partition \in {"none", split[s]} /\ partition' = split[s]
    ELSE UNCHANGED partition

AddSession(s) ==
    /\ Collecting(s) /\ Active(s, "player") /\ ~session[s]
    /\ session' = [session EXCEPT ![s] = TRUE]
    /\ SessionGuard(s)
    /\ Bump({s})
    /\ UNCHANGED <<now, measurement, study, member, split, capture, original, label, asset, dataset>>

OriginalIsCurrentFault == asset.until

(* What the account itself keeps the recording for, asked of the study     *)
(* that has registered it first.                                           *)
OriginalOfAsset ==
    IF \E t \in Studies : capture[t] = "live"
    THEN original[CHOOSE t \in Studies : capture[t] = "live"] ELSE asset.until

(* capture_pin of the dataset, in which a source has one place.            *)
CapturePin(s) == s \in linked => \A t \in linked : capture[t] = "none"

AddCapture(s) ==
    /\ Collecting(s) /\ Active(s, "player") /\ session[s] /\ capture[s] = "none"
    /\ asset.kept /\ asset.until > now
    /\ CapturePin(s)
    /\ capture' = [capture EXCEPT ![s] = "live"]
    /\ original' = [original EXCEPT ![s] = OriginalOfAsset]
    /\ asset' = [asset EXCEPT !.until = Largest({@, Expiry[s]})]
    /\ Bump({s})
    /\ UNCHANGED <<now, measurement, study, member, split, session, label, dataset, partition>>

AddTask(s) ==
    /\ Collecting(s) /\ LiveCapture(s) /\ Active(s, "reviewer") /\ label[s] = "none"
    /\ label' = [label EXCEPT ![s] = "task"]
    /\ Bump({s})
    /\ UNCHANGED <<now, measurement, study, member, split, session, capture, original, asset,
                   dataset, partition>>

ReviewTask(s) ==
    /\ Open(s) /\ LiveCapture(s) /\ Active(s, "reviewer") /\ label[s] = "task"
    /\ label' = [label EXCEPT ![s] = "reviewed"]
    /\ Bump({s})
    /\ UNCHANGED <<now, measurement, study, member, split, session, capture, original, asset,
                   dataset, partition>>

-----------------------------------------------------------------------------
(* The manager: freeze, report, seal, import, close.                       *)

FreezeStudy(s) ==
    /\ Collecting(s)
    /\ study' = [study EXCEPT ![s] = "FROZEN"]
    /\ UNCHANGED <<now, measurement, member, split, evidence, report, asset, dataset, partition, sealed>>

FreezeDataset ==
    /\ dataset = "COLLECTING" /\ LiveMeasurement
    /\ linked # {} /\ \A s \in linked : study[s] # "CLOSED"
    /\ dataset' = "FROZEN"
    /\ study' = [s \in Studies |-> IF s \in linked THEN "FROZEN" ELSE study[s]]
    /\ UNCHANGED <<now, measurement, member, split, evidence, report, asset, partition, sealed>>

(* generate: reports that no longer match are replaced in a new revision.  *)
Generate(s) ==
    /\ Open(s) /\ study[s] = "FROZEN" /\ report[s] # Content(s)
    /\ report' = [report EXCEPT ![s] = Content(s)]
    /\ InvalidateDataset(report[s] # NoContent /\ s \in linked)
    /\ UNCHANGED <<now, measurement, study, member, split, evidence, asset, dataset, partition>>

Seal ==
    /\ LiveMeasurement /\ Sealable /\ snapshot # Material
    /\ snapshot = NoContent    \* bound: the last one is read before another is sealed
    /\ snapshot' = Material
    /\ UNCHANGED <<now, measurement, study, member, split, evidence, report, asset, dataset,
                   partition, imported>>

(* canonical_measurement: the snapshot is compared with what would be      *)
(* sealed now.                                                             *)
Import ==
    /\ snapshot # NoContent /\ ~imported
    /\ LiveMeasurement /\ Sealable /\ snapshot = Material
    /\ imported' = TRUE
    /\ UNCHANGED <<now, measurement, study, member, split, evidence, report, asset, dataset,
                   partition, snapshot>>

(* The workspace is shown, or a snapshot fetched: what is stale is erased. *)
ReadDataset ==
    /\ dataset # "CLOSED" /\ snapshot # NoContent
    /\ ~(LiveMeasurement /\ Sealable /\ snapshot = Material)
    /\ InvalidateDataset(TRUE)
    /\ UNCHANGED <<now, measurement, study, member, split, evidence, report, asset, dataset, partition>>

(* close_study: its active members are erased one by one.                  *)
Close(S) ==
    LET players == {s \in S : member[s]["player"] = "ACTIVE"}
        reviewers == {s \in S : member[s]["reviewer"] = "ACTIVE"}
    IN  /\ study' = [s \in Studies |-> IF s \in S THEN "CLOSED" ELSE study[s]]
        /\ member' = [s \in Studies |->
               [r \in Roles |-> IF s \in S /\ member[s][r] = "ACTIVE" THEN "WITHDRAWN"
                                ELSE member[s][r]]]
        /\ session' = [s \in Studies |-> session[s] /\ s \notin S]
        /\ capture' = [s \in Studies |-> IF s \in S THEN "none" ELSE capture[s]]
        /\ original' = [s \in Studies |-> IF s \in S THEN 0 ELSE original[s]]
        /\ label' = [s \in Studies |-> IF s \in S THEN "none" ELSE label[s]]
        /\ asset' = Restored(players)
        /\ report' = [s \in Studies |-> IF s \in players \cup reviewers THEN NoContent ELSE report[s]]

CloseStudy(s) ==
    /\ study[s] # "CLOSED"
    /\ Close({s})
    /\ InvalidateDataset(s \in linked /\ \E r \in Roles : member[s][r] = "ACTIVE")
    /\ UNCHANGED <<now, measurement, split, dataset, partition>>

(* datasets.close closes the studies of the dataset, the end of the        *)
(* manager's account all of them.                                          *)
CloseDataset(S) ==
    /\ dataset # "CLOSED" /\ S \in {linked, Studies}
    /\ Close({s \in S : study[s] # "CLOSED"})
    /\ dataset' = "CLOSED" /\ partition' = "none"
    /\ InvalidateDataset(TRUE)
    /\ UNCHANGED <<now, measurement, split>>

-----------------------------------------------------------------------------
(* Withdrawal, the end of an account, time, and the recording itself.      *)

Withdraw(s, r) ==
    /\ member[s][r] = "ACTIVE"
    /\ Erase({s}, r)
    /\ UNCHANGED <<now, measurement, study, split, dataset, partition>>

Leave(r) ==
    /\ Cardinality({s \in Studies : member[s][r] = "ACTIVE"}) > 1
    /\ Erase({s \in Studies : member[s][r] = "ACTIVE"}, r)
    /\ UNCHANGED <<now, measurement, study, split, dataset, partition>>

(* expire_enrollments, member by member.                                   *)
ExpireEnrollment(s, r) ==
    /\ member[s][r] = "ACTIVE" /\ Expiry[s] <= now
    /\ Erase({s}, r)
    /\ UNCHANGED <<now, measurement, study, split, dataset, partition>>

(* The player deletes the recording, or its retention has ended.           *)
DeleteAsset ==
    /\ asset.kept
    /\ LET S == {s \in Studies : capture[s] = "live"}
       IN  /\ asset' = [Restored(S) EXCEPT !.kept = FALSE]
           /\ capture' = [s \in Studies |-> IF s \in S THEN "withdrawn" ELSE capture[s]]
           /\ label' = [s \in Studies |-> IF s \in S /\ label[s] = "reviewed" THEN "task"
                                          ELSE label[s]]
           /\ Bump(S)
    /\ UNCHANGED <<now, measurement, study, member, split, session, original, dataset, partition>>

RetireDefinition ==
    /\ measurement = "effective"
    /\ measurement' = "retired"
    /\ UNCHANGED <<now, study, member, split, evidence, report, asset, dataset, partition, sealed>>

(* knowledge.revoke, and invalidate_definitions of the dataset.            *)
WithdrawDefinition ==
    /\ measurement # "withdrawn"
    /\ measurement' = "withdrawn"
    /\ InvalidateDataset(dataset # "CLOSED")
    /\ UNCHANGED <<now, study, member, split, evidence, report, asset, dataset, partition>>

Tick ==
    /\ now < MaxTime
    /\ now' = now + 1
    /\ UNCHANGED <<measurement, study, member, split, evidence, report, asset, dataset, partition, sealed>>

-----------------------------------------------------------------------------
Next ==
    /\ UNCHANGED linked   \* a study is created for the dataset, or never in it
    /\ \/ \E s \in Studies, r \in Roles : Enroll(s, r) \/ Withdraw(s, r) \/ ExpireEnrollment(s, r)
       \/ \E s \in Studies, x \in Splits : AssignSplit(s, x)
       \/ \E s \in Studies : \/ AddSession(s) \/ AddCapture(s) \/ AddTask(s) \/ ReviewTask(s)
                             \/ FreezeStudy(s) \/ Generate(s) \/ CloseStudy(s)
       \/ FreezeDataset \/ Seal \/ Import \/ ReadDataset
       \/ \E S \in {linked, Studies} : CloseDataset(S)
       \/ \E r \in Roles : Leave(r)
       \/ DeleteAsset \/ RetireDefinition \/ WithdrawDefinition \/ Tick

Spec == Init /\ [][Next]_vars

-----------------------------------------------------------------------------
TypeOK ==
    /\ measurement \in {"effective", "retired", "withdrawn"}
    /\ \A s \in Studies : /\ study[s] \in {"COLLECTING", "FROZEN", "CLOSED"}
                          /\ capture[s] \in {"none", "live", "withdrawn"}
                          /\ label[s] \in {"none", "task", "reviewed"}
    /\ dataset \in {"COLLECTING", "FROZEN", "CLOSED"}

(* A recording is kept for as long as the studies it is in were promised,  *)
(* and when it has left them for no longer than its account keeps it, in   *)
(* whatever order it joined and left them.                                 *)
RetentionReturns ==
    asset.kept =>
        /\ \A s \in Studies : capture[s] = "live" /\ Expiry[s] > now => asset.until >= Expiry[s]
        /\ asset.until \in {Original} \cup {Expiry[s] : s \in {t \in Studies : capture[t] = "live"}}

(* What a report or a snapshot says was there is there, unless time alone  *)
(* has ended it: whatever a member, the manager or a release takes back    *)
(* invalidates them at once.                                               *)
Grounded(s, content) ==
    /\ \A r \in content.members : member[s][r] = "ACTIVE"
    /\ content.session => session[s]
    /\ content.captured => capture[s] = "live" /\ asset.kept
    /\ content.labelled => label[s] = "reviewed"

ReportsAreGrounded ==
    \A s \in Studies : report[s] # NoContent => Grounded(s, report[s])

SnapshotIsGrounded ==
    snapshot # NoContent =>
        /\ dataset = "FROZEN" /\ measurement # "withdrawn"
        /\ \A s \in linked : /\ Grounded(s, snapshot.studies[s])
                             /\ snapshot.studies[s].members # {} => study[s] = "FROZEN"

(* Facts come from a snapshot that stands.                                 *)
ImportsAreGrounded == imported => snapshot # NoContent

(* While the dataset is open the player stays in the split of the first    *)
(* session, whichever studies they leave and join.                         *)
SplitsAgree ==
    dataset # "CLOSED" =>
        \A s \in linked : session[s] => partition = split[s]

StudiesSound ==
    TypeOK /\ ReportsAreGrounded /\ SnapshotIsGrounded /\ ImportsAreGrounded /\ SplitsAgree
=============================================================================
