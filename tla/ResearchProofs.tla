--------------------------- MODULE ResearchProofs ---------------------------
(***************************************************************************)
(* What the research side of Domain keeps, whatever the values of its      *)
(* constants: studies, the dataset they feed, the detectors it evaluates,  *)
(* and the releases of knowledge.  What they have in common is that people *)
(* take back what a report, a receipt or a release rests on, at any time,  *)
(* and that what rests on it must not stand any longer.                    *)
(***************************************************************************)
EXTENDS Domain, FiniteSetTheorems, SequenceTheorems, WellFoundedInduction, TLAPS

(***************************************************************************)
(* Studies and the dataset they feed: what a report, a snapshot and a      *)
(* detector's import describe is still there, for any number of studies.   *)
(***************************************************************************)

StudyRows ==
  /\ feeding \in SUBSET Studies /\ now \in Nat
  /\ measurement \in {"effective", "retired", "withdrawn"}
  /\ study \in [Studies -> {"COLLECTING", "FROZEN", "CLOSED"}]
  /\ member \in [Studies -> [Study!Roles -> {"none", "ACTIVE", "WITHDRAWN"}]]
  /\ split \in [Studies -> Study!Splits]
  /\ session \in [Studies -> BOOLEAN]
  /\ registered \in [Studies -> {"none", "live", "withdrawn"}]
  /\ original \in [Studies -> Nat]
  /\ label \in [Studies -> {"none", "task", "reviewed"}]
  /\ report = [s \in Studies |-> report[s]]
  /\ kept \in [kept : BOOLEAN, until : Nat]
  /\ dataset \in {"COLLECTING", "FROZEN", "CLOSED"}
  /\ imported \in BOOLEAN

(* What a player adds is there only while he is a member, and what the     *)
(* studies have registered agrees on where its retention began.            *)
EvidenceInv ==
  \A s \in Studies :
    /\ session[s] \/ registered[s] # "none" \/ label[s] # "none" => member[s]["player"] = "ACTIVE"
    /\ registered[s] = "live" => kept.kept /\ original[s] = Original

Described(s, content) == Study!Grounded(s, content) /\ content.members \subseteq Study!Roles
StudyReportsInv == \A s \in Studies : report[s] # Study!NoContent => Described(s, report[s])
SnapshotInv ==
  snapshot # Study!NoContent =>
    /\ dataset = "FROZEN" /\ measurement # "withdrawn"
    /\ \A s \in feeding : /\ Described(s, snapshot.studies[s])
                          /\ snapshot.studies[s].members # {} => study[s] = "FROZEN"

StudyInv ==
  /\ StudyRows /\ EvidenceInv /\ Study!RetentionReturns
  /\ StudyReportsInv /\ SnapshotInv /\ Study!ImportsAreGrounded /\ Study!SplitsAgree

LEMMA StudyInit == Study!Init => StudyInv
<1> SUFFICES ASSUME Study!Init PROVE StudyInv
  OBVIOUS
<1> USE StudiesAssumption DEF Study!Init
<1>1. StudyRows
  BY DEF StudyRows, Study!Roles, Study!Splits
<1>2. EvidenceInv
  BY DEF EvidenceInv
<1>3. Study!RetentionReturns
  BY DEF Study!RetentionReturns
<1>4. StudyReportsInv /\ SnapshotInv /\ Study!ImportsAreGrounded /\ Study!SplitsAgree
  BY DEF StudyReportsInv, SnapshotInv, Study!ImportsAreGrounded,
         Study!SplitsAgree
<1> QED
  BY <1>1, <1>2, <1>3, <1>4 DEF StudyInv

(* Any finite set of numbers has a largest: a smallest subset without one, *)
(* but for the empty set, would still have none without one of its members.*)
LEMMA LargestExists ==
  ASSUME NEW S, IsFiniteSet(S), S \subseteq Nat, S # {}
  PROVE  \E x \in S : \A y \in S : y <= x
<1> DEFINE HasLargest(X) == \E x \in X : \A y \in X : y <= x
           Bad == {X \in FiniteSubsetsOf(S) : X # {} /\ ~HasLargest(X)}
<1>1. Bad = {}
  <2> SUFFICES ASSUME Bad # {} PROVE FALSE
    OBVIOUS
  <2>0. Bad \subseteq FiniteSubsetsOf(S)
    OBVIOUS
  <2>1. PICK X \in Bad : \A Y \in Bad : ~(<<Y, X>> \in StrictSubsetOrdering(S))
    <3> HIDE DEF Bad
    <3> QED
      BY <2>0, FS_StrictSubsetOrderingWellFounded, WFMin
  <2>2. PICK x \in X : TRUE
    OBVIOUS
  <2> DEFINE Y == X \ {x}
  <2>3. X \in SUBSET S /\ x \in Nat /\ IsFiniteSet(X) /\ Y \in FiniteSubsetsOf(S)
    BY FS_Subset DEF FiniteSubsetsOf
  <2>4. <<Y, X>> \in StrictSubsetOrdering(S)
    BY <2>3 DEF StrictSubsetOrdering
  <2>5. Y = {} \/ HasLargest(Y)
    BY <2>1, <2>3, <2>4
  <2>6. CASE Y = {}
    <3>1. X = {x}
      BY <2>6
    <3> QED
      BY <3>1, <2>3
  <2>7. CASE HasLargest(Y)
    <3>1. PICK m \in Y : \A y \in Y : y <= m
      BY <2>7
    <3>2. CASE x <= m
      <4>1. \A y \in X : y <= m
        BY <3>1, <3>2
      <4> QED
        BY <4>1
    <3>3. CASE m <= x
      <4>1. \A y \in X : y <= x
        BY <3>1, <3>3, <2>3
      <4> QED
        BY <4>1, <2>2
    <3> QED
      BY <3>2, <3>3, <2>3
  <2> QED
    BY <2>5, <2>6, <2>7
<1>2. S \in FiniteSubsetsOf(S)
  BY FS_FiniteSubsetsOfFinite
<1> QED
  BY <1>1, <1>2

LEMMA LargestIs ==
  ASSUME NEW S, IsFiniteSet(S), S \subseteq Nat, S # {}
  PROVE  Study!Largest(S) \in S /\ \A y \in S : y <= Study!Largest(S)
BY LargestExists DEF Study!Largest

(* What Restored leaves of a recording when the captures of S end: the     *)
(* longest of the retentions that are left.                                *)
LEMMA RestoredIs ==
  ASSUME StudyRows, EvidenceInv, NEW S \in SUBSET Studies
  PROVE  /\ Study!Restored(S) \in [kept : BOOLEAN, until : Nat]
         /\ Study!Restored(S).kept = kept.kept
         /\ (\A s \in S : registered[s] # "live") => Study!Restored(S) = kept
         /\ (\E s \in S : registered[s] = "live") =>
                LET left == {Original} \cup {Expiry[t] : t \in Study!Others(S)}
                IN  /\ Study!Restored(S).until \in left
                    /\ \A x \in left : x <= Study!Restored(S).until
<1>1. CASE \A s \in S : registered[s] # "live"
  BY <1>1 DEF Study!Restored, StudyRows
<1>2. CASE \E s \in S : registered[s] = "live"
  <2> DEFINE first == CHOOSE t \in S : registered[t] = "live"
             left == {Original} \cup {Expiry[t] : t \in Study!Others(S)}
  <2>1. first \in S /\ registered[first] = "live"
    BY <1>2
  <2>2. original[first] = Original
    BY <2>1 DEF EvidenceInv
  <2>3. Study!Restored(S) = [kept EXCEPT !.until = Study!Largest(left)]
    BY <1>2, <2>2 DEF Study!Restored
  <2>4. Study!Others(S) \in SUBSET Studies
    BY DEF Study!Others
  <2>5. left \subseteq Nat /\ left # {}
    BY <2>4, StudiesAssumption
  <2>6. IsFiniteSet({Expiry[t] : t \in Study!Others(S)})
    <3>1. IsFiniteSet(Study!Others(S))
      BY <2>4, StudiesAssumption, FS_Subset
    <3> DEFINE f == [t \in Study!Others(S) |-> Expiry[t]]
    <3>2. f \in Surjection(Study!Others(S), {Expiry[t] : t \in Study!Others(S)})
      BY DEF Surjection
    <3> QED
      BY <3>1, <3>2, FS_Surjection
  <2>7. IsFiniteSet(left)
    BY <2>6, FS_Singleton, FS_Union
  <2>8. Study!Largest(left) \in left /\ \A y \in left : y <= Study!Largest(left)
    <3> HIDE DEF left
    <3> QED
      BY <2>5, <2>7, LargestIs
  <2>9. Study!Restored(S) = [kept |-> kept.kept, until |-> Study!Largest(left)]
    BY <2>3 DEF StudyRows
  <2>10. /\ Study!Restored(S) \in [kept : BOOLEAN, until : Nat]
         /\ Study!Restored(S).kept = kept.kept /\ Study!Restored(S).until = Study!Largest(left)
    <3> HIDE DEF left
    <3> QED
      BY <2>5, <2>8, <2>9 DEF StudyRows
  <2> QED
    BY <2>8, <2>10, <1>2
<1> QED
  BY <1>1, <1>2

(* A step that takes nothing of what is described away from a study.       *)
Stands(s) ==
  /\ \A r \in Study!Roles : member[s][r] = "ACTIVE" => member'[s][r] = "ACTIVE"
  /\ session[s] => session'[s]
  /\ registered[s] = "live" => registered'[s] = "live" /\ (kept.kept => kept'.kept)
  /\ label[s] = "reviewed" => label'[s] = "reviewed"

(* What is sealed needs a frozen study as far as it describes members.     *)
StaysSealed(s) ==
  /\ Stands(s)
  /\ study[s] = "FROZEN" /\ (\E r \in Study!Roles : member[s][r] = "ACTIVE") => study'[s] = "FROZEN"

LEMMA StudyReportsStand ==
  ASSUME StudyInv,
         \A s \in Studies : report'[s] = Study!NoContent \/ (report'[s] = report[s] /\ Stands(s))
  PROVE  StudyReportsInv'
<1> SUFFICES ASSUME NEW s \in Studies, report'[s] # Study!NoContent
             PROVE  Described(s, report[s])'
  BY DEF StudyReportsInv, Study!NoContent
<1>1. report'[s] = report[s] /\ Stands(s) /\ report[s] # Study!NoContent
  OBVIOUS
<1>2. Described(s, report[s])
  BY <1>1 DEF StudyInv, StudyReportsInv
<1> QED
  BY <1>1, <1>2 DEF Described, Study!Grounded, Stands

LEMMA SnapshotStands ==
  ASSUME StudyInv, UNCHANGED feeding,
         \/ snapshot' = Study!NoContent
         \/ /\ UNCHANGED <<snapshot, dataset>>
            /\ measurement = "withdrawn" \/ measurement' # "withdrawn"
            /\ \A s \in feeding : StaysSealed(s)
  PROVE  SnapshotInv'
<1> SUFFICES ASSUME snapshot' # Study!NoContent PROVE SnapshotInv'
  BY DEF SnapshotInv, Study!NoContent
<1>1. /\ snapshot' = snapshot /\ snapshot # Study!NoContent /\ dataset' = "FROZEN"
      /\ measurement' # "withdrawn" /\ \A s \in feeding : StaysSealed(s)
  BY DEF StudyInv, SnapshotInv
<1>2. ASSUME NEW s \in feeding
      PROVE  /\ Described(s, snapshot.studies[s])'
             /\ snapshot.studies[s].members # {} => study'[s] = "FROZEN"
  <2>1. /\ Described(s, snapshot.studies[s])
        /\ snapshot.studies[s].members # {} => study[s] = "FROZEN"
    BY <1>1 DEF StudyInv, SnapshotInv
  <2>2. StaysSealed(s)
    BY <1>1
  <2>3. Described(s, snapshot.studies[s])'
    BY <2>1, <2>2, <1>1 DEF Described, Study!Grounded, Stands, StaysSealed
  <2>4. snapshot.studies[s].members # {} => \E r \in Study!Roles : member[s][r] = "ACTIVE"
    BY <2>1 DEF Described, Study!Grounded
  <2> QED
    BY <2>1, <2>2, <2>3, <2>4 DEF StaysSealed
<1> QED
  BY <1>1, <1>2 DEF SnapshotInv

(* Where imported facts come from follows from what a step invalidates.    *)
LEMMA ImportsStand ==
  ASSUME StudyInv, NEW yes \in BOOLEAN, Study!InvalidateDataset(yes)
  PROVE  /\ Study!ImportsAreGrounded' /\ imported' \in BOOLEAN
         /\ IF yes THEN snapshot' = Study!NoContent ELSE UNCHANGED snapshot
BY DEF StudyInv, StudyRows, Study!InvalidateDataset, Study!ImportsAreGrounded, Study!NoContent

LEMMA RetentionStands ==
  ASSUME StudyInv, UNCHANGED <<registered, kept>>, now' \in Nat, now' >= now
  PROVE  Study!RetentionReturns'
<1>1. \A s \in Studies : Expiry[s] > now' => Expiry[s] > now
  BY StudiesAssumption DEF StudyInv, StudyRows
<1> QED
  BY <1>1 DEF StudyInv, Study!RetentionReturns

(* What a step that changes a revision leaves of reports and snapshots.    *)
RecordsKept ==
  /\ StudyReportsInv' /\ SnapshotInv' /\ Study!ImportsAreGrounded'
  /\ imported' \in BOOLEAN /\ report' = [s \in Studies |-> report'[s]]

LEMMA BumpKeeps ==
  ASSUME StudyInv, NEW S \in SUBSET Studies, Study!Bump(S),
         UNCHANGED <<feeding, dataset, measurement, study>>,
         \A s \in Studies \ S : Stands(s)
  PROVE  RecordsKept
<1>1. StudyReportsInv'
  BY StudyReportsStand DEF Study!Bump
<1>2. report' = [s \in Studies |-> report'[s]]
  BY DEF Study!Bump
<1> DEFINE yes == S \cap feeding # {}
<1>3. Study!InvalidateDataset(yes)
  BY DEF Study!Bump
<1>4. /\ Study!ImportsAreGrounded' /\ imported' \in BOOLEAN
      /\ IF yes THEN snapshot' = Study!NoContent ELSE UNCHANGED snapshot
  BY <1>3, ImportsStand
<1>5. yes \/ \A s \in feeding : StaysSealed(s)
  BY DEF StaysSealed, StudyInv, StudyRows
<1>6. SnapshotInv'
  BY <1>4, <1>5, SnapshotStands
<1> QED
  BY <1>1, <1>2, <1>4, <1>6 DEF RecordsKept

(* The rows that steps change one by one, beside reports and snapshots.    *)
PlainRows ==
  /\ feeding \in SUBSET Studies /\ now \in Nat
  /\ measurement \in {"effective", "retired", "withdrawn"}
  /\ study \in [Studies -> {"COLLECTING", "FROZEN", "CLOSED"}]
  /\ member \in [Studies -> [Study!Roles -> {"none", "ACTIVE", "WITHDRAWN"}]]
  /\ split \in [Studies -> Study!Splits]
  /\ session \in [Studies -> BOOLEAN]
  /\ registered \in [Studies -> {"none", "live", "withdrawn"}]
  /\ original \in [Studies -> Nat]
  /\ label \in [Studies -> {"none", "task", "reviewed"}]
  /\ kept \in [kept : BOOLEAN, until : Nat]
  /\ dataset \in {"COLLECTING", "FROZEN", "CLOSED"}

LEMMA StudyKept ==
  ASSUME PlainRows', EvidenceInv', Study!RetentionReturns', Study!SplitsAgree', RecordsKept
  PROVE  StudyInv'
BY DEF StudyInv, StudyRows, PlainRows, RecordsKept

LEMMA EnrollKeeps ==
  ASSUME StudyInv, UNCHANGED feeding, NEW s \in Studies, NEW r \in Study!Roles, Study!Enroll(s, r)
  PROVE  StudyInv'
<1> USE DEF Study!Enroll, Study!evidence
<1>1. /\ member' \in [Studies -> [Study!Roles -> {"none", "ACTIVE", "WITHDRAWN"}]]
      /\ \A t \in Studies, q \in Study!Roles : member'[t][q] \in {member[t][q], "ACTIVE"}
  BY DEF StudyInv, StudyRows
<1>2. PlainRows'
  BY <1>1 DEF StudyInv, StudyRows, PlainRows
<1>3. EvidenceInv'
  BY <1>1 DEF StudyInv, EvidenceInv, Study!Roles
<1>4. Study!RetentionReturns'
  BY RetentionStands DEF StudyInv, StudyRows
<1>5. Study!SplitsAgree'
  BY DEF StudyInv, Study!SplitsAgree
<1>6. RecordsKept
  <2>1. \A t \in Studies : Stands(t)
    BY <1>1 DEF Stands
  <2> QED
    BY <2>1, BumpKeeps
<1> QED
  BY <1>2, <1>3, <1>4, <1>5, <1>6, StudyKept

LEMMA AssignSplitKeeps ==
  ASSUME StudyInv, UNCHANGED feeding, NEW s \in Studies, NEW x \in Study!Splits,
         Study!AssignSplit(s, x)
  PROVE  StudyInv'
<1> USE DEF Study!AssignSplit, Study!evidence
<1>2. PlainRows'
  BY DEF StudyInv, StudyRows, PlainRows
<1>3. EvidenceInv'
  BY DEF StudyInv, EvidenceInv
<1>4. Study!RetentionReturns'
  BY RetentionStands DEF StudyInv, StudyRows
<1>5. Study!SplitsAgree'
  BY DEF StudyInv, StudyRows, Study!SplitsAgree
<1>6. RecordsKept
  <2>1. \A t \in Studies : Stands(t)
    BY DEF Stands
  <2> QED
    BY <2>1, BumpKeeps
<1> QED
  BY <1>2, <1>3, <1>4, <1>5, <1>6, StudyKept

LEMMA AddSessionKeeps ==
  ASSUME StudyInv, UNCHANGED feeding, NEW s \in Studies, Study!AddSession(s)
  PROVE  StudyInv'
<1> USE DEF Study!AddSession
<1>2. PlainRows'
  BY DEF StudyInv, StudyRows, PlainRows
<1>3. EvidenceInv'
  BY DEF StudyInv, StudyRows, EvidenceInv, Study!Active
<1>4. Study!RetentionReturns'
  BY RetentionStands DEF StudyInv, StudyRows
<1>5. Study!SplitsAgree'
  BY DEF StudyInv, StudyRows, Study!SplitsAgree, Study!SessionGuard, Study!Splits
<1>6. RecordsKept
  <2>1. \A t \in Studies : Stands(t)
    BY DEF Stands, StudyInv, StudyRows
  <2> QED
    BY <2>1, BumpKeeps
<1> QED
  BY <1>2, <1>3, <1>4, <1>5, <1>6, StudyKept

LEMMA AddCaptureKeeps ==
  ASSUME StudyInv, UNCHANGED feeding, NEW s \in Studies, Study!AddCapture(s)
  PROVE  StudyInv'
<1> USE DEF Study!AddCapture
<1>1. Study!OriginalOfAsset = Original
  <2>1. CASE \E t \in Studies : registered[t] = "live"
    BY <2>1 DEF StudyInv, EvidenceInv, Study!OriginalOfAsset
  <2>2. CASE ~\E t \in Studies : registered[t] = "live"
    BY <2>2 DEF StudyInv, Study!RetentionReturns, Study!OriginalOfAsset
  <2> QED
    BY <2>1, <2>2
<1>2. LET until == Study!Largest({kept.until, Expiry[s]})
      IN  /\ until \in {kept.until, Expiry[s]} /\ until >= kept.until /\ until >= Expiry[s]
          /\ until \in Nat
  <2>1. kept.until \in Nat /\ Expiry[s] \in Nat
    BY StudiesAssumption DEF StudyInv, StudyRows
  <2>2. IsFiniteSet({kept.until, Expiry[s]})
    <3>1. IsFiniteSet({kept.until}) /\ IsFiniteSet({Expiry[s]})
      BY FS_Singleton
    <3>2. IsFiniteSet({kept.until} \cup {Expiry[s]})
      BY <3>1, FS_Union
    <3> QED
      BY <3>2
  <2> QED
    BY <2>1, <2>2, LargestIs
<1> DEFINE until == Study!Largest({kept.until, Expiry[s]})
<1>3. kept' = [kept |-> TRUE, until |-> until]
  BY DEF StudyInv, StudyRows
<1>4. PlainRows'
  BY <1>1, <1>2, <1>3, StudiesAssumption DEF StudyInv, StudyRows, PlainRows
<1>5. EvidenceInv'
  BY <1>1, <1>3 DEF StudyInv, StudyRows, EvidenceInv, Study!Active
<1>6. Study!RetentionReturns'
  <2> HIDE DEF until
  <2>1. \A t \in Studies : registered'[t] = "live" <=> registered[t] = "live" \/ t = s
    BY DEF StudyInv, StudyRows
  <2>2. kept'.until = until /\ until >= Expiry[s] /\ until >= kept.until /\ until \in Nat
        /\ until \in {kept.until, Expiry[s]}
    BY <1>2, <1>3 DEF until
  <2>3. /\ \A t \in Studies : registered[t] = "live" /\ Expiry[t] > now => kept.until >= Expiry[t]
        /\ kept.until \in {Original} \cup {Expiry[t] : t \in {u \in Studies : registered[u] = "live"}}
    BY DEF StudyInv, Study!RetentionReturns
  <2>4. ASSUME NEW t \in Studies, registered'[t] = "live", Expiry[t] > now
        PROVE  until >= Expiry[t]
    <3>1. kept.until \in Nat /\ Expiry[t] \in Nat
      BY StudiesAssumption DEF StudyInv, StudyRows
    <3> QED
      BY <2>1, <2>2, <2>3, <2>4, <3>1
  <2>5. until \in {Original} \cup {Expiry[t] : t \in {u \in Studies : registered'[u] = "live"}}
    BY <2>1, <2>2, <2>3
  <2> QED
    BY <2>2, <2>4, <2>5 DEF Study!RetentionReturns
<1>7. Study!SplitsAgree'
  BY DEF StudyInv, Study!SplitsAgree
<1>8. RecordsKept
  <2>1. \A t \in Studies : Stands(t)
    BY <1>3 DEF Stands, StudyInv, StudyRows
  <2> QED
    BY <2>1, BumpKeeps
<1> QED
  BY <1>4, <1>5, <1>6, <1>7, <1>8, StudyKept

LEMMA AddTaskKeeps ==
  ASSUME StudyInv, UNCHANGED feeding, NEW s \in Studies, Study!AddTask(s)
  PROVE  StudyInv'
<1> USE DEF Study!AddTask
<1>1. PlainRows'
  BY DEF StudyInv, StudyRows, PlainRows
<1>2. EvidenceInv'
  BY DEF StudyInv, StudyRows, EvidenceInv, Study!LiveCapture, Study!Active
<1>3. Study!RetentionReturns'
  BY RetentionStands DEF StudyInv, StudyRows
<1>4. Study!SplitsAgree'
  BY DEF StudyInv, Study!SplitsAgree
<1>5. RecordsKept
  <2>1. \A t \in Studies : Stands(t)
    BY DEF Stands, StudyInv, StudyRows
  <2> QED
    BY <2>1, BumpKeeps
<1> QED
  BY <1>1, <1>2, <1>3, <1>4, <1>5, StudyKept

LEMMA ReviewTaskKeeps ==
  ASSUME StudyInv, UNCHANGED feeding, NEW s \in Studies, Study!ReviewTask(s)
  PROVE  StudyInv'
<1> USE DEF Study!ReviewTask
<1>1. PlainRows'
  BY DEF StudyInv, StudyRows, PlainRows
<1>2. EvidenceInv'
  BY DEF StudyInv, StudyRows, EvidenceInv, Study!LiveCapture, Study!Active
<1>3. Study!RetentionReturns'
  BY RetentionStands DEF StudyInv, StudyRows
<1>4. Study!SplitsAgree'
  BY DEF StudyInv, Study!SplitsAgree
<1>5. RecordsKept
  <2>1. \A t \in Studies : Stands(t)
    BY DEF Stands, StudyInv, StudyRows
  <2> QED
    BY <2>1, BumpKeeps
<1> QED
  BY <1>1, <1>2, <1>3, <1>4, <1>5, StudyKept

(* The steps of the manager leave the evidence as it is.                   *)
LEMMA EvidenceStands ==
  ASSUME StudyInv, UNCHANGED <<member, Study!evidence, kept>>
  PROVE  EvidenceInv' /\ \A s \in Studies : Stands(s)
BY DEF StudyInv, EvidenceInv, Study!evidence, Stands

LEMMA RecordsStand ==
  ASSUME StudyInv, UNCHANGED <<feeding, report, Study!sealed>>, \A s \in Studies : Stands(s),
         \/ snapshot = Study!NoContent
         \/ /\ UNCHANGED dataset
            /\ measurement = "withdrawn" \/ measurement' # "withdrawn"
            /\ \A s \in feeding : study[s] = "FROZEN" => study'[s] = "FROZEN"
  PROVE  RecordsKept
<1>1. StudyReportsInv'
  BY StudyReportsStand
<1>2. SnapshotInv'
  <2>1. \A s \in feeding : s \in Studies
    BY DEF StudyInv, StudyRows
  <2> QED
    BY <2>1, SnapshotStands DEF StaysSealed, Study!sealed
<1> QED
  BY <1>1, <1>2
     DEF RecordsKept, StudyInv, StudyRows, Study!sealed, Study!ImportsAreGrounded, Study!NoContent

LEMMA FreezeStudyKeeps ==
  ASSUME StudyInv, UNCHANGED feeding, NEW s \in Studies, Study!FreezeStudy(s)
  PROVE  StudyInv'
<1> USE DEF Study!FreezeStudy
<1>1. PlainRows'
  BY DEF StudyInv, StudyRows, PlainRows, Study!evidence
<1>2. EvidenceInv' /\ \A t \in Studies : Stands(t)
  BY EvidenceStands
<1>3. Study!RetentionReturns'
  BY RetentionStands DEF StudyInv, StudyRows, Study!evidence
<1>4. Study!SplitsAgree'
  BY DEF StudyInv, Study!SplitsAgree, Study!evidence
<1>5. RecordsKept
  <2>1. \A t \in feeding : study[t] = "FROZEN" => study'[t] = "FROZEN"
    BY DEF StudyInv, StudyRows
  <2> QED
    BY <1>2, <2>1, RecordsStand
<1> QED
  BY <1>1, <1>2, <1>3, <1>4, <1>5, StudyKept

LEMMA FreezeDatasetKeeps ==
  ASSUME StudyInv, UNCHANGED feeding, Study!FreezeDataset
  PROVE  StudyInv'
<1> USE DEF Study!FreezeDataset
<1>1. PlainRows'
  BY DEF StudyInv, StudyRows, PlainRows, Study!evidence
<1>2. EvidenceInv' /\ \A t \in Studies : Stands(t)
  BY EvidenceStands
<1>3. Study!RetentionReturns'
  BY RetentionStands DEF StudyInv, StudyRows, Study!evidence
<1>4. Study!SplitsAgree'
  BY DEF StudyInv, Study!SplitsAgree, Study!evidence
<1>5. RecordsKept
  <2>1. snapshot = Study!NoContent
    BY DEF StudyInv, SnapshotInv
  <2> QED
    BY <1>2, <2>1, RecordsStand
<1> QED
  BY <1>1, <1>2, <1>3, <1>4, <1>5, StudyKept

LEMMA ContentDescribes ==
  ASSUME StudyInv, NEW s \in Studies
  PROVE  Described(s, Study!Content(s))
<1>1. /\ Study!Content(s).members = {r \in Study!Roles : Study!Active(s, r)}
      /\ Study!Content(s).session = (session[s] /\ Study!Active(s, "player"))
      /\ Study!Content(s).captured = Study!LiveCapture(s)
      /\ Study!Content(s).labelled = (Study!LiveCapture(s) /\ Study!FinalLabel(s))
  BY DEF Study!Content
<1> QED
  BY <1>1 DEF Described, Study!Grounded, Study!Active, Study!LiveCapture, Study!FinalLabel

LEMMA GenerateKeeps ==
  ASSUME StudyInv, UNCHANGED feeding, NEW s \in Studies, Study!Generate(s)
  PROVE  StudyInv'
<1> USE DEF Study!Generate
<1>1. PlainRows'
  BY DEF StudyInv, StudyRows, PlainRows, Study!evidence
<1>2. EvidenceInv' /\ \A t \in Studies : Stands(t)
  BY EvidenceStands
<1>3. Study!RetentionReturns'
  BY RetentionStands DEF StudyInv, StudyRows, Study!evidence
<1>4. Study!SplitsAgree'
  BY DEF StudyInv, Study!SplitsAgree, Study!evidence
<1>5. RecordsKept
  <2> DEFINE yes == report[s] # Study!NoContent /\ s \in feeding
  <2>1. /\ Study!ImportsAreGrounded' /\ imported' \in BOOLEAN
        /\ IF yes THEN snapshot' = Study!NoContent ELSE UNCHANGED snapshot
    BY ImportsStand
  <2>2. \A t \in feeding : StaysSealed(t)
    BY <1>2 DEF StaysSealed, StudyInv, StudyRows
  <2>3. SnapshotInv'
    BY <2>1, <2>2, SnapshotStands
  <2>4. report' = [t \in Studies |-> report'[t]]
    BY DEF StudyInv, StudyRows
  <2>5. StudyReportsInv'
    <3>1. Described(s, Study!Content(s))
      BY ContentDescribes
    <3>2. Described(s, report[s])'
      <4>1. report'[s] = Study!Content(s)
        BY DEF StudyInv, StudyRows
      <4> QED
        BY <3>1, <4>1 DEF Described, Study!Grounded, Study!evidence
    <3>3. ASSUME NEW t \in Studies, t # s, report'[t] # Study!NoContent
          PROVE  Described(t, report[t])'
      <4>1. report'[t] = report[t]
        BY <3>3 DEF StudyInv, StudyRows
      <4>2. Described(t, report[t])
        BY <3>3, <4>1 DEF StudyInv, StudyReportsInv
      <4> QED
        BY <4>1, <4>2 DEF Described, Study!Grounded, Study!evidence
    <3> QED
      BY <3>2, <3>3 DEF StudyReportsInv, Study!NoContent
  <2> QED
    BY <2>1, <2>3, <2>4, <2>5 DEF RecordsKept
<1> QED
  BY <1>1, <1>2, <1>3, <1>4, <1>5, StudyKept

LEMMA SealKeeps ==
  ASSUME StudyInv, UNCHANGED feeding, Study!Seal
  PROVE  StudyInv'
<1> USE DEF Study!Seal
<1>1. PlainRows'
  BY DEF StudyInv, StudyRows, PlainRows, Study!evidence
<1>2. EvidenceInv' /\ \A t \in Studies : Stands(t)
  BY EvidenceStands
<1>3. Study!RetentionReturns'
  BY RetentionStands DEF StudyInv, StudyRows, Study!evidence
<1>4. Study!SplitsAgree'
  BY DEF StudyInv, Study!SplitsAgree, Study!evidence
<1>5. RecordsKept
  <2>1. StudyReportsInv'
    BY <1>2, StudyReportsStand
  <2>2. imported' = FALSE
    BY DEF StudyInv, StudyRows, Study!ImportsAreGrounded
  <2>3. ASSUME NEW s \in feeding
        PROVE  /\ Described(s, snapshot.studies[s])'
               /\ snapshot'.studies[s].members # {} => study'[s] = "FROZEN"
    <3>1. s \in Studies /\ snapshot'.studies[s] = Study!Content(s) /\ study[s] = "FROZEN"
      BY DEF Study!Material, Study!Sealable, StudyInv, StudyRows
    <3> QED
      BY <3>1, ContentDescribes DEF Described, Study!Grounded, Study!evidence
  <2>4. dataset' = "FROZEN" /\ measurement' # "withdrawn"
    BY DEF Study!Sealable, Study!LiveMeasurement
  <2>5. SnapshotInv'
    BY <2>3, <2>4 DEF SnapshotInv
  <2> QED
    BY <2>1, <2>2, <2>5 DEF RecordsKept, StudyInv, StudyRows, Study!ImportsAreGrounded
<1> QED
  BY <1>1, <1>2, <1>3, <1>4, <1>5, StudyKept

LEMMA ImportKeeps ==
  ASSUME StudyInv, UNCHANGED feeding, Study!Import
  PROVE  StudyInv'
<1> USE DEF Study!Import
<1>1. PlainRows'
  BY DEF StudyInv, StudyRows, PlainRows, Study!evidence
<1>2. EvidenceInv' /\ \A t \in Studies : Stands(t)
  BY EvidenceStands
<1>3. Study!RetentionReturns'
  BY RetentionStands DEF StudyInv, StudyRows, Study!evidence
<1>4. Study!SplitsAgree'
  BY DEF StudyInv, Study!SplitsAgree, Study!evidence
<1>5. RecordsKept
  <2>1. StudyReportsInv'
    BY <1>2, StudyReportsStand
  <2>2. \A s \in feeding : StaysSealed(s)
    BY <1>2 DEF StaysSealed, StudyInv, StudyRows
  <2>3. SnapshotInv'
    BY <2>2, SnapshotStands
  <2> QED
    BY <2>1, <2>3
       DEF RecordsKept, StudyInv, StudyRows, Study!ImportsAreGrounded, Study!NoContent
<1> QED
  BY <1>1, <1>2, <1>3, <1>4, <1>5, StudyKept

(* The steps that do no more than invalidate, or than the clock does.      *)
LEMMA PlainStepKeeps ==
  ASSUME StudyInv, UNCHANGED <<feeding, study, member, split, Study!evidence, report, kept, dataset,
                               partition>>,
         now' \in Nat, now' >= now, measurement' \in {"effective", "retired", "withdrawn"},
         NEW yes \in BOOLEAN, Study!InvalidateDataset(yes),
         yes \/ snapshot = Study!NoContent \/ measurement = "withdrawn" \/ measurement' # "withdrawn"
  PROVE  StudyInv'
<1>1. PlainRows'
  BY DEF StudyInv, StudyRows, PlainRows, Study!evidence
<1>2. EvidenceInv' /\ \A t \in Studies : Stands(t)
  BY EvidenceStands
<1>3. Study!RetentionReturns'
  BY RetentionStands DEF Study!evidence
<1>4. Study!SplitsAgree'
  BY DEF StudyInv, Study!SplitsAgree, Study!evidence
<1>5. RecordsKept
  <2>1. StudyReportsInv'
    BY <1>2, StudyReportsStand
  <2>2. /\ Study!ImportsAreGrounded' /\ imported' \in BOOLEAN
        /\ IF yes THEN snapshot' = Study!NoContent ELSE UNCHANGED snapshot
    BY ImportsStand
  <2>3. \A s \in feeding : StaysSealed(s)
    BY <1>2 DEF StaysSealed, StudyInv, StudyRows
  <2>4. SnapshotInv'
    BY <2>2, <2>3, SnapshotStands DEF Study!NoContent
  <2> QED
    BY <2>1, <2>2, <2>4 DEF RecordsKept, StudyInv, StudyRows
<1> QED
  BY <1>1, <1>2, <1>3, <1>4, <1>5, StudyKept

LEMMA StudyPlainStepsKeep ==
  ASSUME StudyInv, UNCHANGED feeding,
         Study!ReadDataset \/ Study!RetireDefinition \/ Study!WithdrawDefinition \/ Study!Tick
  PROVE  StudyInv'
<1>0. now \in Nat /\ imported \in BOOLEAN /\ measurement \in {"effective", "retired", "withdrawn"}
      /\ (dataset # "FROZEN" => snapshot = Study!NoContent)
  BY DEF StudyInv, StudyRows, SnapshotInv
<1>1. CASE Study!ReadDataset
  <2>1. PICK yes \in BOOLEAN : yes = TRUE
    OBVIOUS
  <2>2. Study!InvalidateDataset(yes) /\ yes
    BY <1>1, <2>1 DEF Study!ReadDataset
  <2>3. /\ UNCHANGED <<feeding, study, member, split, Study!evidence, report, kept, dataset,
                       partition>>
        /\ now' = now /\ measurement' = measurement
    BY <1>1 DEF Study!ReadDataset
  <2>4. now' \in Nat /\ now' >= now /\ measurement' \in {"effective", "retired", "withdrawn"}
    BY <1>0, <2>3
  <2> QED
    BY <2>2, <2>3, <2>4, PlainStepKeeps
<1>2. CASE Study!RetireDefinition
  <2>1. PICK yes \in BOOLEAN : yes = FALSE
    OBVIOUS
  <2>2. Study!InvalidateDataset(yes)
    BY <1>0, <1>2, <2>1 DEF Study!InvalidateDataset, Study!RetireDefinition, Study!sealed
  <2>3. /\ UNCHANGED <<feeding, study, member, split, Study!evidence, report, kept, dataset,
                       partition>>
        /\ now' = now /\ measurement' = "retired" /\ measurement' # "withdrawn"
    BY <1>2 DEF Study!RetireDefinition
  <2>4. now' \in Nat /\ now' >= now
    BY <1>0, <2>3
  <2> QED
    BY <2>2, <2>3, <2>4, PlainStepKeeps
<1>3. CASE Study!WithdrawDefinition
  <2> DEFINE yes == dataset # "CLOSED"
  <2>1. Study!InvalidateDataset(yes) /\ yes \in BOOLEAN /\ (yes \/ snapshot = Study!NoContent)
    BY <1>0, <1>3 DEF Study!WithdrawDefinition
  <2>2. UNCHANGED <<feeding, study, member, split, Study!evidence, report, kept, dataset, partition>>
        /\ now' = now /\ measurement' = "withdrawn"
    BY <1>3 DEF Study!WithdrawDefinition
  <2> HIDE DEF yes
  <2> QED
    BY <1>0, <2>1, <2>2, PlainStepKeeps
<1>4. CASE Study!Tick
  <2>1. PICK yes \in BOOLEAN : yes = FALSE
    OBVIOUS
  <2>2. Study!InvalidateDataset(yes)
    BY <1>0, <1>4, <2>1 DEF Study!InvalidateDataset, Study!Tick, Study!sealed
  <2>3. /\ UNCHANGED <<feeding, study, member, split, Study!evidence, report, kept, dataset,
                       partition>>
        /\ now' \in Nat /\ now' >= now /\ measurement' = measurement
    BY <1>0, <1>4 DEF Study!Tick
  <2> QED
    BY <1>0, <2>2, <2>3, PlainStepKeeps
<1> QED
  BY <1>1, <1>2, <1>3, <1>4

(* When the captures of S end, what Restored leaves is what is left.       *)
LEMMA RestoredKeeps ==
  ASSUME StudyInv, NEW S \in SUBSET Studies, kept' = Study!Restored(S), now' = now,
         \A s \in Studies : registered'[s] = "live" <=> registered[s] = "live" /\ s \notin S
  PROVE  Study!RetentionReturns' /\ kept' \in [kept : BOOLEAN, until : Nat] /\ kept'.kept = kept.kept
<1> DEFINE left == {Original} \cup {Expiry[t] : t \in Study!Others(S)}
<1>1. /\ kept' \in [kept : BOOLEAN, until : Nat] /\ kept'.kept = kept.kept
      /\ (\A s \in S : registered[s] # "live") => kept' = kept
      /\ (\E s \in S : registered[s] = "live") =>
             kept'.until \in left /\ \A x \in left : x <= kept'.until
  BY RestoredIs DEF StudyInv
<1>2. CASE \A s \in S : registered[s] # "live"
  <2>1. kept' = kept /\ \A s \in Studies : registered'[s] = "live" <=> registered[s] = "live"
    BY <1>1, <1>2
  <2> QED
    BY <1>1, <2>1 DEF StudyInv, Study!RetentionReturns
<1>3. CASE \E s \in S : registered[s] = "live"
  <2>1. kept'.until \in left /\ \A x \in left : x <= kept'.until
    BY <1>1, <1>3
  <2>2. \A t \in Study!Others(S) : t \in Studies /\ registered'[t] = "live"
    BY DEF Study!Others
  <2>3. kept'.until \in {Original} \cup {Expiry[t] : t \in {u \in Studies : registered'[u] = "live"}}
    BY <2>1, <2>2
  <2>4. ASSUME NEW t \in Studies, registered'[t] = "live", Expiry[t] > now'
        PROVE  kept'.until >= Expiry[t]
    <3>1. t \in Study!Others(S)
      BY <2>4 DEF Study!Others, Study!Active, StudyInv, EvidenceInv
    <3>2. kept'.until \in Nat /\ Expiry[t] \in Nat /\ Expiry[t] \in left
      BY <1>1, <3>1, StudiesAssumption
    <3> HIDE DEF left
    <3> QED
      BY <2>1, <3>2
  <2>5. \A t \in Studies : registered'[t] = "live" /\ Expiry[t] > now' => kept'.until >= Expiry[t]
    BY <2>4
  <2> HIDE DEF left
  <2> QED
    BY <1>1, <2>3, <2>5 DEF Study!RetentionReturns
<1> QED
  BY <1>2, <1>3, <1>1

LEMMA EraseKeeps ==
  ASSUME StudyInv, NEW S \in SUBSET Studies, NEW r \in Study!Roles, Study!Erase(S, r),
         UNCHANGED <<feeding, now, measurement, study, split, dataset, partition>>
  PROVE  StudyInv'
<1>1. /\ member' \in [Studies -> [Study!Roles -> {"none", "ACTIVE", "WITHDRAWN"}]]
      /\ \A t \in Studies \ S : member'[t] = member[t]
      /\ \A t \in Studies, q \in Study!Roles \ {r} : member'[t][q] = member[t][q]
  BY DEF Study!Erase, StudyInv, StudyRows
<1>2. CASE r = "player"
  <2>1. /\ session' = [s \in Studies |-> session[s] /\ s \notin S]
        /\ registered' = [s \in Studies |-> IF s \in S THEN "none" ELSE registered[s]]
        /\ label' = [s \in Studies |-> IF s \in S THEN "none" ELSE label[s]]
        /\ original' = [s \in Studies |-> IF s \in S THEN 0 ELSE original[s]]
        /\ kept' = Study!Restored(S)
    BY <1>2 DEF Study!Erase
  <2>2. Study!RetentionReturns' /\ kept' \in [kept : BOOLEAN, until : Nat] /\ kept'.kept = kept.kept
    BY <2>1, RestoredKeeps DEF StudyInv, StudyRows
  <2>3. PlainRows'
    BY <1>1, <2>1, <2>2 DEF StudyInv, StudyRows, PlainRows
  <2>4. EvidenceInv'
    BY <1>1, <2>1, <2>2 DEF StudyInv, EvidenceInv
  <2>5. Study!SplitsAgree'
    BY <2>1 DEF StudyInv, StudyRows, Study!SplitsAgree
  <2>6. \A t \in Studies \ S : Stands(t)
    BY <1>1, <2>1, <2>2 DEF Stands, StudyInv, StudyRows
  <2>7. RecordsKept
    BY <2>6, BumpKeeps DEF Study!Erase
  <2> QED
    BY <2>2, <2>3, <2>4, <2>5, <2>7, StudyKept
<1>3. CASE r # "player"
  <2>1. /\ label' = [s \in Studies |-> IF s \in S /\ label[s] = "reviewed" THEN "task" ELSE label[s]]
        /\ UNCHANGED <<session, registered, original, kept>>
    BY <1>3 DEF Study!Erase
  <2>2. Study!RetentionReturns'
    BY <2>1, RetentionStands DEF StudyInv, StudyRows
  <2>3. PlainRows'
    BY <1>1, <2>1 DEF StudyInv, StudyRows, PlainRows
  <2>4. EvidenceInv'
    BY <1>1, <1>3, <2>1 DEF StudyInv, StudyRows, EvidenceInv, Study!Roles
  <2>5. Study!SplitsAgree'
    BY <2>1 DEF StudyInv, Study!SplitsAgree
  <2>6. \A t \in Studies \ S : Stands(t)
    BY <1>1, <2>1 DEF Stands, StudyInv, StudyRows
  <2>7. RecordsKept
    BY <2>6, BumpKeeps DEF Study!Erase
  <2> QED
    BY <2>2, <2>3, <2>4, <2>5, <2>7, StudyKept
<1> QED
  BY <1>2, <1>3

LEMMA EraseStepsKeep ==
  ASSUME StudyInv, UNCHANGED feeding, NEW r \in Study!Roles,
         \/ \E s \in Studies : Study!Withdraw(s, r) \/ Study!ExpireEnrollment(s, r)
         \/ Study!Leave(r)
  PROVE  StudyInv'
<1>1. PICK S \in SUBSET Studies :
        Study!Erase(S, r) /\ UNCHANGED <<now, measurement, study, split, dataset, partition>>
  <2>1. ASSUME NEW s \in Studies, Study!Withdraw(s, r) \/ Study!ExpireEnrollment(s, r)
        PROVE  /\ {s} \in SUBSET Studies /\ Study!Erase({s}, r)
               /\ UNCHANGED <<now, measurement, study, split, dataset, partition>>
    BY <2>1 DEF Study!Withdraw, Study!ExpireEnrollment
  <2>2. ASSUME Study!Leave(r)
        PROVE  /\ {s \in Studies : member[s][r] = "ACTIVE"} \in SUBSET Studies
               /\ Study!Erase({s \in Studies : member[s][r] = "ACTIVE"}, r)
               /\ UNCHANGED <<now, measurement, study, split, dataset, partition>>
    BY <2>2 DEF Study!Leave
  <2> QED
    BY <2>1, <2>2
<1> QED
  BY <1>1, EraseKeeps

LEMMA StudyDeleteAssetKeeps ==
  ASSUME StudyInv, UNCHANGED feeding, Study!DeleteAsset
  PROVE  StudyInv'
<1> DEFINE S == {s \in Studies : registered[s] = "live"}
<1>1. /\ registered' = [s \in Studies |-> IF s \in S THEN "withdrawn" ELSE registered[s]]
      /\ label' = [s \in Studies |-> IF s \in S /\ label[s] = "reviewed" THEN "task" ELSE label[s]]
      /\ kept' = [Study!Restored(S) EXCEPT !.kept = FALSE]
      /\ Study!Bump(S)
      /\ UNCHANGED <<now, measurement, study, member, split, session, original, dataset, partition>>
  BY DEF Study!DeleteAsset
<1>2. kept' \in [kept : BOOLEAN, until : Nat] /\ kept'.kept = FALSE
  <2>1. Study!Restored(S) \in [kept : BOOLEAN, until : Nat]
    BY RestoredIs DEF StudyInv
  <2> HIDE DEF S
  <2> QED
    BY <1>1, <2>1
<1>3. PlainRows'
  BY <1>1, <1>2 DEF StudyInv, StudyRows, PlainRows
<1>4. EvidenceInv'
  BY <1>1 DEF StudyInv, StudyRows, EvidenceInv
<1>5. Study!RetentionReturns'
  BY <1>2 DEF Study!RetentionReturns
<1>6. Study!SplitsAgree'
  BY <1>1 DEF StudyInv, Study!SplitsAgree
<1>7. \A t \in Studies \ S : Stands(t)
  BY <1>1 DEF Stands, StudyInv, StudyRows
<1>8. RecordsKept
  <2> HIDE DEF S
  <2>1. S \in SUBSET Studies
    BY DEF S
  <2> QED
    BY <1>1, <1>7, <2>1, BumpKeeps
<1> QED
  BY <1>3, <1>4, <1>5, <1>6, <1>8, StudyKept

(* What a study without active members describes is empty: closing it      *)
(* leaves the snapshots in which it has a part.                            *)
LEMMA CloseKeeps ==
  ASSUME StudyInv, NEW S \in SUBSET Studies, Study!Close(S), NEW yes \in BOOLEAN,
         Study!InvalidateDataset(yes),
         yes \/ \A s \in S \cap feeding : \A r \in Study!Roles : member[s][r] # "ACTIVE",
         UNCHANGED <<feeding, now, measurement, split>>,
         \/ UNCHANGED <<dataset, partition>>
         \/ yes /\ dataset' = "CLOSED"
  PROVE  StudyInv'
<1> DEFINE players == {s \in S : member[s]["player"] = "ACTIVE"}
           reviewers == {s \in S : member[s]["reviewer"] = "ACTIVE"}
<1>1. /\ study' = [s \in Studies |-> IF s \in S THEN "CLOSED" ELSE study[s]]
      /\ member' = [s \in Studies |->
             [r \in Study!Roles |-> IF s \in S /\ member[s][r] = "ACTIVE" THEN "WITHDRAWN"
                                    ELSE member[s][r]]]
      /\ session' = [s \in Studies |-> session[s] /\ s \notin S]
      /\ registered' = [s \in Studies |-> IF s \in S THEN "none" ELSE registered[s]]
      /\ original' = [s \in Studies |-> IF s \in S THEN 0 ELSE original[s]]
      /\ label' = [s \in Studies |-> IF s \in S THEN "none" ELSE label[s]]
      /\ kept' = Study!Restored(players)
      /\ report' = [s \in Studies |-> IF s \in players \cup reviewers THEN Study!NoContent
                                      ELSE report[s]]
  BY DEF Study!Close
<1>2. players \in SUBSET Studies
  OBVIOUS
<1>3. \A s \in Studies : registered'[s] = "live" <=> registered[s] = "live" /\ s \notin players
  BY <1>1 DEF StudyInv, EvidenceInv
<1>4. Study!RetentionReturns' /\ kept' \in [kept : BOOLEAN, until : Nat] /\ kept'.kept = kept.kept
  <2> HIDE DEF players
  <2> QED
    BY <1>1, <1>2, <1>3, RestoredKeeps
<1>5. PlainRows'
  <2>1. member' \in [Studies -> [Study!Roles -> {"none", "ACTIVE", "WITHDRAWN"}]]
    BY <1>1 DEF StudyInv, StudyRows
  <2> QED
    BY <1>1, <1>4, <2>1 DEF StudyInv, StudyRows, PlainRows
<1>6. EvidenceInv'
  BY <1>1, <1>4 DEF StudyInv, EvidenceInv, Study!Roles
<1>7. Study!SplitsAgree'
  BY <1>1 DEF StudyInv, StudyRows, Study!SplitsAgree
<1>8. ASSUME NEW s \in Studies, s \notin players \cup reviewers
      PROVE  Stands(s)
  BY <1>1, <1>4, <1>8 DEF Stands, StudyInv, StudyRows, EvidenceInv, Study!Roles
<1>9. RecordsKept
  <2>1. StudyReportsInv'
    BY <1>1, <1>8, StudyReportsStand
  <2>2. /\ Study!ImportsAreGrounded' /\ imported' \in BOOLEAN
        /\ IF yes THEN snapshot' = Study!NoContent ELSE UNCHANGED snapshot
    BY ImportsStand
  <2>3. ASSUME ~yes, NEW s \in feeding
        PROVE  StaysSealed(s)
    <3>1. s \in Studies /\ s \notin players \cup reviewers
      BY <2>3 DEF StudyInv, StudyRows, Study!Roles
    <3>2. study[s] = "FROZEN" /\ (\E r \in Study!Roles : member[s][r] = "ACTIVE") => study'[s] = study[s]
      BY <1>1, <2>3, <3>1 DEF StudyInv, StudyRows
    <3> QED
      BY <1>8, <3>1, <3>2 DEF StaysSealed
  <2>4. SnapshotInv'
    BY <2>2, <2>3, SnapshotStands
  <2>5. report' = [s \in Studies |-> report'[s]]
    BY <1>1
  <2> QED
    BY <2>1, <2>2, <2>4, <2>5 DEF RecordsKept
<1> QED
  BY <1>4, <1>5, <1>6, <1>7, <1>9, StudyKept

LEMMA CloseStepsKeep ==
  ASSUME StudyInv, UNCHANGED feeding,
         \/ \E s \in Studies : Study!CloseStudy(s)
         \/ \E S \in {feeding, Studies} : Study!CloseDataset(S)
  PROVE  StudyInv'
<1>1. ASSUME NEW s \in Studies, Study!CloseStudy(s)
      PROVE  StudyInv'
  <2> DEFINE yes == s \in feeding /\ \E r \in Study!Roles : member[s][r] = "ACTIVE"
  <2>1. /\ Study!Close({s}) /\ Study!InvalidateDataset(yes)
        /\ UNCHANGED <<now, measurement, split, dataset, partition>>
    BY <1>1 DEF Study!CloseStudy
  <2>2. yes \/ \A t \in {s} \cap feeding : \A r \in Study!Roles : member[t][r] # "ACTIVE"
    OBVIOUS
  <2>3. yes \in BOOLEAN /\ {s} \in SUBSET Studies
    OBVIOUS
  <2> HIDE DEF yes
  <2> QED
    BY <2>1, <2>2, <2>3, CloseKeeps
<1>2. ASSUME NEW S \in {feeding, Studies}, Study!CloseDataset(S)
      PROVE  StudyInv'
  <2> DEFINE open == {s \in S : study[s] # "CLOSED"}
  <2>1. PICK yes \in BOOLEAN : yes = TRUE
    OBVIOUS
  <2>2. /\ Study!Close(open) /\ Study!InvalidateDataset(yes) /\ dataset' = "CLOSED" /\ yes
        /\ UNCHANGED <<now, measurement, split>>
    BY <1>2, <2>1 DEF Study!CloseDataset
  <2>3. open \in SUBSET Studies
    BY DEF StudyInv, StudyRows
  <2> HIDE DEF open
  <2> QED
    BY <2>2, <2>3, CloseKeeps
<1> QED
  BY <1>1, <1>2

LEMMA StudyStep == StudyInv /\ [Study!Next]_(Study!vars) => StudyInv'
<1> SUFFICES ASSUME StudyInv, [Study!Next]_(Study!vars) PROVE StudyInv'
  OBVIOUS
<1>1. CASE UNCHANGED Study!vars
  BY <1>1 DEF Study!vars, StudyInv, StudyRows, EvidenceInv, StudyReportsInv, SnapshotInv, Described,
              Study!Grounded, Study!RetentionReturns, Study!ImportsAreGrounded, Study!SplitsAgree
<1>2. CASE Study!Next
  <2>1. UNCHANGED feeding
    BY <1>2 DEF Study!Next
  <2>2. ASSUME NEW s \in Studies, NEW r \in Study!Roles,
               Study!Enroll(s, r) \/ Study!Withdraw(s, r) \/ Study!ExpireEnrollment(s, r)
        PROVE  StudyInv'
    BY <2>1, <2>2, EnrollKeeps, EraseStepsKeep
  <2>3. ASSUME NEW s \in Studies, NEW x \in Study!Splits, Study!AssignSplit(s, x)
        PROVE  StudyInv'
    BY <2>1, <2>3, AssignSplitKeeps
  <2>4. ASSUME NEW s \in Studies,
               \/ Study!AddSession(s) \/ Study!AddCapture(s) \/ Study!AddTask(s)
               \/ Study!ReviewTask(s) \/ Study!FreezeStudy(s) \/ Study!Generate(s)
               \/ Study!CloseStudy(s)
        PROVE  StudyInv'
    BY <2>1, <2>4, AddSessionKeeps, AddCaptureKeeps, AddTaskKeeps, ReviewTaskKeeps, FreezeStudyKeeps,
       GenerateKeeps, CloseStepsKeep
  <2>5. ASSUME \/ Study!FreezeDataset \/ Study!Seal \/ Study!Import \/ Study!DeleteAsset
               \/ \E S \in {feeding, Studies} : Study!CloseDataset(S)
               \/ \E r \in Study!Roles : Study!Leave(r)
        PROVE  StudyInv'
    BY <2>1, <2>5, FreezeDatasetKeeps, SealKeeps, ImportKeeps, StudyDeleteAssetKeeps, CloseStepsKeep,
       EraseStepsKeep
  <2>6. ASSUME \/ Study!ReadDataset \/ Study!RetireDefinition \/ Study!WithdrawDefinition
               \/ Study!Tick
        PROVE  StudyInv'
    BY <2>1, <2>6, StudyPlainStepsKeep
  <2> QED
    BY <1>2, <2>2, <2>3, <2>4, <2>5, <2>6 DEF Study!Next
<1> QED
  BY <1>1, <1>2

(* What the studies, their reports and the snapshot of the dataset say of  *)
(* the members and of the evidence holds after every call of pilots.py and *)
(* datasets.py.                                                            *)
THEOREM StudyInvHolds == Study!Spec => []StudyInv
<1> QED
  BY StudyInit, StudyStep, PTL DEF Study!Spec

LEMMA StudyInvIsSound == StudyInv => Study!StudiesSound /\ Study!RetentionReturns
BY DEF StudyInv, StudyRows, StudyReportsInv, SnapshotInv, Described, Study!StudiesSound, Study!TypeOK,
       Study!ReportsAreGrounded, Study!SnapshotIsGrounded

(***************************************************************************)
(* Detectors: the receipts of the evaluations of any number of versions.   *)
(***************************************************************************)
Decisions == {"none", "APPROVE", "REJECT"}
EndedRun == [of : Versions, live : {FALSE}]
StandingRun == [of : Versions, basis : Inputs, passes : BOOLEAN, live : {TRUE},
                reviews : UNION {[ReviewersOf[d] -> Decisions] : d \in Versions}]

DetectorRows ==
  /\ staff \in [Detector!People -> {"live", "inactive", "left"}]
  /\ grant \in BOOLEAN /\ inputs \in Inputs /\ sealed \subseteq Inputs
  /\ version \in [Versions -> {"none", "REGISTERED", "ACTIVE", "DISABLED", "INVALIDATED"}]

ReceiptRows ==
  /\ receipts \in Seq(EndedRun \cup StandingRun) /\ Len(receipts) <= MaxReceipts
  /\ \A i \in DOMAIN receipts :
         /\ version[receipts[i].of] # "none"
         /\ receipts[i].live => receipts[i].reviews \in [ReviewersOf[receipts[i].of] -> Decisions]

(* The run i of the version d stands, as the last one that does.           *)
Stood(d, i) == i \in DOMAIN receipts /\ receipts[i].of = d /\ receipts[i].live
NewestRun(d, i) == Stood(d, i) /\ \A j \in DOMAIN receipts : Stood(d, j) => j <= i

ActiveInv ==
  \A d \in Versions : version[d] = "ACTIVE" =>
    /\ \A c \in Versions \ {d} : version[c] # "ACTIVE"
    /\ \E i \in DOMAIN receipts : Stood(d, i) /\ receipts[i].passes /\ Detector!Approved(i)
    /\ \E i \in DOMAIN receipts : NewestRun(d, i) /\ receipts[i].passes

DetectorInv == DetectorRows /\ ReceiptRows /\ ActiveInv /\ Detector!ReceiptsAreGrounded

LEMMA DetectorInit == Detector!Init => DetectorInv
<1> SUFFICES ASSUME Detector!Init PROVE DetectorInv
  OBVIOUS
<1> USE DetectorsAssumption DEF Detector!Init
<1>1. DetectorRows
  BY DEF DetectorRows
<1>2. receipts \in Seq(EndedRun \cup StandingRun) /\ Len(receipts) = 0 /\ DOMAIN receipts = {}
  OBVIOUS
<1>3. ReceiptRows
  BY <1>2 DEF ReceiptRows
<1> QED
  BY <1>1, <1>2, <1>3 DEF DetectorInv, ActiveInv, Detector!ReceiptsAreGrounded

LEMMA NewestIsLatest ==
  ASSUME DetectorInv, NEW d \in Versions, NEW i, NewestRun(d, i)
  PROVE  Detector!LatestOf(d) = i
<1>1. \A j : j \in Detector!LiveRunsOf(d) <=> Stood(d, j)
  BY DEF Detector!LiveRunsOf, Detector!RunsOf, Stood
<1>2. DOMAIN receipts = 1..Len(receipts) /\ Len(receipts) \in Nat
  BY DEF DetectorInv, ReceiptRows
<1>3. i \in Detector!LiveRunsOf(d) /\ \A j \in Detector!LiveRunsOf(d) : j <= i /\ j \in Nat
  BY <1>1, <1>2 DEF NewestRun, Stood
<1>4. \A k \in Detector!LiveRunsOf(d) : (\A j \in Detector!LiveRunsOf(d) : j <= k) => k = i
  BY <1>3
<1> QED
  BY <1>3, <1>4 DEF Detector!LatestOf

LEMMA LatestIsNewest ==
  ASSUME DetectorInv, NEW d \in Versions, NEW i, Stood(d, i), i = Detector!LatestOf(d)
  PROVE  NewestRun(d, i)
<1> DEFINE S == {j \in DOMAIN receipts : Stood(d, j)}
<1>1. DOMAIN receipts = 1..Len(receipts) /\ Len(receipts) \in Nat
  BY DEF DetectorInv, ReceiptRows
<1>2. IsFiniteSet(1..Len(receipts))
  BY <1>1, FS_Interval
<1>3. IsFiniteSet(S) /\ S \subseteq Nat /\ S # {}
  BY <1>1, <1>2, FS_Subset DEF Stood
<1>4. PICK k \in S : \A j \in S : j <= k
  <2> HIDE DEF S
  <2> QED
    BY <1>3, LargestExists
<1>5. NewestRun(d, k)
  BY <1>4 DEF NewestRun
<1> QED
  BY <1>5, NewestIsLatest

LEMMA DetectorInvIsSound == DetectorInv => Detector!DetectorsSound
<1> SUFFICES ASSUME DetectorInv PROVE Detector!DetectorsSound
  OBVIOUS
<1>1. Detector!TypeOK
  BY DEF DetectorInv, DetectorRows, ReceiptRows, Detector!TypeOK
<1>2. ASSUME NEW d \in Versions, version[d] = "ACTIVE"
      PROVE  /\ \A c \in Versions \ {d} : version[c] # "ACTIVE"
             /\ \E i \in Detector!LiveRunsOf(d) : receipts[i].passes /\ Detector!Approved(i)
             /\ receipts[Detector!LatestOf(d)].passes
  <2>1. PICK i \in DOMAIN receipts : NewestRun(d, i) /\ receipts[i].passes
    BY <1>2 DEF DetectorInv, ActiveInv
  <2>2. receipts[Detector!LatestOf(d)].passes
    BY <2>1, NewestIsLatest
  <2> QED
    BY <1>2, <2>2 DEF DetectorInv, ActiveInv, Stood, Detector!LiveRunsOf, Detector!RunsOf
<1> QED
  BY <1>1, <1>2 DEF DetectorInv, Detector!DetectorsSound, Detector!ActiveIsApproved

LEMMA ReceiptTypes ==
  ASSUME DetectorInv
  PROVE  /\ receipts \in Seq(EndedRun \cup StandingRun)
         /\ DOMAIN receipts = 1..Len(receipts) /\ Len(receipts) \in Nat
         /\ Len(receipts) <= MaxReceipts
         /\ \A i \in DOMAIN receipts : receipts[i].of \in Versions
<1>1. /\ receipts \in Seq(EndedRun \cup StandingRun)
      /\ DOMAIN receipts = 1..Len(receipts) /\ Len(receipts) \in Nat
      /\ Len(receipts) <= MaxReceipts
  BY DEF DetectorInv, ReceiptRows
<1>2. \A r \in EndedRun \cup StandingRun : r.of \in Versions
  BY DEF EndedRun, StandingRun
<1>3. \A i \in DOMAIN receipts : receipts[i] \in EndedRun \cup StandingRun
  BY <1>1
<1> QED
  BY <1>1, <1>2, <1>3

LEMMA InvalidateKeeps ==
  ASSUME DetectorInv, NEW ending \in SUBSET Versions, Detector!InvalidateDataset(ending),
         Detector!Measured \subseteq ending,
         staff' \in [Detector!People -> {"live", "inactive", "left"}],
         grant' \in BOOLEAN, inputs' \in Inputs, sealed' \subseteq Inputs
  PROVE  DetectorInv'
<1>0. /\ receipts \in Seq(EndedRun \cup StandingRun)
      /\ DOMAIN receipts = 1..Len(receipts) /\ Len(receipts) \in Nat /\ Len(receipts) <= MaxReceipts
      /\ \A i \in DOMAIN receipts : receipts[i].of \in Versions
  BY ReceiptTypes
<1>1. /\ receipts' = [i \in DOMAIN receipts |-> [of |-> receipts[i].of, live |-> FALSE]]
      /\ version' = [d \in Versions |-> IF d \in ending /\ version[d] # "none" THEN "INVALIDATED"
                                        ELSE version[d]]
  BY DEF Detector!InvalidateDataset
<1>2. DetectorRows'
  BY <1>1 DEF DetectorInv, DetectorRows
<1>3. /\ receipts' \in Seq(EndedRun \cup StandingRun) /\ Len(receipts') = Len(receipts)
      /\ DOMAIN receipts' = DOMAIN receipts
      /\ \A i \in DOMAIN receipts' : receipts'[i].of = receipts[i].of /\ ~receipts'[i].live
  <2>1. \A i \in 1..Len(receipts) : [of |-> receipts[i].of, live |-> FALSE] \in EndedRun
    BY <1>0 DEF EndedRun
  <2>2. receipts' \in [1..Len(receipts) -> EndedRun]
    BY <1>0, <1>1, <2>1
  <2>3. receipts' \in Seq(EndedRun \cup StandingRun) /\ Len(receipts') = Len(receipts)
    BY <1>0, <2>2
  <2>4. \A i \in DOMAIN receipts : receipts'[i] = [of |-> receipts[i].of, live |-> FALSE]
    BY <1>1
  <2> QED
    BY <1>0, <2>2, <2>3, <2>4
<1>4. ReceiptRows'
  <2>1. \A i \in DOMAIN receipts : version'[receipts[i].of] # "none"
    BY <1>0, <1>1 DEF DetectorInv, ReceiptRows
  <2> QED
    BY <1>0, <1>3, <2>1 DEF ReceiptRows
<1>5. \A d \in Versions : version'[d] # "ACTIVE"
  <2> SUFFICES ASSUME NEW d \in Versions, version'[d] = "ACTIVE" PROVE FALSE
    OBVIOUS
  <2>1. version[d] = "ACTIVE" /\ d \notin ending
    BY <1>1
  <2>2. \E i \in DOMAIN receipts : receipts[i].of = d
    BY <2>1 DEF DetectorInv, ActiveInv, Stood
  <2> QED
    BY <2>1, <2>2 DEF Detector!Measured, Detector!RunsOf
<1>6. ActiveInv'
  BY <1>5 DEF ActiveInv
<1>7. Detector!ReceiptsAreGrounded'
  BY <1>3 DEF Detector!ReceiptsAreGrounded
<1> QED
  BY <1>2, <1>4, <1>6, <1>7 DEF DetectorInv

LEMMA MeasuredIsVersions == Detector!Measured \subseteq Versions
BY DEF Detector!Measured

(* A step that leaves the receipts, what they stand on and, but for the    *)
(* active version, the versions as they are.                               *)
LEMMA ReceiptsStay ==
  ASSUME DetectorInv, DetectorRows', UNCHANGED receipts,
         \A d \in Versions : /\ version'[d] = "ACTIVE" => version[d] = "ACTIVE"
                             /\ version'[d] = "none" => version[d] = "none"
                             /\ version'[d] = "INVALIDATED" => version[d] = "INVALIDATED",
         grant => grant', sealed \subseteq sealed',
         \A p \in Detector!People : staff'[p] = "left" => staff[p] = "left"
  PROVE  DetectorInv'
<1>0. \A i \in DOMAIN receipts : receipts[i].of \in Versions
  BY ReceiptTypes
<1>1. ReceiptRows'
  BY <1>0 DEF DetectorInv, ReceiptRows
<1>2. ActiveInv'
  BY DEF DetectorInv, ActiveInv, Stood, NewestRun, Detector!Approved
<1>3. Detector!ReceiptsAreGrounded'
  <2>1. \A d \in Versions : Detector!PeopleOf(d) \subseteq Detector!People
    BY DEF Detector!PeopleOf, Detector!People, Detector!Reviewers
  <2> QED
    BY <1>0, <2>1 DEF DetectorInv, DetectorRows, Detector!ReceiptsAreGrounded, Detector!PeopleOf
<1> QED
  BY <1>1, <1>2, <1>3 DEF DetectorInv

LEMMA RegisterKeeps ==
  ASSUME DetectorInv, NEW d \in Versions, Detector!Register(d)
  PROVE  DetectorInv'
<1>1. DetectorRows'
  BY DEF Detector!Register, DetectorInv, DetectorRows
<1>2. \A c \in Versions : version'[c] = version[c] \/ (c = d /\ version'[c] = "REGISTERED")
  BY DEF Detector!Register, DetectorInv, DetectorRows
<1>3. UNCHANGED <<receipts, grant, sealed, staff>>
  BY DEF Detector!Register
<1> QED
  BY <1>1, <1>2, <1>3, ReceiptsStay

LEMMA RunKeeps ==
  ASSUME DetectorInv, NEW d \in Versions, NEW passes \in BOOLEAN, Detector!Run(d, passes)
  PROVE  DetectorInv'
<1> DEFINE new == [of |-> d, basis |-> inputs, passes |-> passes, live |-> TRUE,
                   reviews |-> [p \in ReviewersOf[d] |-> "none"]]
<1>n. PICK n \in Nat : n = Len(receipts)
  BY DEF DetectorInv, ReceiptRows
<1>0. /\ receipts' = Append(receipts, new) /\ n < MaxReceipts
      /\ version' = [version EXCEPT ![d] = IF @ = "ACTIVE" /\ ~passes THEN "DISABLED" ELSE @]
      /\ UNCHANGED <<staff, grant, inputs, sealed>>
      /\ Detector!Current(d) /\ inputs \in sealed
  BY <1>n DEF Detector!Run
<1>1. /\ receipts \in Seq(EndedRun \cup StandingRun) /\ DOMAIN receipts = 1..n
      /\ \A i \in DOMAIN receipts : receipts[i].of \in Versions
  BY <1>n, ReceiptTypes
<1>2. /\ new \in StandingRun /\ new.reviews \in [ReviewersOf[d] -> Decisions]
      /\ new.of = d /\ new.live /\ new.passes = passes /\ new.basis = inputs
  <2>1. [p \in ReviewersOf[d] |-> "none"] \in [ReviewersOf[d] -> Decisions]
    BY DEF Decisions
  <2>2. [p \in ReviewersOf[d] |-> "none"] \in UNION {[ReviewersOf[c] -> Decisions] : c \in Versions}
    BY <2>1
  <2>3. inputs \in Inputs
    BY DEF DetectorInv, DetectorRows
  <2> QED
    BY <2>1, <2>2, <2>3 DEF StandingRun
<1> HIDE DEF new
<1>3. /\ receipts' \in Seq(EndedRun \cup StandingRun) /\ Len(receipts') = n + 1
      /\ DOMAIN receipts' = 1..(n + 1) /\ receipts'[n + 1] = new
      /\ \A i \in 1..n : receipts'[i] = receipts[i]
  <2>1. new \in EndedRun \cup StandingRun
    BY <1>2
  <2> QED
    BY <1>n, <1>0, <1>1, <2>1, AppendProperties
<1>4. DetectorRows'
  BY <1>0 DEF DetectorInv, DetectorRows
<1>5. \A c \in Versions : /\ version'[c] = "ACTIVE" => version[c] = "ACTIVE" /\ (c = d => passes)
                          /\ version'[c] \in {"none", "INVALIDATED"} => version'[c] = version[c]
  BY <1>0 DEF DetectorInv, DetectorRows
<1>6. ReceiptRows'
  <2>1. Len(receipts') <= MaxReceipts
    BY <1>0, <1>1, <1>3, DetectorsAssumption
  <2>2. version'[d] # "none"
    BY <1>0, <1>5 DEF Detector!Current
  <2> QED
    BY <1>1, <1>2, <1>3, <1>5, <2>1, <2>2 DEF DetectorInv, ReceiptRows
<1>7. ActiveInv'
  <2> SUFFICES ASSUME NEW c \in Versions, version'[c] = "ACTIVE"
               PROVE  /\ \A b \in Versions \ {c} : version'[b] # "ACTIVE"
                      /\ \E i \in DOMAIN receipts' :
                             Stood(c, i)' /\ receipts'[i].passes /\ Detector!Approved(i)'
                      /\ \E i \in DOMAIN receipts' : NewestRun(c, i)' /\ receipts'[i].passes
    BY DEF ActiveInv
  <2>1. version[c] = "ACTIVE" /\ (c = d => passes)
    BY <1>5
  <2>2. \A b \in Versions \ {c} : version'[b] # "ACTIVE"
    BY <1>5, <2>1 DEF DetectorInv, ActiveInv
  <2>3. PICK i \in DOMAIN receipts : Stood(c, i) /\ receipts[i].passes /\ Detector!Approved(i)
    BY <2>1 DEF DetectorInv, ActiveInv
  <2>4. i \in DOMAIN receipts' /\ Stood(c, i)' /\ receipts'[i].passes /\ Detector!Approved(i)'
    BY <1>1, <1>3, <2>3 DEF Stood, Detector!Approved
  <2>5. CASE c = d
    <3>1. PICK m \in Nat : m = n + 1
      OBVIOUS
    <3>2. m \in DOMAIN receipts' /\ receipts'[m] = new /\ \A j \in DOMAIN receipts' : j <= m
      BY <1>3, <3>1
    <3>3. NewestRun(c, m)' /\ receipts'[m].passes
      BY <1>2, <2>1, <2>5, <3>2 DEF NewestRun, Stood
    <3> QED
      BY <2>2, <2>4, <3>2, <3>3
  <2>6. CASE c # d
    <3>1. PICK j \in DOMAIN receipts : NewestRun(c, j) /\ receipts[j].passes
      BY <2>1 DEF DetectorInv, ActiveInv
    <3>2. j \in DOMAIN receipts' /\ NewestRun(c, j)' /\ receipts'[j].passes
      BY <1>1, <1>2, <1>3, <2>6, <3>1 DEF NewestRun, Stood
    <3> QED
      BY <2>2, <2>4, <3>2
  <2> QED
    BY <2>5, <2>6
<1>8. Detector!ReceiptsAreGrounded'
  <2>1. ASSUME NEW i \in 1..n, receipts[i].live
        PROVE  /\ grant' /\ receipts[i].basis \in sealed'
               /\ version'[receipts[i].of] # "INVALIDATED"
               /\ \A p \in Detector!PeopleOf(receipts[i].of) : staff'[p] # "left"
    BY <1>0, <1>1, <1>5, <2>1 DEF DetectorInv, Detector!ReceiptsAreGrounded
  <2>2. /\ grant' /\ inputs \in sealed' /\ version'[d] # "INVALIDATED"
        /\ \A p \in Detector!PeopleOf(d) : staff'[p] # "left"
    BY <1>0, <1>5 DEF Detector!Current, Detector!Staffed
  <2> QED
    BY <1>1, <1>2, <1>3, <2>1, <2>2 DEF Detector!ReceiptsAreGrounded, Detector!PeopleOf
<1> QED
  BY <1>4, <1>6, <1>7, <1>8 DEF DetectorInv

(* A command that is answered may end every receipt instead.               *)
LEMMA EveryReceiptEnds ==
  ASSUME DetectorInv, Detector!InvalidateDataset(Versions),
         staff' \in [Detector!People -> {"live", "inactive", "left"}],
         grant' \in BOOLEAN, inputs' \in Inputs, sealed' \subseteq Inputs
  PROVE  DetectorInv'
<1> DEFINE all == Versions
<1>1. all \in SUBSET Versions /\ Detector!InvalidateDataset(all) /\ Detector!Measured \subseteq all
  BY MeasuredIsVersions
<1> HIDE DEF all
<1> QED
  BY <1>1, InvalidateKeeps

LEMMA AnsweredKeeps ==
  ASSUME DetectorInv, NEW d \in Versions, NEW written, NEW versions,
         Detector!Answered(d, written, versions),
         receipts' = written /\ version' = versions /\ UNCHANGED <<staff, grant, inputs, sealed>>
             => DetectorInv'
  PROVE  DetectorInv'
<1>1. UNCHANGED <<staff, grant, inputs, sealed>>
  BY DEF Detector!Answered
<1>2. CASE Detector!StaleReceipts(d)
  <2>1. Detector!InvalidateDataset(Versions)
    BY <1>2 DEF Detector!Answered
  <2> QED
    BY <1>1, <2>1, EveryReceiptEnds DEF DetectorInv, DetectorRows
<1>3. CASE ~Detector!StaleReceipts(d)
  BY <1>1, <1>3 DEF Detector!Answered
<1> QED
  BY <1>2, <1>3

LEMMA DisableKeeps ==
  ASSUME DetectorInv, NEW d \in Versions, Detector!Disable(d)
  PROVE  DetectorInv'
<1>1. Detector!Current(d) /\ Detector!Answered(d, receipts, [version EXCEPT ![d] = "DISABLED"])
  BY DEF Detector!Disable
<1>2. ASSUME receipts' = receipts, version' = [version EXCEPT ![d] = "DISABLED"],
             UNCHANGED <<staff, grant, inputs, sealed>>
      PROVE  DetectorInv'
  <2>1. DetectorRows'
    BY <1>2 DEF DetectorInv, DetectorRows
  <2>2. \A c \in Versions : version'[c] = version[c] \/ version'[c] = "DISABLED"
    BY <1>2 DEF DetectorInv, DetectorRows
  <2> QED
    BY <1>2, <2>1, <2>2, ReceiptsStay
<1> QED
  BY <1>1, <1>2, AnsweredKeeps

LEMMA ActivateKeeps ==
  ASSUME DetectorInv, NEW i \in DOMAIN receipts, Detector!Activate(i)
  PROVE  DetectorInv'
<1>d. PICK d \in Versions : d = receipts[i].of
  BY ReceiptTypes
<1> DEFINE next == [c \in Versions |-> IF c = d THEN "ACTIVE"
                                       ELSE IF version[c] = "ACTIVE" THEN "DISABLED"
                                       ELSE version[c]]
<1>1. /\ Detector!Current(d) /\ receipts[i].live /\ receipts[i].passes /\ Detector!Approved(i)
      /\ i = Detector!LatestOf(d) /\ Detector!Answered(d, receipts, next)
  BY <1>d DEF Detector!Activate, Detector!LiveRun, Detector!IsLatest
<1>2. NewestRun(d, i)
  BY <1>d, <1>1, LatestIsNewest DEF Stood
<1>3. ASSUME receipts' = receipts, version' = next, UNCHANGED <<staff, grant, inputs, sealed>>
      PROVE  DetectorInv'
  <2>1. /\ version'[d] = "ACTIVE" /\ version[d] \notin {"none", "INVALIDATED"}
        /\ \A c \in Versions \ {d} : /\ version'[c] # "ACTIVE"
                                     /\ version'[c] = version[c] \/ version'[c] = "DISABLED"
    BY <1>1, <1>3 DEF Detector!Current
  <2>2. DetectorRows'
    BY <1>3 DEF DetectorInv, DetectorRows
  <2>3. ReceiptRows'
    BY <1>3, <2>1, ReceiptTypes DEF DetectorInv, ReceiptRows
  <2>4. ActiveInv'
    <3>1. Stood(d, i)' /\ receipts'[i].passes /\ Detector!Approved(i)' /\ NewestRun(d, i)'
      BY <1>1, <1>2, <1>3 DEF Stood, NewestRun, Detector!Approved
    <3> QED
      BY <2>1, <3>1 DEF ActiveInv, Stood
  <2>5. Detector!ReceiptsAreGrounded'
    BY <1>3, <2>1, ReceiptTypes DEF DetectorInv, Detector!ReceiptsAreGrounded, Detector!PeopleOf
  <2> QED
    BY <2>2, <2>3, <2>4, <2>5 DEF DetectorInv
<1> HIDE DEF next
<1> QED
  BY <1>1, <1>3, AnsweredKeeps

LEMMA ReviewKeepsReceipt ==
  ASSUME DetectorInv, NEW i \in DOMAIN receipts, NEW p, NEW decision \in {"APPROVE", "REJECT"},
         Detector!Review(i, p, decision)
  PROVE  DetectorInv'
<1>d. PICK d \in Versions : d = receipts[i].of
  BY ReceiptTypes
<1> DEFINE r == receipts[i]
           changed == [r EXCEPT !.reviews = [r.reviews EXCEPT ![p] = decision]]
           written == [receipts EXCEPT ![i] = changed]
<1>1. /\ Detector!Current(d) /\ r.live /\ p \in ReviewersOf[d] /\ r.reviews[p] = "none"
      /\ Detector!Answered(d, written, version)
  BY <1>d DEF Detector!Review, Detector!LiveRun
<1>2. /\ r \in StandingRun /\ r.of = d /\ r.reviews \in [ReviewersOf[d] -> Decisions]
      /\ i \in 1..Len(receipts)
  <2>1. r \in EndedRun \cup StandingRun
    BY ReceiptTypes
  <2>2. \A x \in EndedRun : x.live = FALSE
    BY DEF EndedRun
  <2> QED
    BY <1>d, <1>1, <2>1, <2>2, ReceiptTypes DEF DetectorInv, ReceiptRows
<1>3. /\ changed \in StandingRun /\ changed.of = d /\ changed.live /\ changed.passes = r.passes
      /\ changed.basis = r.basis /\ changed.reviews = [r.reviews EXCEPT ![p] = decision]
      /\ changed.reviews \in [ReviewersOf[d] -> Decisions]
  <2>1. [r.reviews EXCEPT ![p] = decision] \in [ReviewersOf[d] -> Decisions]
    BY <1>2 DEF Decisions
  <2>2. \A x \in StandingRun, f \in UNION {[ReviewersOf[c] -> Decisions] : c \in Versions} :
           LET y == [x EXCEPT !.reviews = f]
           IN  /\ y \in StandingRun /\ y.of = x.of /\ y.live = x.live /\ y.passes = x.passes
               /\ y.basis = x.basis /\ y.reviews = f
    BY DEF StandingRun
  <2>3. [r.reviews EXCEPT ![p] = decision] \in UNION {[ReviewersOf[c] -> Decisions] : c \in Versions}
    BY <2>1
  <2> HIDE DEF r
  <2> QED
    BY <1>1, <1>2, <2>1, <2>2, <2>3
<1> HIDE DEF changed
<1>4. ASSUME receipts' = written, version' = version, UNCHANGED <<staff, grant, inputs, sealed>>
      PROVE  DetectorInv'
  <2>1. /\ receipts' \in Seq(EndedRun \cup StandingRun) /\ Len(receipts') = Len(receipts)
        /\ DOMAIN receipts' = DOMAIN receipts /\ receipts'[i] = changed
        /\ \A j \in DOMAIN receipts \ {i} : receipts'[j] = receipts[j]
    BY <1>2, <1>3, <1>4, ReceiptTypes
  <2>2. DetectorRows'
    BY <1>4 DEF DetectorInv, DetectorRows
  <2>3. ReceiptRows'
    BY <1>2, <1>3, <1>4, <2>1, ReceiptTypes DEF DetectorInv, ReceiptRows
  <2>4. \A c \in Versions, j \in DOMAIN receipts :
            /\ Stood(c, j) => Stood(c, j)'
            /\ Stood(c, j)' => Stood(c, j)
            /\ Stood(c, j) => receipts'[j].passes = receipts[j].passes
            /\ Stood(c, j) /\ Detector!Approved(j) => Detector!Approved(j)'
    <3>1. ~Detector!Approved(i)
      BY <1>1, <1>d DEF Detector!Approved
    <3> QED
      BY <1>1, <1>2, <1>3, <2>1, <3>1 DEF Stood, Detector!Approved
  <2>5. ActiveInv'
    <3> SUFFICES ASSUME NEW c \in Versions, version'[c] = "ACTIVE"
                 PROVE  /\ \A b \in Versions \ {c} : version'[b] # "ACTIVE"
                        /\ \E j \in DOMAIN receipts' :
                               Stood(c, j)' /\ receipts'[j].passes /\ Detector!Approved(j)'
                        /\ \E j \in DOMAIN receipts' : NewestRun(c, j)' /\ receipts'[j].passes
      BY DEF ActiveInv
    <3>1. PICK j \in DOMAIN receipts : Stood(c, j) /\ receipts[j].passes /\ Detector!Approved(j)
      BY <1>4 DEF DetectorInv, ActiveInv
    <3>2. PICK k \in DOMAIN receipts : NewestRun(c, k) /\ receipts[k].passes
      BY <1>4 DEF DetectorInv, ActiveInv
    <3>3. Stood(c, j)' /\ receipts'[j].passes /\ Detector!Approved(j)'
      BY <2>4, <3>1
    <3>4. NewestRun(c, k)' /\ receipts'[k].passes
      BY <2>1, <2>4, <3>2 DEF NewestRun
    <3> QED
      BY <1>4, <2>1, <3>3, <3>4 DEF DetectorInv, ActiveInv
  <2>6. Detector!ReceiptsAreGrounded'
    <3>1. \A j \in DOMAIN receipts :
             receipts'[j].live => receipts[j].live /\ receipts'[j].of = receipts[j].of
                                  /\ receipts'[j].basis = receipts[j].basis
      BY <1>1, <1>2, <1>3, <2>1
    <3> QED
      BY <1>4, <2>1, <3>1 DEF DetectorInv, Detector!ReceiptsAreGrounded, Detector!PeopleOf
  <2> QED
    BY <2>2, <2>3, <2>5, <2>6 DEF DetectorInv
<1> HIDE DEF written
<1> QED
  BY <1>1, <1>4, AnsweredKeeps

LEMMA DatasetStepsKeep ==
  ASSUME DetectorInv,
         \/ Detector!SealSnapshot \/ Detector!Drift \/ Detector!StudyChanges
         \/ Detector!ReadDataset \/ Detector!EndGrant \/ \E d \in Versions : Detector!View(d)
  PROVE  DetectorInv'
<1>0. DetectorRows
  BY DEF DetectorInv
<1>1. CASE Detector!SealSnapshot \/ Detector!Drift
  <2>1. DetectorRows' /\ UNCHANGED <<receipts, version, staff, grant>> /\ sealed \subseteq sealed'
    BY <1>0, <1>1 DEF Detector!SealSnapshot, Detector!Drift, DetectorRows
  <2> QED
    BY <2>1, ReceiptsStay
<1>2. CASE Detector!StudyChanges
  <2>1. /\ Detector!InvalidateDataset(Detector!Measured)
        /\ staff' \in [Detector!People -> {"live", "inactive", "left"}]
        /\ grant' \in BOOLEAN /\ inputs' \in Inputs /\ sealed' \subseteq Inputs
    BY <1>0, <1>2 DEF Detector!StudyChanges, DetectorRows
  <2> QED
    BY <2>1, MeasuredIsVersions, InvalidateKeeps
<1>3. CASE Detector!ReadDataset \/ Detector!EndGrant \/ \E d \in Versions : Detector!View(d)
  <2>1. /\ Detector!InvalidateDataset(Versions)
        /\ staff' \in [Detector!People -> {"live", "inactive", "left"}]
        /\ grant' \in BOOLEAN /\ inputs' \in Inputs /\ sealed' \subseteq Inputs
    BY <1>0, <1>3 DEF Detector!ReadDataset, Detector!EndGrant, Detector!View, DetectorRows
  <2> QED
    BY <2>1, EveryReceiptEnds
<1> QED
  BY <1>1, <1>2, <1>3

(* Who leaves without a version ending answers for no report.              *)
LEMMA LeaveKeeps ==
  ASSUME DetectorInv, NEW p \in Detector!People, Detector!Leave(p)
  PROVE  DetectorInv'
<1>1. /\ staff' = [staff EXCEPT ![p] = "left"]
      /\ staff' \in [Detector!People -> {"live", "inactive", "left"}]
      /\ grant' \in BOOLEAN /\ inputs' \in Inputs /\ sealed' \subseteq Inputs
  BY DEF Detector!Leave, DetectorInv, DetectorRows
<1>2. CASE Detector!InvalidateDataset(Versions)
  BY <1>1, <1>2, EveryReceiptEnds
<1>3. CASE ~Detector!InvalidateDataset(Versions)
  <2>1. /\ p # Manager /\ UNCHANGED <<version, receipts, grant, sealed, inputs>>
        /\ \A d \in Versions : version[d] # "none" => p \notin ReviewersOf[d]
    BY <1>3 DEF Detector!Leave
  <2>2. DetectorRows'
    BY <1>1, <2>1 DEF DetectorInv, DetectorRows
  <2>3. ReceiptRows' /\ ActiveInv'
    <3>1. ReceiptRows'
      BY <2>1 DEF DetectorInv, ReceiptRows
    <3>2. ActiveInv'
      BY <2>1 DEF DetectorInv, ActiveInv, Stood, NewestRun, Detector!Approved
    <3> QED
      BY <3>1, <3>2
  <2>4. \A i \in DOMAIN receipts : p \notin Detector!PeopleOf(receipts[i].of)
    BY <2>1, ReceiptTypes DEF DetectorInv, ReceiptRows, Detector!PeopleOf
  <2>5. Detector!ReceiptsAreGrounded'
    <3>1. \A d \in Versions : Detector!PeopleOf(d) \subseteq Detector!People
      BY DEF Detector!PeopleOf, Detector!People, Detector!Reviewers
    <3> QED
      BY <1>1, <2>1, <2>4, <3>1, ReceiptTypes
         DEF DetectorInv, DetectorRows, Detector!ReceiptsAreGrounded, Detector!PeopleOf
  <2> QED
    BY <2>2, <2>3, <2>5 DEF DetectorInv
<1> QED
  BY <1>2, <1>3

LEMMA PauseKeeps ==
  ASSUME DetectorInv, NEW p \in Detector!People, Detector!Suspend(p) \/ Detector!Resume(p)
  PROVE  DetectorInv'
<1>1. DetectorRows' /\ UNCHANGED <<receipts, version, grant, sealed>>
      /\ \A q \in Detector!People : staff'[q] = "left" => staff[q] = "left"
  BY DEF Detector!Suspend, Detector!Resume, DetectorInv, DetectorRows
<1> QED
  BY <1>1, ReceiptsStay

LEMMA DetectorStep == DetectorInv /\ [Detector!Next]_(Detector!vars) => DetectorInv'
<1> SUFFICES ASSUME DetectorInv, [Detector!Next]_(Detector!vars) PROVE DetectorInv'
  OBVIOUS
<1>1. CASE UNCHANGED Detector!vars
  BY <1>1 DEF Detector!vars, DetectorInv, DetectorRows, ReceiptRows, ActiveInv, Stood, NewestRun,
              Detector!Approved, Detector!ReceiptsAreGrounded, Detector!PeopleOf
<1>2. CASE Detector!Next
  <2>1. ASSUME NEW d \in Versions,
               \/ Detector!Register(d) \/ Detector!Disable(d) \/ Detector!View(d)
               \/ \E passes \in BOOLEAN : Detector!Run(d, passes)
        PROVE  DetectorInv'
    BY <2>1, RegisterKeeps, DisableKeeps, DatasetStepsKeep, RunKeeps
  <2>2. ASSUME NEW i \in DOMAIN receipts,
               \/ Detector!Activate(i)
               \/ \E p \in Detector!Reviewers, decision \in {"APPROVE", "REJECT"} :
                      Detector!Review(i, p, decision)
        PROVE  DetectorInv'
    BY <2>2, ActivateKeeps, ReviewKeepsReceipt
  <2>3. ASSUME \/ Detector!SealSnapshot \/ Detector!Drift \/ Detector!StudyChanges
               \/ Detector!ReadDataset \/ Detector!EndGrant
        PROVE  DetectorInv'
    BY <2>3, DatasetStepsKeep
  <2>4. ASSUME NEW p \in Detector!People,
               Detector!Leave(p) \/ Detector!Suspend(p) \/ Detector!Resume(p)
        PROVE  DetectorInv'
    BY <2>4, LeaveKeeps, PauseKeeps
  <2> QED
    BY <1>2, <2>1, <2>2, <2>3, <2>4 DEF Detector!Next
<1> QED
  BY <1>1, <1>2

(* An active version stands on its newest run, which passes and two people *)
(* have approved, and there is one active version at most, after every     *)
(* call of recognition.py.                                                 *)
THEOREM DetectorInvHolds == Detector!Spec => []DetectorInv
<1> QED
  BY DetectorInit, DetectorStep, PTL DEF Detector!Spec

(* Reports, snapshots and imports describe only studies, members and       *)
(* evidence that are there, and a detector is active only on a receipt two *)
(* reviewers approved over evidence that is there (pilots.py, datasets.py, *)
(* recognition.py).                                                        *)
THEOREM StudiesSoundHolds ==
  Study!Spec /\ Detector!Spec =>
    []Study!StudiesSound /\ []Detector!DetectorsSound /\ []StudiesSound
<1>1. StudyInv => Study!StudiesSound
  BY StudyInvIsSound
<1>2. DetectorInv => Detector!DetectorsSound
  BY DetectorInvIsSound
<1>3. Study!StudiesSound /\ Detector!DetectorsSound => StudiesSound
  BY DEF StudiesSound
<1> QED BY StudyInvHolds, DetectorInvHolds, <1>1, <1>2, <1>3, PTL

(* A recording is kept for as long as the studies it is in were promised,  *)
(* and once it has left them for no longer than its account keeps it, in   *)
(* whatever order it joins and leaves them (link_capture and               *)
(* invalidate_captures in pilots.py).                                      *)
THEOREM RetentionReturnsHolds ==
  Study!Spec => []Study!RetentionReturns /\ []RetentionReturns
<1>1. StudyInv => Study!RetentionReturns
  BY StudyInvIsSound
<1>2. Study!RetentionReturns => RetentionReturns
  BY DEF RetentionReturns
<1> QED BY StudyInvHolds, <1>1, <1>2, PTL

(***************************************************************************)
(* Knowledge: the withdrawal of a release takes back all that rests on it, *)
(* for any finite set of versions and whatever they depend on.             *)
(***************************************************************************)

InForce == {"PUBLISHED", "RETIRED"}
KnowledgeRows ==
  /\ proposal \in [Keys -> {"none", "OPEN", "PUBLISHED", "RETIRED", "WITHDRAWN"}]
  /\ published \subseteq Keys
  /\ extraction \in [Definitions!Runs -> {"none", "QUEUED", "REVIEW_REQUIRED", "CANCELLED"}]
  /\ event \in [Definitions!Runs -> {"none", "live", "deleted"}]
  /\ publication \in [revision : Nat, run : Definitions!Runs]
  /\ seen \in [Reanalyses -> [revision : Nat, run : Definitions!Runs]]
  /\ contribution \in BOOLEAN

(* What is proposed names published versions, and what is published is in  *)
(* force or withdrawn.                                                     *)
ReleasesInv ==
  /\ \A k \in Keys : proposal[k] # "none" => DependsOn[k] \subseteq published
  /\ \A k \in Keys : proposal[k] \in InForce => k \in published
  /\ \A k \in published : proposal[k] \in InForce \cup {"WITHDRAWN"}

(* A reanalysis was asked for under a published mapping, and what was      *)
(* published last has run.                                                 *)
ReanalysesInv ==
  /\ \A r \in Reanalyses : extraction[r] \notin {"none", "CANCELLED"} => Mapping \in published
  /\ publication.run # Definitions!First => extraction[publication.run] # "none"

KnowledgeInv ==
  /\ KnowledgeRows /\ ReleasesInv /\ ReanalysesInv
  /\ Definitions!WithdrawalIsTransitive
  /\ Definitions!NothingRestsOnWithdrawn
  /\ Definitions!ContributionIsLive

LEMMA RunTypes ==
  /\ Definitions!First \in Definitions!Runs /\ Definitions!First \notin Reanalyses
  /\ Reanalyses \subseteq Definitions!Runs
  /\ Definitions!Runs \subseteq Nat
  /\ \A r \in Definitions!Runs : r = Definitions!First \/ r \in Reanalyses
  /\ \A r \in Definitions!Runs : Definitions!Version(r) \in {From, To}
  /\ {Mapping, From, To} \subseteq Keys
BY KnowledgeAssumption DEF KnowledgeAssumption, Definitions!First, Definitions!Runs, Definitions!Version

LEMMA KnowledgeInit == Definitions!Init => KnowledgeInv
<1> SUFFICES ASSUME Definitions!Init PROVE KnowledgeInv
  OBVIOUS
<1> USE DEF Definitions!Init
<1>1. KnowledgeRows
  <2>1. publication \in [revision : Nat, run : Definitions!Runs]
    BY RunTypes
  <2> QED BY <2>1, RunTypes DEF KnowledgeRows
<1>2. \A k \in Keys : proposal[k] = "none"
  OBVIOUS
<1>3. ReleasesInv
  BY <1>2 DEF ReleasesInv, InForce
<1>4. ReanalysesInv
  BY RunTypes DEF ReanalysesInv
<1>5. Definitions!WithdrawalIsTransitive /\ Definitions!NothingRestsOnWithdrawn
  BY DEF Definitions!WithdrawalIsTransitive, Definitions!NothingRestsOnWithdrawn
<1>6. Definitions!ContributionIsLive
  BY DEF Definitions!ContributionIsLive
<1> QED BY <1>1, <1>3, <1>4, <1>5, <1>6 DEF KnowledgeInv

(* Any set of numbers has a least one.                                     *)
LEMMA LeastExists ==
  ASSUME NEW B, B \subseteq Nat, B # {}
  PROVE  \E n \in B : \A m \in B : ~(m < n)
<1>1. PICK n \in B : \A m \in B : ~(<<m, n>> \in OpToRel(<, Nat))
  BY WFMin, NatLessThanWellFounded
<1>2. \A m \in B : m < n => <<m, n>> \in OpToRel(<, Nat)
  BY DEF OpToRel
<1> QED BY <1>1, <1>2

(* The rounds of a withdrawal, as many as one likes.                       *)
IsRounds(g, m, S) ==
  g = [n \in 0..m |-> IF n = 0 THEN S \cap published ELSE Definitions!WithDependents(g[n - 1])]

LEMMA RoundsExist ==
  ASSUME NEW S, NEW m \in Nat PROVE \E g : IsRounds(g, m, S)
<1> DEFINE Bad == {n \in Nat : ~\E g : IsRounds(g, n, S)}
<1>1. SUFFICES ASSUME Bad # {} PROVE FALSE
  OBVIOUS
<1>2. PICK n \in Bad : \A k \in Bad : ~(k < n)
  <2>1. Bad \subseteq Nat
    OBVIOUS
  <2> HIDE DEF Bad
  <2> QED BY <1>1, <2>1, LeastExists
<1>3. CASE n = 0
  <2> DEFINE g == [k \in 0..0 |-> S \cap published]
  <2>1. \A k \in 0..0 : k = 0
    OBVIOUS
  <2>2. g = [k \in 0..0 |-> IF k = 0 THEN S \cap published ELSE Definitions!WithDependents(g[k - 1])]
    BY <2>1
  <2>3. IsRounds(g, 0, S)
    BY <2>2 DEF IsRounds
  <2> QED BY <1>3, <2>3
<1>4. CASE n # 0
  <2>1. n \in Nat /\ n - 1 \in Nat /\ n - 1 < n /\ n - 1 \notin Bad
    BY <1>2, <1>4
  <2>2. PICK g : IsRounds(g, n - 1, S)
    BY <2>1
  <2> DEFINE h == [k \in 0..n |-> IF k = 0 THEN S \cap published
                                  ELSE Definitions!WithDependents(g[k - 1])]
  <2>3. \A k \in 0..(n - 1) :
           k \in 0..n /\ g[k] = IF k = 0 THEN S \cap published ELSE Definitions!WithDependents(g[k - 1])
    <3> SUFFICES ASSUME NEW k \in 0..(n - 1)
                 PROVE  /\ k \in 0..n
                        /\ g[k] = IF k = 0 THEN S \cap published ELSE Definitions!WithDependents(g[k - 1])
      OBVIOUS
    <3>1. k \in 0..n
      BY <2>1
    <3>2. g[k] = IF k = 0 THEN S \cap published ELSE Definitions!WithDependents(g[k - 1])
      BY <2>2 DEF IsRounds
    <3> QED BY <3>1, <3>2
  <2>4. \A k \in 0..n : k # 0 => h[k - 1] = g[k - 1]
    <3> SUFFICES ASSUME NEW k \in 0..n, k # 0 PROVE h[k - 1] = g[k - 1]
      OBVIOUS
    <3>1. k - 1 \in 0..(n - 1)
      BY <2>1
    <3>2. k - 1 \in 0..n
      BY <2>3, <3>1
    <3> QED BY <2>3, <3>1, <3>2
  <2>5. PICK f : f = h
    OBVIOUS
  <2>6. f = [k \in 0..n |-> IF k = 0 THEN S \cap published
                            ELSE Definitions!WithDependents(g[k - 1])]
    BY <2>5
  <2>7. \A k \in 0..n : k # 0 => f[k - 1] = g[k - 1]
    BY <2>4, <2>5
  <2> HIDE DEF h
  <2>8. f = [k \in 0..n |-> IF k = 0 THEN S \cap published
                            ELSE Definitions!WithDependents(f[k - 1])]
    BY <2>6, <2>7
  <2>9. IsRounds(f, n, S)
    BY <2>8 DEF IsRounds
  <2> QED BY <2>9
<1> QED BY <1>3, <1>4

LEMMA KnowledgeCardinality ==
  ASSUME NEW S PROVE Definitions!Cardinality(S) = Cardinality(S)
  BY DEF Definitions!Cardinality, Cardinality

(* Each round adds one version at least, or there are no more: after as    *)
(* many rounds as there are versions nothing rests on what is withdrawn.   *)
LEMMA WithdrawnIsClosed ==
  ASSUME published \subseteq Keys, ReleasesInv, NEW S
  PROVE  /\ Definitions!Withdrawn(S) \subseteq published
         /\ S \cap published \subseteq Definitions!Withdrawn(S)
         /\ Definitions!Dependents(Definitions!Withdrawn(S)) \subseteq Definitions!Withdrawn(S)
<1> DEFINE N == Cardinality(Keys)
           reached == CHOOSE g : IsRounds(g, N, S)
           Closed(X) == Definitions!Dependents(X) \subseteq X
           Good(n) == /\ reached[n] \subseteq published /\ S \cap published \subseteq reached[n]
                      /\ Closed(reached[n]) \/ Cardinality(reached[n]) >= n
<1>1. IsFiniteSet(Keys) /\ N \in Nat
  BY KnowledgeAssumption, FS_CardinalityType DEF KnowledgeAssumption
<1>2. IsRounds(reached, N, S)
  <2>1. \E g : IsRounds(g, N, S)
    <3> HIDE DEF N
    <3> QED BY <1>1, RoundsExist
  <2> QED BY <2>1
<1>3. Definitions!Withdrawn(S) = reached[N]
  BY KnowledgeCardinality DEF Definitions!Withdrawn, IsRounds
<1> HIDE DEF reached, N
<1>4. reached[0] = S \cap published
  BY <1>1, <1>2 DEF IsRounds
<1>5. \A n \in 0..N : n # 0 => reached[n] = Definitions!WithDependents(reached[n - 1])
  BY <1>1, <1>2 DEF IsRounds
<1>6. \A X : Definitions!Dependents(X) \subseteq published
  BY DEF ReleasesInv, InForce, Definitions!Dependents
<1>7. \A n \in 0..N : Good(n)
  <2> DEFINE Bad == {n \in 0..N : ~Good(n)}
  <2>1. SUFFICES ASSUME Bad # {} PROVE FALSE
    OBVIOUS
  <2>2. PICK n \in Bad : \A k \in Bad : ~(k < n)
    <3>1. Bad \subseteq Nat
      BY <1>1
    <3> HIDE DEF Bad
    <3> QED BY <2>1, <3>1, LeastExists
  <2>3. n \in 0..N /\ n \in Nat
    BY <1>1
  <2>4. CASE n = 0
    <3>1. reached[0] \subseteq published /\ IsFiniteSet(reached[0])
      BY <1>1, <1>4, FS_Subset
    <3>2. Cardinality(reached[0]) \in Nat
      BY <3>1, FS_CardinalityType
    <3>3. Cardinality(reached[0]) >= 0
      BY <3>2
    <3>4. Good(0)
      BY <1>4, <3>1, <3>3
    <3> QED BY <2>4, <3>4
  <2>5. CASE n # 0
    <3> DEFINE X == reached[n - 1]
               Y == reached[n]
    <3>1. n - 1 \in 0..N /\ n - 1 < n
      BY <1>1, <2>3, <2>5
    <3>2. Good(n - 1)
      BY <2>2, <3>1
    <3>3. Y = X \cup Definitions!Dependents(X)
      BY <1>5, <2>3, <2>5 DEF Definitions!WithDependents
    <3>4. X \subseteq published /\ Y \subseteq published /\ S \cap published \subseteq Y
      BY <1>6, <3>2, <3>3
    <3>5. CASE Closed(X)
      <4>1. Y = X
        BY <3>3, <3>5
      <4>2. Good(n)
        BY <3>4, <3>5, <4>1
      <4> QED BY <4>2
    <3>6. CASE ~Closed(X)
      <4>1. X # Y /\ X \in SUBSET Y
        BY <3>3, <3>6
      <4>2. IsFiniteSet(Y) /\ IsFiniteSet(X)
        BY <1>1, <3>4, FS_Subset
      <4>3. Cardinality(X) <= Cardinality(Y) /\ Cardinality(X) # Cardinality(Y)
        BY <4>1, <4>2, FS_Subset
      <4>4. Cardinality(X) \in Nat /\ Cardinality(Y) \in Nat
        BY <4>2, FS_CardinalityType
      <4>5. Cardinality(X) >= n - 1
        BY <3>2, <3>6
      <4>6. Cardinality(Y) >= n
        BY <2>3, <4>3, <4>4, <4>5
      <4>7. Good(n)
        BY <3>4, <4>6
      <4> QED BY <4>7
    <3> QED BY <3>5, <3>6
  <2> QED BY <2>4, <2>5
<1>8. Good(N)
  BY <1>1, <1>7
<1>9. CASE ~Closed(reached[N])
  <2>1. Cardinality(reached[N]) >= N /\ reached[N] \in SUBSET Keys
    BY <1>8, <1>9
  <2>2. IsFiniteSet(reached[N]) /\ Cardinality(reached[N]) <= Cardinality(Keys)
    BY <1>1, <2>1, FS_Subset
  <2>3. Cardinality(reached[N]) \in Nat
    BY <2>2, FS_CardinalityType
  <2>4. Cardinality(reached[N]) = Cardinality(Keys)
    BY <1>1, <2>1, <2>2, <2>3 DEF N
  <2>5. reached[N] = Keys
    BY <1>1, <2>1, <2>4, FS_Subset
  <2> QED BY <1>6, <1>9, <2>5, published \subseteq Keys
<1> QED BY <1>3, <1>8, <1>9
(* What lies below a version is the version and what lies below those that *)
(* it names.                                                               *)
LEMMA BelowUnfolds ==
  ASSUME NEW k \in Keys PROVE Below[k] \subseteq {k} \cup UNION {Below[j] : j \in DependsOn[k]}
<1> DEFINE T == {k} \cup UNION {Below[j] : j \in DependsOn[k]}
<1> USE KnowledgeAssumption DEF KnowledgeAssumption
<1>1. T \in SUBSET Keys /\ k \in T
  OBVIOUS
<1>2. ASSUME NEW j \in T PROVE DependsOn[j] \subseteq T
  <2>1. CASE j = k
    <3>1. \A i \in DependsOn[k] : i \in Keys /\ i \in Below[i]
      OBVIOUS
    <3> QED BY <2>1, <3>1
  <2>2. CASE j # k
    <3>1. PICK i \in DependsOn[k] : j \in Below[i]
      BY <2>2
    <3>2. DependsOn[j] \subseteq Below[i]
      BY <3>1
    <3> QED BY <3>1, <3>2
  <2> QED BY <2>1, <2>2
<1>3. Below[k] \subseteq T
  <2> HIDE DEF T
  <2> QED BY <1>1, <1>2
<1> QED BY <1>3

(* A release in force rests on releases in force.                          *)
LEMMA GroundsInForce ==
  ASSUME KnowledgeInv, NEW p \in Keys, proposal[p] \in InForce
  PROVE  /\ p \in published /\ Below[p] \subseteq published
         /\ \A j \in Below[p] : proposal[j] \in InForce
<1>1. p \in published /\ published \subseteq Keys
  BY DEF KnowledgeInv, KnowledgeRows, ReleasesInv
<1>2. \A j \in published : DependsOn[j] \subseteq published
  BY <1>1 DEF KnowledgeInv, ReleasesInv, InForce
<1>3. Below[p] \subseteq published
  BY <1>1, <1>2, KnowledgeAssumption DEF KnowledgeAssumption
<1>4. ASSUME NEW j \in Below[p] PROVE proposal[j] \in InForce
  <2>1. j \in published
    BY <1>3
  <2>2. proposal[j] # "WITHDRAWN"
    BY <2>1 DEF KnowledgeInv, Definitions!WithdrawalIsTransitive, InForce
  <2> QED BY <2>1, <2>2 DEF KnowledgeInv, ReleasesInv
<1> QED BY <1>1, <1>3, <1>4

(* What is in force and rests, at any depth, on what is withdrawn is       *)
(* withdrawn with it.                                                      *)
LEMMA WithdrawnReaches ==
  ASSUME KnowledgeInv, NEW S, NEW p \in Keys, proposal[p] \in InForce,
         NEW k \in Below[p], k \in Definitions!Withdrawn(S)
  PROVE  p \in Definitions!Withdrawn(S)
<1> DEFINE W == Definitions!Withdrawn(S)
           T == Below[p] \ W
<1>1. SUFFICES ASSUME p \notin W PROVE FALSE
  OBVIOUS
<1>2. Definitions!Dependents(W) \subseteq W
  BY WithdrawnIsClosed DEF KnowledgeInv, KnowledgeRows
<1> HIDE DEF W
<1>3. Below[p] \subseteq Keys /\ p \in Below[p] /\ \A j \in Below[p] : DependsOn[j] \subseteq Below[p]
  BY KnowledgeAssumption DEF KnowledgeAssumption
<1>4. ASSUME NEW j \in T PROVE DependsOn[j] \subseteq T
  <2>1. proposal[j] \in InForce /\ j \in Keys
    BY <1>3, GroundsInForce
  <2>2. SUFFICES ASSUME NEW i \in DependsOn[j], i \in W PROVE FALSE
    BY <1>3
  <2>3. j \in Definitions!Dependents(W)
    BY <2>1, <2>2 DEF Definitions!Dependents, InForce
  <2> QED BY <1>2, <2>3
<1>5. Below[p] \subseteq T
  <2>1. p \in T /\ T \in SUBSET Keys
    BY <1>1, <1>3
  <2> HIDE DEF T
  <2> QED BY <1>4, <2>1, KnowledgeAssumption DEF KnowledgeAssumption
<1> QED BY <1>5 DEF W

-----------------------------------------------------------------------------
LEMMA RevokeKeeps ==
  ASSUME KnowledgeInv, NEW S \in SUBSET Keys, \A k \in S : proposal[k] # "none",
         NEW stopped, NEW erased, Definitions!Revoke(S, stopped, erased)
  PROVE  KnowledgeInv'
<1> DEFINE W == Definitions!Withdrawn(S)
           deleted == {r \in Definitions!Runs : event[r] = "live"
                                                /\ (Definitions!Version(r) \in W \/ r \in erased)}
           gone == Definitions!Resting(W) \cup stopped
<1>1. W \subseteq published /\ published \subseteq Keys /\ S \cap published \subseteq W
  BY WithdrawnIsClosed DEF KnowledgeInv, KnowledgeRows
<1>2. /\ proposal' = [k \in Keys |-> IF k \in S \cup W THEN "WITHDRAWN" ELSE proposal[k]]
      /\ event' = [r \in Definitions!Runs |-> IF r \in deleted THEN "deleted" ELSE event[r]]
      /\ contribution' = (contribution /\ deleted = {})
      /\ extraction' = [r \in Definitions!Runs |-> IF r \in gone THEN "CANCELLED" ELSE extraction[r]]
      /\ UNCHANGED <<published, seen, publication>>
  BY DEF Definitions!Revoke
<1>3. \A p \in Keys : \A k \in Below[p] : proposal[p] \in InForce /\ k \in W => p \in W
  BY WithdrawnReaches
<1> HIDE DEF W
<1>4. \A k \in W : proposal[k] # "none"
  BY <1>1 DEF KnowledgeInv, ReleasesInv, InForce
<1>5. KnowledgeRows'
  <2>1. proposal' \in [Keys -> {"none", "OPEN", "PUBLISHED", "RETIRED", "WITHDRAWN"}]
    BY <1>2 DEF KnowledgeInv, KnowledgeRows
  <2>2. extraction' \in [Definitions!Runs -> {"none", "QUEUED", "REVIEW_REQUIRED", "CANCELLED"}]
    BY <1>2 DEF KnowledgeInv, KnowledgeRows
  <2>3. event' \in [Definitions!Runs -> {"none", "live", "deleted"}]
    BY <1>2 DEF KnowledgeInv, KnowledgeRows
  <2>4. contribution' \in BOOLEAN
    BY <1>2 DEF KnowledgeInv, KnowledgeRows
  <2> QED BY <1>2, <2>1, <2>2, <2>3, <2>4 DEF KnowledgeInv, KnowledgeRows
<1>6. ReleasesInv'
  <2>1. \A k \in Keys : proposal'[k] # "none" => proposal[k] # "none"
    BY <1>2, <1>4
  <2>2. \A k \in Keys : proposal'[k] \in InForce => proposal[k] \in InForce
    BY <1>2 DEF InForce
  <2>3. \A k \in published : proposal'[k] = proposal[k] \/ proposal'[k] = "WITHDRAWN"
    BY <1>2 DEF KnowledgeInv, KnowledgeRows
  <2> QED BY <1>2, <2>1, <2>2, <2>3 DEF KnowledgeInv, ReleasesInv, InForce
<1>7. ReanalysesInv'
  <2>1. \A r \in Definitions!Runs : extraction'[r] \notin {"none", "CANCELLED"} => extraction[r] = extraction'[r]
    BY <1>2
  <2>2. \A r \in Definitions!Runs : extraction[r] # "none" => extraction'[r] # "none"
    BY <1>2
  <2>3. publication.run \in Definitions!Runs
    BY DEF KnowledgeInv, KnowledgeRows
  <2> QED BY <1>2, <2>1, <2>2, <2>3, RunTypes DEF KnowledgeInv, ReanalysesInv
(* A release that is withdrawn now and was published is in W.              *)
<1>8. \A k \in published : proposal'[k] = "WITHDRAWN" => proposal[k] = "WITHDRAWN" \/ k \in W
  BY <1>1, <1>2 DEF KnowledgeInv, KnowledgeRows
<1>9. Definitions!WithdrawalIsTransitive'
  <2> SUFFICES ASSUME NEW k \in published, proposal'[k] = "WITHDRAWN",
                      NEW p \in Keys, proposal'[p] \in InForce, k \in Below[p]
               PROVE  FALSE
    BY <1>2 DEF Definitions!WithdrawalIsTransitive, InForce
  <2>1. proposal[p] \in InForce /\ p \notin W
    BY <1>2 DEF InForce
  <2>2. proposal[k] # "WITHDRAWN"
    BY <2>1 DEF KnowledgeInv, Definitions!WithdrawalIsTransitive, InForce
  <2> QED BY <1>3, <1>8, <2>1, <2>2
<1>10. Definitions!NothingRestsOnWithdrawn'
  <2> SUFFICES ASSUME NEW k \in published, proposal'[k] = "WITHDRAWN"
               PROVE  /\ \A r \in Definitions!Runs :
                            Definitions!Version(r) \in published /\ k \in Below[Definitions!Version(r)]
                              => event'[r] # "live"
                      /\ \A r \in Reanalyses : k \in Below[Mapping] => extraction'[r] \in {"none", "CANCELLED"}
    BY <1>2 DEF Definitions!NothingRestsOnWithdrawn, Definitions!Version
  <2>1. ASSUME NEW r \in Definitions!Runs, Definitions!Version(r) \in published,
               k \in Below[Definitions!Version(r)], event'[r] = "live"
        PROVE  FALSE
    <3> DEFINE v == Definitions!Version(r)
    <3>1. event[r] = "live" /\ r \notin deleted
      BY <1>2, <2>1
    <3>2. v \notin W
      BY <3>1
    <3>3. v \in Keys /\ v \in Below[v] /\ v \in published
      BY <2>1, RunTypes, KnowledgeAssumption DEF KnowledgeAssumption
    <3>4. proposal[v] # "WITHDRAWN" /\ proposal[k] # "WITHDRAWN"
      BY <2>1, <3>1, <3>3 DEF KnowledgeInv, Definitions!NothingRestsOnWithdrawn
    <3>5. proposal[v] \in InForce
      BY <3>3, <3>4 DEF KnowledgeInv, ReleasesInv
    <3>6. v \in W
      <4> HIDE DEF v
      <4> QED BY <1>3, <1>8, <2>1, <3>3, <3>4, <3>5 DEF v
    <3> QED BY <3>2, <3>6
  <2>2. ASSUME NEW r \in Reanalyses, k \in Below[Mapping], extraction'[r] \notin {"none", "CANCELLED"}
        PROVE  FALSE
    <3>1. r \in Definitions!Runs /\ Mapping \in Keys /\ Mapping \in Below[Mapping]
      BY RunTypes, KnowledgeAssumption DEF KnowledgeAssumption
    <3>2. extraction[r] = extraction'[r] /\ r \notin gone
      BY <1>2, <2>2, <3>1
    <3>3. Mapping \notin W
      BY <2>2, <3>2 DEF Definitions!Resting
    <3>4. Mapping \in published
      BY <2>2, <3>2 DEF KnowledgeInv, ReanalysesInv
    <3>5. proposal[Mapping] # "WITHDRAWN" /\ proposal[k] # "WITHDRAWN"
      BY <2>2, <3>1, <3>2, <3>4 DEF KnowledgeInv, Definitions!NothingRestsOnWithdrawn
    <3>6. proposal[Mapping] \in InForce
      BY <3>4, <3>5 DEF KnowledgeInv, ReleasesInv
    <3> QED BY <1>3, <1>8, <2>2, <3>1, <3>3, <3>5, <3>6
  <2> QED BY <2>1, <2>2
<1>11. Definitions!ContributionIsLive'
  <2>1. contribution' => event'[publication.run] = "live"
    <3> SUFFICES ASSUME contribution' PROVE event'[publication.run] = "live"
      OBVIOUS
    <3>1. contribution /\ deleted = {}
      BY <1>2
    <3>2. publication.run \in Definitions!Runs /\ event[publication.run] = "live"
      BY <3>1 DEF KnowledgeInv, KnowledgeRows, Definitions!ContributionIsLive
    <3>3. event'[publication.run] = event[publication.run]
      BY <1>2, <3>1, <3>2
    <3> QED BY <3>2, <3>3
  <2> QED BY <1>2, <2>1 DEF KnowledgeInv, Definitions!ContributionIsLive
<1> QED BY <1>5, <1>6, <1>7, <1>9, <1>10, <1>11 DEF KnowledgeInv


(* A step that changes no row the invariant is about.                      *)
LEMMA KnowledgeStands ==
  ASSUME KnowledgeInv, UNCHANGED <<proposal, published, extraction, event, publication, seen, contribution>>
  PROVE  KnowledgeInv'
BY DEF KnowledgeInv, KnowledgeRows, ReleasesInv, ReanalysesInv, Definitions!WithdrawalIsTransitive,
       Definitions!NothingRestsOnWithdrawn, Definitions!ContributionIsLive

LEMMA ProposeKeeps ==
  ASSUME KnowledgeInv, NEW k \in Keys, Definitions!Propose(k) PROVE KnowledgeInv'
<1> USE DEF Definitions!Propose, Definitions!measured
<1>1. /\ proposal[k] = "none" /\ DependsOn[k] \subseteq published
      /\ proposal' = [proposal EXCEPT ![k] = "OPEN"]
      /\ UNCHANGED <<published, extraction, seen, event, publication, contribution>>
  OBVIOUS
<1>2. k \notin published
  BY <1>1 DEF KnowledgeInv, ReleasesInv, InForce
<1>3. KnowledgeRows'
  BY <1>1 DEF KnowledgeInv, KnowledgeRows
<1>4. \A j \in Keys : proposal'[j] = IF j = k THEN "OPEN" ELSE proposal[j]
  BY <1>1 DEF KnowledgeInv, KnowledgeRows
<1>5. published \subseteq Keys
  BY DEF KnowledgeInv, KnowledgeRows
<1>6. ReleasesInv'
  BY <1>1, <1>2, <1>4, <1>5 DEF KnowledgeInv, ReleasesInv, InForce
<1>7. Definitions!WithdrawalIsTransitive'
  BY <1>1, <1>4, <1>5 DEF KnowledgeInv, Definitions!WithdrawalIsTransitive
<1>8. Definitions!NothingRestsOnWithdrawn'
  BY <1>1, <1>4, <1>5 DEF KnowledgeInv, Definitions!NothingRestsOnWithdrawn
<1>9. ReanalysesInv' /\ Definitions!ContributionIsLive'
  BY <1>1 DEF KnowledgeInv, ReanalysesInv, Definitions!ContributionIsLive
<1> QED BY <1>3, <1>6, <1>7, <1>8, <1>9 DEF KnowledgeInv

LEMMA ReleasePublishKeeps ==
  ASSUME KnowledgeInv, NEW k \in Keys, Definitions!Publish(k) PROVE KnowledgeInv'
<1> USE DEF Definitions!Publish, Definitions!measured
<1>1. /\ proposal[k] = "OPEN" /\ \A j \in DependsOn[k] : Definitions!Effective(j)
      /\ proposal' = [proposal EXCEPT ![k] = "PUBLISHED"]
      /\ published' = published \cup {k}
      /\ UNCHANGED <<extraction, seen, event, publication, contribution>>
  OBVIOUS
<1>2. KnowledgeRows'
  BY <1>1 DEF KnowledgeInv, KnowledgeRows
<1>3. published \subseteq Keys /\ \A j \in Keys : proposal'[j] = IF j = k THEN "PUBLISHED" ELSE proposal[j]
  BY <1>1 DEF KnowledgeInv, KnowledgeRows
<1>4. ReleasesInv'
  BY <1>1, <1>3 DEF KnowledgeInv, ReleasesInv, InForce
(* Nothing below it is withdrawn.                                          *)
<1>5. \A j \in Below[k] : j \in Keys /\ proposal'[j] = "PUBLISHED"
  <2> SUFFICES ASSUME NEW j \in Below[k] PROVE j \in Keys /\ proposal'[j] = "PUBLISHED"
    OBVIOUS
  <2>1. j \in Keys
    BY KnowledgeAssumption DEF KnowledgeAssumption
  <2>2. ASSUME j # k PROVE proposal[j] = "PUBLISHED"
    <3>1. PICK i \in DependsOn[k] : j \in Below[i]
      BY <2>2, BelowUnfolds
    <3> QED BY <1>1, <3>1 DEF Definitions!Effective
  <2> QED BY <1>3, <2>1, <2>2
<1>6. Definitions!WithdrawalIsTransitive'
  <2> SUFFICES ASSUME NEW j \in published', proposal'[j] = "WITHDRAWN",
                      NEW p \in Keys, proposal'[p] \in InForce, j \in Below[p]
               PROVE  FALSE
    BY DEF Definitions!WithdrawalIsTransitive, InForce
  <2>1. p # k /\ j # k
    BY <1>3, <1>5
  <2>2. j \in published /\ proposal[j] = "WITHDRAWN" /\ proposal[p] \in InForce
    BY <1>1, <1>3, <2>1
  <2> QED BY <2>2 DEF KnowledgeInv, Definitions!WithdrawalIsTransitive, InForce
<1>7. Definitions!NothingRestsOnWithdrawn'
  <2> SUFFICES ASSUME NEW j \in published', proposal'[j] = "WITHDRAWN"
               PROVE  /\ \A r \in Definitions!Runs :
                            Definitions!Version(r) \in published' /\ j \in Below[Definitions!Version(r)]
                              => event[r] # "live"
                      /\ \A r \in Reanalyses : j \in Below[Mapping] => extraction[r] \in {"none", "CANCELLED"}
    BY <1>1 DEF Definitions!NothingRestsOnWithdrawn, Definitions!Version
  <2>1. j # k /\ j \notin Below[k]
    BY <1>1, <1>3, <1>5
  <2>2. j \in published /\ proposal[j] = "WITHDRAWN"
    BY <1>1, <1>3, <2>1
  <2>3. \A r \in Definitions!Runs :
           Definitions!Version(r) \in published' /\ j \in Below[Definitions!Version(r)]
             => Definitions!Version(r) \in published
    BY <1>1, <2>1
  <2> QED BY <2>2, <2>3 DEF KnowledgeInv, Definitions!NothingRestsOnWithdrawn
<1>8. ReanalysesInv' /\ Definitions!ContributionIsLive'
  BY <1>1 DEF KnowledgeInv, ReanalysesInv, Definitions!ContributionIsLive
<1> QED BY <1>2, <1>4, <1>6, <1>7, <1>8 DEF KnowledgeInv

LEMMA RetireKeeps ==
  ASSUME KnowledgeInv, NEW k \in Keys, Definitions!Retire(k) PROVE KnowledgeInv'
<1> USE DEF Definitions!Retire, Definitions!measured
<1>1. /\ proposal[k] = "PUBLISHED" /\ proposal' = [proposal EXCEPT ![k] = "RETIRED"]
      /\ UNCHANGED <<published, extraction, seen, event, publication, contribution>>
  OBVIOUS
<1>2. KnowledgeRows'
  BY <1>1 DEF KnowledgeInv, KnowledgeRows
<1>3. published \subseteq Keys /\ \A j \in Keys : proposal'[j] = IF j = k THEN "RETIRED" ELSE proposal[j]
  BY <1>1 DEF KnowledgeInv, KnowledgeRows
<1>4. ReleasesInv'
  BY <1>1, <1>3 DEF KnowledgeInv, ReleasesInv, InForce
<1>5. \A j \in Keys : proposal'[j] \in InForce <=> proposal[j] \in InForce
  BY <1>1, <1>3 DEF InForce
<1>6. \A j \in Keys : proposal'[j] = "WITHDRAWN" <=> proposal[j] = "WITHDRAWN"
  BY <1>1, <1>3
<1>7. Definitions!WithdrawalIsTransitive'
  BY <1>1, <1>3, <1>5, <1>6 DEF KnowledgeInv, Definitions!WithdrawalIsTransitive, InForce
<1>8. Definitions!NothingRestsOnWithdrawn'
  BY <1>1, <1>3, <1>6 DEF KnowledgeInv, Definitions!NothingRestsOnWithdrawn
<1>9. ReanalysesInv' /\ Definitions!ContributionIsLive'
  BY <1>1 DEF KnowledgeInv, ReanalysesInv, Definitions!ContributionIsLive
<1> QED BY <1>2, <1>4, <1>7, <1>8, <1>9 DEF KnowledgeInv

LEMMA EndsOfReleasesKeep ==
  ASSUME KnowledgeInv,
         \/ \E k \in Keys : Definitions!Withdraw(k)
         \/ \E a \in Assets : Definitions!DeleteAsset(a)
         \/ \E p \in Panel : Definitions!Leave(p)
  PROVE  KnowledgeInv'
<1>1. ASSUME NEW k \in Keys, Definitions!Withdraw(k) PROVE KnowledgeInv'
  <2>1. Definitions!Revoke({k}, {}, {}) /\ proposal[k] # "none"
    BY <1>1 DEF Definitions!Withdraw
  <2>2. {k} \in SUBSET Keys /\ \A j \in {k} : proposal[j] # "none"
    BY <2>1
  <2> QED BY <2>1, <2>2, RevokeKeeps
<1>2. ASSUME NEW a \in Assets, Definitions!DeleteAsset(a) PROVE KnowledgeInv'
  <2> DEFINE S == {k \in Keys : a \in Sources[k] /\ proposal[k] \notin {"none", "WITHDRAWN"}}
             own == IF a = Gameplay THEN {r \in Definitions!Runs : extraction[r] # "none"} ELSE {}
  <2>1. Definitions!Revoke(S, own, own)
    BY <1>2 DEF Definitions!DeleteAsset
  <2>2. S \in SUBSET Keys /\ \A j \in S : proposal[j] # "none"
    OBVIOUS
  <2> HIDE DEF S, own
  <2> QED BY <2>1, <2>2, RevokeKeeps
<1>3. ASSUME NEW p \in Panel, Definitions!Leave(p) PROVE KnowledgeInv'
  <2> DEFINE S == {k \in Keys : proposal[k] # "none"}
             own == IF p = Author THEN {r \in Reanalyses : extraction[r] = "QUEUED"} ELSE {}
  <2>1. Definitions!Revoke(S, own, {})
    BY <1>3 DEF Definitions!Leave
  <2>2. S \in SUBSET Keys /\ \A j \in S : proposal[j] # "none"
    OBVIOUS
  <2> HIDE DEF S, own
  <2> QED BY <2>1, <2>2, RevokeKeeps
<1> QED BY <1>1, <1>2, <1>3

LEMMA ReanalyseKeeps ==
  ASSUME KnowledgeInv, NEW r \in Reanalyses, Definitions!Reanalyse(r) PROVE KnowledgeInv'
<1> USE DEF Definitions!Reanalyse, Definitions!releases
<1>1. /\ extraction[r] = "none" /\ Definitions!Candidate
      /\ extraction' = [extraction EXCEPT ![r] = "QUEUED"]
      /\ seen' = [seen EXCEPT ![r] = publication]
      /\ UNCHANGED <<proposal, published, event, publication, contribution>>
  OBVIOUS
<1>2. r \in Definitions!Runs
  BY RunTypes
<1>3. KnowledgeRows'
  <2>1. seen' \in [Reanalyses -> [revision : Nat, run : Definitions!Runs]]
    BY <1>1 DEF KnowledgeInv, KnowledgeRows
  <2>2. extraction' \in [Definitions!Runs -> {"none", "QUEUED", "REVIEW_REQUIRED", "CANCELLED"}]
    BY <1>1, <1>2 DEF KnowledgeInv, KnowledgeRows
  <2> QED BY <1>1, <2>1, <2>2 DEF KnowledgeInv, KnowledgeRows
<1>4. \A q \in Definitions!Runs : extraction'[q] = IF q = r THEN "QUEUED" ELSE extraction[q]
  BY <1>1, <1>2 DEF KnowledgeInv, KnowledgeRows
<1>5. \A j \in Below[Mapping] : proposal[j] = "PUBLISHED"
  BY <1>1 DEF Definitions!Candidate, Definitions!Effective
<1>6. Mapping \in Keys /\ Mapping \in Below[Mapping]
  BY KnowledgeAssumption DEF KnowledgeAssumption
<1>7. Mapping \in published
  BY <1>5, <1>6 DEF KnowledgeInv, ReleasesInv, InForce
<1>8. publication.run # r
  BY <1>1, RunTypes DEF KnowledgeInv, ReanalysesInv
<1>9. ReanalysesInv'
  <2>1. publication.run \in Definitions!Runs
    BY DEF KnowledgeInv, KnowledgeRows
  <2> QED BY <1>1, <1>4, <1>7, <2>1, RunTypes DEF KnowledgeInv, ReanalysesInv
<1>10. Definitions!NothingRestsOnWithdrawn'
  <2>1. \A k \in published : proposal[k] = "WITHDRAWN" => k \notin Below[Mapping]
    BY <1>5
  <2> QED BY <1>1, <1>4, <2>1, RunTypes DEF KnowledgeInv, Definitions!NothingRestsOnWithdrawn
<1>11. Definitions!ContributionIsLive'
  <2>1. publication.run # Definitions!First => seen'[publication.run] = seen[publication.run]
    BY <1>1, <1>8, RunTypes DEF KnowledgeInv, KnowledgeRows
  <2> QED BY <1>1, <2>1 DEF KnowledgeInv, Definitions!ContributionIsLive
<1>12. ReleasesInv' /\ Definitions!WithdrawalIsTransitive'
  BY <1>1 DEF KnowledgeInv, ReleasesInv, Definitions!WithdrawalIsTransitive
<1> QED BY <1>3, <1>9, <1>10, <1>11, <1>12 DEF KnowledgeInv

LEMMA ProcessKeeps ==
  ASSUME KnowledgeInv, NEW r \in Reanalyses, Definitions!Process(r) PROVE KnowledgeInv'
<1> USE DEF Definitions!Process, Definitions!releases
<1>1. /\ extraction[r] = "QUEUED" /\ extraction' = [extraction EXCEPT ![r] = "REVIEW_REQUIRED"]
      /\ UNCHANGED <<proposal, published, seen, event, publication, contribution>>
  OBVIOUS
<1>2. KnowledgeRows'
  BY <1>1, RunTypes DEF KnowledgeInv, KnowledgeRows
<1>3. \A q \in Definitions!Runs : extraction'[q] = IF q = r THEN "REVIEW_REQUIRED" ELSE extraction[q]
  BY <1>1, RunTypes DEF KnowledgeInv, KnowledgeRows
<1>4. \A q \in Definitions!Runs : /\ extraction'[q] = "none" <=> extraction[q] = "none"
                                  /\ extraction'[q] = "CANCELLED" <=> extraction[q] = "CANCELLED"
  BY <1>1, <1>3
<1>5. publication.run \in Definitions!Runs /\ Reanalyses \subseteq Definitions!Runs
  BY RunTypes DEF KnowledgeInv, KnowledgeRows
<1>6. ReanalysesInv'
  BY <1>1, <1>4, <1>5 DEF KnowledgeInv, ReanalysesInv
<1>7. Definitions!NothingRestsOnWithdrawn'
  BY <1>1, <1>4, <1>5 DEF KnowledgeInv, Definitions!NothingRestsOnWithdrawn
<1>8. ReleasesInv' /\ Definitions!WithdrawalIsTransitive' /\ Definitions!ContributionIsLive'
  BY <1>1 DEF KnowledgeInv, ReleasesInv, Definitions!WithdrawalIsTransitive, Definitions!ContributionIsLive
<1> QED BY <1>2, <1>6, <1>7, <1>8 DEF KnowledgeInv

LEMMA PublishFactsKeeps ==
  ASSUME KnowledgeInv, NEW r \in Definitions!Runs, Definitions!PublishFacts(r) PROVE KnowledgeInv'
<1> USE DEF Definitions!PublishFacts, Definitions!releases
<1>1. /\ extraction[r] = "REVIEW_REQUIRED" /\ Definitions!Measurable(r)
      /\ event' = [event EXCEPT ![r] = "live"]
      /\ publication' = [revision |-> publication.revision + 1, run |-> r]
      /\ contribution' = TRUE
      /\ UNCHANGED <<proposal, published, extraction, seen>>
  OBVIOUS
<1>2. KnowledgeRows'
  <2>1. publication.revision \in Nat
    BY DEF KnowledgeInv, KnowledgeRows
  <2>2. publication' \in [revision : Nat, run : Definitions!Runs]
    BY <1>1, <2>1
  <2>3. event' \in [Definitions!Runs -> {"none", "live", "deleted"}]
    BY <1>1 DEF KnowledgeInv, KnowledgeRows
  <2> QED BY <1>1, <2>2, <2>3 DEF KnowledgeInv, KnowledgeRows
<1>3. \A q \in Definitions!Runs : event'[q] = IF q = r THEN "live" ELSE event[q]
  BY <1>1 DEF KnowledgeInv, KnowledgeRows
<1>4. ReanalysesInv'
  BY <1>1 DEF KnowledgeInv, ReanalysesInv
<1>5. Definitions!NothingRestsOnWithdrawn'
  <2>1. Definitions!Version(r) \in published => \A k \in Below[Definitions!Version(r)] : proposal[k] = "PUBLISHED"
    BY <1>1 DEF Definitions!Measurable, Definitions!Effective
  <2> SUFFICES ASSUME NEW k \in published, proposal[k] = "WITHDRAWN"
               PROVE  /\ \A q \in Definitions!Runs :
                            Definitions!Version(q) \in published /\ k \in Below[Definitions!Version(q)]
                              => event'[q] # "live"
                      /\ \A q \in Reanalyses : k \in Below[Mapping] => extraction[q] \in {"none", "CANCELLED"}
    BY <1>1 DEF Definitions!NothingRestsOnWithdrawn, Definitions!Version
  <2> QED BY <1>3, <2>1 DEF KnowledgeInv, Definitions!NothingRestsOnWithdrawn
<1>6. Definitions!ContributionIsLive'
  <2>1. r # Definitions!First => seen[r] = publication
    BY <1>1 DEF Definitions!Measurable
  <2>2. r # Definitions!First => seen[r].revision + 1 = publication.revision + 1
    BY <2>1
  <2>3. publication'.run = r /\ publication'.revision = publication.revision + 1
    BY <1>1
  <2> QED BY <1>1, <1>3, <2>2, <2>3 DEF Definitions!ContributionIsLive
<1>7. ReleasesInv' /\ Definitions!WithdrawalIsTransitive'
  BY <1>1 DEF KnowledgeInv, ReleasesInv, Definitions!WithdrawalIsTransitive
<1> QED BY <1>2, <1>4, <1>5, <1>6, <1>7 DEF KnowledgeInv

LEMMA KnowledgeStep == KnowledgeInv /\ [Definitions!Next]_(Definitions!vars) => KnowledgeInv'
<1> SUFFICES ASSUME KnowledgeInv, [Definitions!Next]_(Definitions!vars) PROVE KnowledgeInv'
  OBVIOUS
<1>1. CASE UNCHANGED Definitions!vars
  <2>1. UNCHANGED <<proposal, published, extraction, event, publication, seen, contribution>>
    BY <1>1 DEF Definitions!vars
  <2> QED BY <2>1, KnowledgeStands
<1>2. ASSUME NEW k \in Keys, Definitions!Propose(k) \/ Definitions!Publish(k) \/ Definitions!Retire(k)
      PROVE  KnowledgeInv'
  BY <1>2, ProposeKeeps, ReleasePublishKeeps, RetireKeeps
<1>3. ASSUME \/ \E k \in Keys : Definitions!Withdraw(k)
             \/ \E a \in Assets : Definitions!DeleteAsset(a)
             \/ \E p \in Panel : Definitions!Leave(p)
      PROVE  KnowledgeInv'
  BY <1>3, EndsOfReleasesKeep
<1>4. ASSUME \/ \E k \in Keys, p \in Definitions!Reviewers, decision \in {"APPROVE", "REJECT"} :
                   Definitions!Review(k, p, decision)
             \/ \E a \in Assets : Definitions!Expire(a)
             \/ \E p \in Panel : Definitions!Disable(p) \/ Definitions!Enable(p)
      PROVE  KnowledgeInv'
  <2>1. UNCHANGED <<proposal, published, extraction, event, publication, seen, contribution>>
    BY <1>4 DEF Definitions!Review, Definitions!Expire, Definitions!Disable, Definitions!Enable,
                Definitions!releases, Definitions!measured
  <2> QED BY <2>1, KnowledgeStands
<1>5. ASSUME NEW r \in Reanalyses, Definitions!Reanalyse(r) \/ Definitions!Process(r) PROVE KnowledgeInv'
  BY <1>5, ReanalyseKeeps, ProcessKeeps
<1>6. ASSUME NEW r \in Definitions!Runs, Definitions!PublishFacts(r) PROVE KnowledgeInv'
  BY <1>6, PublishFactsKeeps
<1>7. CASE Definitions!Next
  BY <1>2, <1>3, <1>4, <1>5, <1>6, <1>7 DEF Definitions!Next
<1> QED BY <1>1, <1>7

(* What is in force rests on releases in force, what is measured on what   *)
(* was not withdrawn, and a contribution on the publication in force, after *)
(* every call of knowledge.py and every publication of facts.              *)
THEOREM KnowledgeInvHolds == Definitions!Spec => []KnowledgeInv
<1> QED BY KnowledgeInit, KnowledgeStep, PTL DEF Definitions!Spec

(* A release in force rests on no release that was withdrawn, nothing that *)
(* a withdrawn release measured is counted, and a contribution is that of  *)
(* the publication in force (revoke and publication_measurement in         *)
(* knowledge.py).                                                          *)
THEOREM KnowledgeSoundHolds ==
  Definitions!Spec => []Definitions!KnowledgeSound /\ []KnowledgeSound
<1>1. KnowledgeInv => Definitions!KnowledgeSound
  BY DEF KnowledgeInv, KnowledgeRows, Definitions!TypeOK, Definitions!KnowledgeSound
<1>2. Definitions!KnowledgeSound => KnowledgeSound
  BY DEF KnowledgeSound
<1> QED BY KnowledgeInvHolds, <1>1, <1>2, PTL
=============================================================================
