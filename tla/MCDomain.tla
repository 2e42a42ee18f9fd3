------------------------------ MODULE MCDomain ------------------------------
(***************************************************************************)
(* Accounts, devices, match history, practice, knowledge, studies,         *)
(* detectors and admissions, on small instances.  As in MCPreviews one run *)
(* explores one of them at a time: focus names the one that moves, the     *)
(* others have no state.  Some are explored with several values of their   *)
(* constants, each a focus of its own.                                     *)
(***************************************************************************)
EXTENDS Domain, Sequences, TLC

CONSTANT Focus          \* the components to explore

vars == <<focus, accountVars, companionVars, matchVars, practiceVars, knowledgeVars, studyVars,
          detectorVars, admissionVars>>

(* Bound: a computer that is alone may fail as often as it likes, and its  *)
(* file may change; of two, one fails once.                                *)
DevicesBounded ==
    \/ \A d \in Devices \ Troubled : device[d] = "new"
    \/ \E d \in Devices : /\ engine[d].failures <= 1
                          /\ \A x \in Devices \ {d} : engine[x].failures = 0
                          /\ \A x \in Devices : engine[x].intact

(* Bound: a player who is linked again has no match corrected and none     *)
(* analysed twice.                                                         *)
HistoryBounded ==
    \/ identity.links < 2
    \/ \A p \in DOMAIN upstream : upstream[p] = 1 /\ Len(analyses[p].runs) <= 1

(* Bound: two assignments compete for the practice of one recording, which *)
(* is analysed again and troubled; a session is reported and corrected; or *)
(* a retention report follows, with its follow-up analysed again and       *)
(* troubled.                                                               *)
Absent(S) == \A c \in S : capture[c].state = "none"
Once(S) == \A c \in S : capture[c].run <= 1
Untroubled(S) == \A c \in S : /\ capture[c].state \in {"none", "recorded", "published"}
                             /\ ~capture[c].corrected
OneAssignment == \A a \in Assignments \ Planned : assignment[a] = "none"
NoSession == \A a \in Assignments, phase \in Practice!Phases : entry[a][phase].revision = 0
PracticeBounded ==
    /\ focus = "practice" =>
           Absent(Retained) /\ Once(FollowUp) /\ Untroubled(FollowUp) /\ NoSession
    /\ focus = "reported" =>
           Absent(Practised \cup Retained) /\ Once(FollowUp) /\ OneAssignment
    /\ focus = "retention" =>
           Once(Practised) /\ Untroubled(Practised) /\ OneAssignment /\ NoSession

(* A new version of a definition comes with a mapping from the old one,    *)
(* and both rest on other definitions.                                     *)
Dependencies == [base |-> {}, old |-> {}, new |-> {"base"}, map |-> {"old", "new"}]
Rests == [base |-> {"base"}, old |-> {"old"}, new |-> {"base", "new"},
          map |-> {"map", "old", "new", "base"}]
Evidence == [base |-> {"x"}, old |-> {"v"}, new |-> {"v"}, map |-> {"x"}]

(* A recording in a study of the dataset and in one outside it, or in two  *)
(* studies of the dataset.                                                 *)
ExpiryOf == <<1, 2>>

(* Two versions with a reviewer in common, who may be disabled for a       *)
(* while; the manager or the other reviewer of one may leave.              *)
TwoReviewers == <<{"r", "s"}, {"r", "t"}>>

(* The uploads are of two owners.                                          *)
TwoOwners == <<"o", "p">>

Init ==
    /\ focus \in Focus
    /\ IF focus = "accounts" THEN AccountOf!Init
       ELSE /\ account = 0 /\ links = 0 /\ mailbox = 0 /\ issued = 0 /\ mails = 0
            /\ registering = 0 /\ asking = 0 /\ browser = 0 /\ cut = 0 /\ wanted = 0
            /\ servedCut = 0
    /\ IF focus = "devices" THEN Device!Init
       ELSE /\ consent = 0 /\ code = 0 /\ device = 0 /\ receipt = 0 /\ deviceSession = 0
            /\ manual = 0 /\ engine = 0 /\ calls = 0
    /\ IF focus = "history" THEN History!Init
       ELSE /\ processing = 0 /\ identity = 0 /\ upstream = 0 /\ sync = 0 /\ fetcher = 0
            /\ match = 0 /\ suppressed = 0 /\ recording = 0 /\ attaching = 0 /\ analyses = 0
    /\ IF focus \in PracticeFoci THEN Practice!Init
       ELSE /\ capture = 0 /\ drill = 0 /\ assignment = 0 /\ plan = 0 /\ linked = 0
            /\ entry = 0 /\ reports = 0
    /\ IF focus = "definitions" THEN Definitions!Init
       ELSE /\ proposal = 0 /\ published = 0 /\ reviews = 0 /\ person = 0 /\ source = 0
            /\ extraction = 0 /\ seen = 0 /\ event = 0 /\ publication = 0 /\ contribution = 0
    /\ IF focus = "studies" THEN Study!Init
       ELSE /\ feeding = 0 /\ now = 0 /\ measurement = 0 /\ study = 0 /\ member = 0 /\ split = 0
            /\ session = 0 /\ registered = 0 /\ original = 0 /\ label = 0 /\ report = 0
            /\ kept = 0 /\ dataset = 0 /\ partition = 0 /\ snapshot = 0 /\ imported = 0
    /\ IF focus = "detectors" THEN Detector!Init
       ELSE /\ staff = 0 /\ grant = 0 /\ inputs = 0 /\ sealed = 0 /\ version = 0
            /\ receipts = 0
    /\ IF focus = "places" THEN Places!Init
       ELSE /\ day = 0 /\ admission = 0 /\ stored = 0 /\ bytes = 0 /\ analysis = 0
            /\ budget = 0

AccountMoves ==
    /\ focus = "accounts" /\ AccountOf!Next
    /\ UNCHANGED <<focus, companionVars, matchVars, practiceVars, knowledgeVars, studyVars,
                   detectorVars, admissionVars>>
DeviceMoves ==
    /\ focus = "devices" /\ Device!Next /\ DevicesBounded'
    /\ UNCHANGED <<focus, accountVars, matchVars, practiceVars, knowledgeVars, studyVars,
                   detectorVars, admissionVars>>
HistoryMoves ==
    /\ focus = "history" /\ History!Next /\ HistoryBounded'
    /\ UNCHANGED <<focus, accountVars, companionVars, practiceVars, knowledgeVars, studyVars,
                   detectorVars, admissionVars>>
PracticeMoves ==
    /\ focus \in PracticeFoci /\ Practice!Next
    /\ UNCHANGED <<focus, accountVars, companionVars, matchVars, knowledgeVars, studyVars,
                   detectorVars, admissionVars>>
    /\ PracticeBounded'
DefinitionMoves ==
    /\ focus = "definitions" /\ Definitions!Next
    /\ UNCHANGED <<focus, accountVars, companionVars, matchVars, practiceVars, studyVars,
                   detectorVars, admissionVars>>
StudyMoves ==
    /\ focus = "studies" /\ Study!Next
    /\ UNCHANGED <<focus, accountVars, companionVars, matchVars, practiceVars, knowledgeVars,
                   detectorVars, admissionVars>>
DetectorMoves ==
    /\ focus = "detectors" /\ Detector!Next
    /\ UNCHANGED <<focus, accountVars, companionVars, matchVars, practiceVars, knowledgeVars,
                   studyVars, admissionVars>>
PlaceMoves ==
    /\ focus = "places" /\ Places!Next
    /\ UNCHANGED <<focus, accountVars, companionVars, matchVars, practiceVars, knowledgeVars,
                   studyVars, detectorVars>>

Next == \/ AccountMoves \/ DeviceMoves \/ HistoryMoves \/ PracticeMoves \/ DefinitionMoves
        \/ StudyMoves \/ DetectorMoves \/ PlaceMoves
Spec == Init /\ [][Next]_vars

Symmetry == Permutations(Workers) \cup Permutations(Inputs)
=============================================================================
