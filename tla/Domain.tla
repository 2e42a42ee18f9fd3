------------------------------- MODULE Domain -------------------------------
(***************************************************************************)
(* The components of the product domain, for any values of their           *)
(* constants: DomainProofs and ResearchProofs reason about them, MCDomain  *)
(* explores them with small ones.  They share no state, so one of them     *)
(* moves at a time: focus names it, the others may have no state at all.   *)
(***************************************************************************)
EXTENDS Naturals, FiniteSets

CONSTANTS Browsers, Addresses, FirstAddress, MaxPassword,  \* of Accounts
          MaxEpoch, MaxMails,
          Devices, Troubled, Chunks, MaxFailures,          \* of Companion
          Workers, LastPage, Recorded, MaxVersion,         \* of MatchHistory
          MaxAttempts, MaxFence, MaxLinks, MaxRuns,
          Baseline, Practised, FollowUp, Retained,         \* of PracticeLoop
          Assignments, Planned, Reprocessed, TroubledCaptures, MaxReports, MaxEntries,
          Studies, Linkings, Expiry, Original, Reviewed, MaxTime, \* of Studies
          Versions, Manager, ReviewersOf, Leaving, Suspended,     \* of Detectors
          Inputs, MaxReceipts,
          Keys, DependsOn, Below, Mapping, From, To,              \* of Knowledge
          Assets, Sources, Gameplay, Panel, Author, Debated, Resigning, Disabled, Reanalyses,
          Uploads, OwnerOf, MaxUpload, OwnerStorage, GlobalStorage, \* of Admissions
          UploadSlots, OwnerPending, GlobalPending, AttemptSeconds, Tries,
          OwnerSeconds, GlobalSeconds, Overrun, MaxDay

ASSUME AccountsAssumption ==
    /\ FirstAddress \in Addresses
    /\ MaxPassword \in Nat \ {0}
    /\ MaxEpoch \in Nat /\ MaxMails \in Nat

ASSUME CompanionAssumption ==
    /\ "nobody" \notin Devices
    /\ Troubled \subseteq Devices
    /\ Chunks \in Nat \ {0}
    /\ MaxFailures \in Nat \ {0}

ASSUME HistoryAssumption ==
    /\ LastPage \in Nat \ {0}
    /\ Recorded \subseteq 1..LastPage

ASSUME PracticeAssumption ==
    /\ IsFiniteSet(FollowUp) /\ IsFiniteSet(Retained)
    /\ Planned \subseteq Assignments

ASSUME StudiesAssumption ==
    /\ IsFiniteSet(Studies) /\ Linkings \subseteq SUBSET Studies
    /\ Original \in Nat /\ Expiry \in [Studies -> Nat]

ASSUME DetectorsAssumption == MaxReceipts \in Nat

(* Below is what can be reached through DependsOn.                         *)
ASSUME KnowledgeAssumption ==
    /\ IsFiniteSet(Keys) /\ {Mapping, From, To} \subseteq Keys
    /\ DependsOn \in [Keys -> SUBSET Keys] /\ Below \in [Keys -> SUBSET Keys]
    /\ \A k \in Keys : /\ k \in Below[k]
                       /\ \A j \in Below[k] : DependsOn[j] \subseteq Below[k]
                       /\ \A S \in SUBSET Keys :
                              k \in S /\ (\A j \in S : DependsOn[j] \subseteq S) => Below[k] \subseteq S
    /\ Reanalyses \subseteq Nat \ {0}

ASSUME AdmissionsAssumption ==
    /\ IsFiniteSet(Uploads)
    /\ {MaxUpload, OwnerStorage, GlobalStorage, OwnerPending, GlobalPending, AttemptSeconds,
        Tries, OwnerSeconds, GlobalSeconds, Overrun} \subseteq Nat

VARIABLES focus,
          account, links, mailbox, issued, mails, registering, asking, browser, cut, wanted,
          servedCut,
          consent, code, device, receipt, deviceSession, manual, engine, calls,
          processing, identity, upstream, sync, fetcher, match, suppressed, recording,
          attaching, analyses,
          capture, drill, assignment, plan, linked, entry, reports,
          feeding, now, measurement, study, member, split, session, registered, original, label,
          report, kept, dataset, partition, snapshot, imported,
          staff, grant, inputs, sealed, version, receipts,
          proposal, published, reviews, person, source, extraction, seen, event, publication,
          contribution,
          day, admission, stored, bytes, analysis, budget

accountVars == <<account, links, mailbox, issued, mails, registering, asking, browser, cut,
                 wanted, servedCut>>
companionVars == <<consent, code, device, receipt, deviceSession, manual, engine, calls>>
matchVars == <<processing, identity, upstream, sync, fetcher, match, suppressed, recording,
               attaching, analyses>>
practiceVars == <<capture, drill, assignment, plan, linked, entry, reports>>
studyVars == <<feeding, now, measurement, study, member, split, session, registered, original,
               label, report, kept, dataset, partition, snapshot, imported>>
detectorVars == <<staff, grant, inputs, sealed, version, receipts>>
knowledgeVars == <<proposal, published, reviews, person, source, extraction, seen, event,
                   publication, contribution>>
admissionVars == <<day, admission, stored, bytes, analysis, budget>>

AccountOf == INSTANCE Accounts WITH First <- FirstAddress, MaxLinks <- MaxMails
Device == INSTANCE Companion WITH session <- deviceSession
History == INSTANCE MatchHistory
Practice == INSTANCE PracticeLoop WITH Troubled <- TroubledCaptures
Study == INSTANCE Studies WITH linked <- feeding, capture <- registered, asset <- kept
Detector == INSTANCE Detectors WITH MaxRuns <- MaxReceipts, person <- staff
Definitions ==
    INSTANCE Knowledge WITH People <- Panel, Leaving <- Resigning, Requests <- Reanalyses,
        Capture <- Gameplay, asset <- source, run <- extraction
Places ==
    INSTANCE Admissions WITH Requests <- Uploads, Owner <- OwnerOf, Attempt <- AttemptSeconds,
        MaxAttempts <- Tries, asset <- stored, run <- analysis

(* See AccountsSound, AccountChangesAreProved, CompanionSound,             *)
(* RemovedStaysRemoved, MatchesSound, ImportsAreAuthorized, PracticeSound, *)
(* ReportsSound, StudiesSound with DetectorsSound, RetentionReturns,       *)
(* KnowledgeSound and AdmissionsSound in the modules.                      *)
AccountsSound == focus = "accounts" => AccountOf!AccountsSound
AccountChangesAreProved == [][focus = "accounts" => AccountOf!ProvedChange]_accountVars
CompanionSound == focus = "devices" => Device!CompanionSound
RemovedStaysRemoved == [][focus = "devices" => Device!NothingRestored]_companionVars
MatchesSound == focus = "history" => History!MatchesSound
ImportsAreAuthorized == [][focus = "history" => History!AuthorizedImport]_matchVars
PracticeFoci == {"practice", "reported", "retention"}
PracticeSound == focus \in PracticeFoci => Practice!PracticeSound
ReportsSound == focus \in PracticeFoci => Practice!ReportsSound
StudiesSound ==
    /\ focus = "studies" => Study!StudiesSound
    /\ focus = "detectors" => Detector!DetectorsSound
RetentionReturns == focus = "studies" => Study!RetentionReturns
KnowledgeSound == focus = "definitions" => Definitions!KnowledgeSound
AdmissionsSound == focus = "places" => Places!AdmissionsSound
=============================================================================
