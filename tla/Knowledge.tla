------------------------------ MODULE Knowledge ------------------------------
(***************************************************************************)
(* The release of reviewed game knowledge (backend/core/knowledge.py): an  *)
(* author proposes versioned definitions on recorded sources, two assigned *)
(* operators review them, and a published release carries measured facts   *)
(* and reanalyses.  A release may be retired, and is withdrawn with all    *)
(* that depends on it by its author, with a source, or with any of the     *)
(* three accounts.  Every operation is one transaction under the capacity  *)
(* lock; what can go wrong lies in their sequence.                         *)
(***************************************************************************)
EXTENDS Naturals, FiniteSets

CONSTANTS Keys,         \* the versions that may be proposed, one proposal each
          DependsOn,    \* the versions each one names ...
          Below,        \* ... and those it rests on through them, itself included
          Mapping,      \* the compatibility among them that asks for a reanalysis ...
          From, To,     \* ... of what was measured by From, by To
          Assets,       \* the recordings
          Sources,      \* those each proposal rests on
          Capture,      \* the recording that is measured
          People,       \* the author and the two reviewers
          Author,
          Debated,      \* bound: the versions that a reviewer may reject
          Leaving,      \* bound: the accounts that end, or withdraw consent ...
          Disabled,     \* bound: ... and those that are disabled for a while
          Requests      \* bound: reanalyses that are asked for, in this order

VARIABLES proposal,     \* KnowledgeProposal.state, or "none"
          published,    \* the keys with a DefinitionVersion
          reviews,      \* KnowledgeReview of each reviewer, immutable
          person,       \* "live", "inactive", or "left"
          asset,        \* "kept", "expired" or "deleted"
          run,          \* AnalysisRun: the first analysis and the reanalyses
          seen,         \* KnowledgeReanalysis.snapshot: the publication it saw
          event,        \* GameplayEvent of each run
          publication,  \* AnalysisPublication: revision and run
          contribution  \* whether the match has a MatchContribution

vars == <<proposal, published, reviews, person, asset, run, seen, event, publication,
          contribution>>
releases == <<proposal, published, reviews>>
measured == <<run, seen, event, publication, contribution>>

Reviewers == People \ {Author}
First == 0                      \* the analysis that came with the recording
Runs == {First} \cup Requests
Version(r) == IF r = First THEN From ELSE To

Init ==
    /\ proposal = [k \in Keys |-> "none"]
    /\ published = {}
    /\ reviews = [k \in Keys |-> [p \in Reviewers |-> "none"]]
    /\ person = [p \in People |-> "live"]
    /\ asset = [a \in Assets |-> "kept"]
    /\ run = [r \in Runs |-> IF r = First THEN "REVIEW_REQUIRED" ELSE "none"]
    /\ seen = [r \in Requests |-> [revision |-> 0, run |-> First]]
    /\ event = [r \in Runs |-> "none"]
    /\ publication = [revision |-> 0, run |-> First]
    /\ contribution = FALSE

-----------------------------------------------------------------------------
(* What a release stands on now.                                           *)

Intact(k) ==
    /\ proposal[k] \in {"OPEN", "PUBLISHED", "RETIRED"}
    /\ \A p \in People : person[p] = "live"
    /\ \A a \in Sources[k] : asset[a] = "kept"

Effective(k) == \A j \in Below[k] : proposal[j] = "PUBLISHED" /\ Intact(j)

-----------------------------------------------------------------------------
(* Proposal, independent review, publication.  What is repeated with its   *)
(* request id finds the row it made.                                       *)

Live(p) == person[p] = "live"

Propose(k) ==
    /\ proposal[k] = "none" /\ \A p \in People : Live(p)
    /\ DependsOn[k] \subseteq published
    /\ \A a \in Sources[k] : asset[a] = "kept"
    /\ proposal' = [proposal EXCEPT ![k] = "OPEN"]
    /\ UNCHANGED <<published, reviews, person, asset, measured>>

Review(k, p, decision) ==
    /\ proposal[k] = "OPEN" /\ Intact(k) /\ reviews[k][p] = "none"
    /\ decision = "REJECT" => k \in Debated
    /\ reviews' = [reviews EXCEPT ![k][p] = decision]
    /\ UNCHANGED <<proposal, published, person, asset, measured>>

Publish(k) ==
    /\ proposal[k] = "OPEN" /\ Intact(k)
    /\ \A p \in Reviewers : reviews[k][p] = "APPROVE"
    /\ \A j \in DependsOn[k] : Effective(j)
    /\ proposal' = [proposal EXCEPT ![k] = "PUBLISHED"]
    /\ published' = published \cup {k}
    /\ UNCHANGED <<reviews, person, asset, measured>>

-----------------------------------------------------------------------------
(* The end of a release.                                                   *)

PublishedDependentsFault(keys) ==
    {p \in Keys : proposal[p] = "PUBLISHED" /\ DependsOn[p] \cap keys # {}}

Dependents(keys) ==
    {p \in Keys : proposal[p] \in {"PUBLISHED", "RETIRED"} /\ DependsOn[p] \cap keys # {}}

(* The published ones among S with everything that rests on them: round by *)
(* round, until there are no more.                                         *)
WithDependents(keys) == keys \cup Dependents(keys)

Withdrawn(S) ==
    LET reached[n \in 0..Cardinality(Keys)] ==
            IF n = 0 THEN S \cap published ELSE WithDependents(reached[n - 1])
    IN  reached[Cardinality(Keys)]

(* Reanalyses that rest on one of keys.                                    *)
Resting(keys) == IF keys \cap {Mapping, To} = {} THEN {} ELSE {r \in Requests : run[r] # "none"}

(* revoke of every proposal of S; stopped and erased are the runs and the  *)
(* facts that the same transaction ends for another reason.                *)
Revoke(S, stopped, erased) ==
    LET keys == Withdrawn(S)
        deleted == {r \in Runs : event[r] = "live" /\ (Version(r) \in keys \/ r \in erased)}
    IN  /\ proposal' = [k \in Keys |-> IF k \in S \cup keys THEN "WITHDRAWN" ELSE proposal[k]]
        /\ event' = [r \in Runs |-> IF r \in deleted THEN "deleted" ELSE event[r]]
        /\ contribution' = (contribution /\ deleted = {})
        /\ run' = [r \in Runs |-> IF r \in Resting(keys) \cup stopped THEN "CANCELLED" ELSE run[r]]
        /\ UNCHANGED <<published, reviews, seen, publication>>

Retire(k) ==
    /\ Live(Author) /\ proposal[k] = "PUBLISHED"
    /\ proposal' = [proposal EXCEPT ![k] = "RETIRED"]
    /\ UNCHANGED <<published, reviews, person, asset, measured>>

Withdraw(k) ==
    /\ Live(Author) /\ proposal[k] \notin {"none", "WITHDRAWN"}
    /\ Revoke({k}, {}, {})
    /\ UNCHANGED <<person, asset>>

(* A source's retention ends: it is no evidence any more, before the purge *)
(* comes to it.                                                            *)
Expire(a) ==
    /\ asset[a] = "kept"
    /\ asset' = [asset EXCEPT ![a] = "expired"]
    /\ UNCHANGED <<releases, person, measured>>

(* delete_asset and invalidate_asset; of the capture, all its analyses.    *)
DeleteAsset(a) ==
    /\ asset[a] # "deleted"
    /\ asset' = [asset EXCEPT ![a] = "deleted"]
    /\ LET own == IF a = Capture THEN {r \in Runs : run[r] # "none"} ELSE {}
       IN  Revoke({k \in Keys : a \in Sources[k] /\ proposal[k] \notin {"none", "WITHDRAWN"}},
                  own, own)
    /\ UNCHANGED person

(* erase_account, by deletion or by withdrawal of the processing consent,  *)
(* which cancels the author's runs that are pending.                       *)
Leave(p) ==
    /\ p \in Leaving /\ person[p] # "left"
    /\ person' = [person EXCEPT ![p] = "left"]
    /\ Revoke({k \in Keys : proposal[k] # "none"},
              IF p = Author THEN {r \in Requests : run[r] = "QUEUED"} ELSE {}, {})
    /\ UNCHANGED asset

(* An account is disabled, and enabled again: nothing is withdrawn.        *)
Disable(p) ==
    /\ p \in Disabled /\ person[p] = "live"
    /\ person' = [person EXCEPT ![p] = "inactive"]
    /\ UNCHANGED <<releases, asset, measured>>
Enable(p) ==
    /\ person[p] = "inactive"
    /\ person' = [person EXCEPT ![p] = "live"]
    /\ UNCHANGED <<releases, asset, measured>>

-----------------------------------------------------------------------------
(* What rests on a release: the measurement of a capture.  (For the        *)
(* practice of a released drill see PracticeLoop.)                         *)

(* reanalysis_candidate: READY, and the publication it would replace.      *)
Candidate ==
    /\ asset[Capture] = "kept" /\ Effective(Mapping)
    /\ event[publication.run] # "none" => Version(publication.run) = From

Reanalyse(r) ==
    /\ run[r] = "none" /\ \A q \in Requests : q < r => run[q] # "none"
    /\ Live(Author) /\ Candidate
    /\ \A q \in Runs : run[q] # "QUEUED"
    /\ run' = [run EXCEPT ![r] = "QUEUED"]
    /\ seen' = [seen EXCEPT ![r] = publication]
    /\ UNCHANGED <<releases, person, asset, event, publication, contribution>>

(* A worker processes it; a reviewer then has to adjudicate it.            *)
Process(r) ==
    /\ run[r] = "QUEUED"
    /\ run' = [run EXCEPT ![r] = "REVIEW_REQUIRED"]
    /\ UNCHANGED <<releases, person, asset, seen, event, publication, contribution>>

(* publication_measurement: a version nobody published governs nothing,    *)
(* and the facts of an old fixture need no release.                        *)
Measurable(r) ==
    /\ Version(r) \in published => Effective(Version(r))
    /\ r # First => Candidate /\ seen[r] = publication

(* publish_annotations.                                                    *)
PublishFacts(r) ==
    /\ Live(Author) /\ run[r] = "REVIEW_REQUIRED" /\ asset[Capture] = "kept"
    /\ event[r] = "none" /\ publication.run <= r
    /\ Measurable(r)
    /\ event' = [event EXCEPT ![r] = "live"]
    /\ publication' = [revision |-> publication.revision + 1, run |-> r]
    /\ contribution' = TRUE
    /\ UNCHANGED <<releases, person, asset, run, seen>>

-----------------------------------------------------------------------------
Next ==
    \/ \E k \in Keys : Propose(k) \/ Publish(k) \/ Retire(k) \/ Withdraw(k)
    \/ \E k \in Keys, p \in Reviewers, decision \in {"APPROVE", "REJECT"} : Review(k, p, decision)
    \/ \E a \in Assets : Expire(a) \/ DeleteAsset(a)
    \/ \E p \in People : Leave(p) \/ Disable(p) \/ Enable(p)
    \/ \E r \in Requests : Reanalyse(r) \/ Process(r)
    \/ \E r \in Runs : PublishFacts(r)

Spec == Init /\ [][Next]_vars

-----------------------------------------------------------------------------
TypeOK ==
    /\ \A k \in Keys : proposal[k] \in {"none", "OPEN", "PUBLISHED", "RETIRED", "WITHDRAWN"}
    /\ published \subseteq Keys
    /\ \A r \in Runs : run[r] \in {"none", "QUEUED", "REVIEW_REQUIRED", "CANCELLED"}

(* A release that is in force, or was retired, rests on releases of which  *)
(* none was withdrawn, however many versions lie between them and in       *)
(* whatever order they were published, retired and withdrawn.              *)
WithdrawalIsTransitive ==
    \A k \in published : proposal[k] = "WITHDRAWN" =>
        \A p \in Keys : proposal[p] \in {"PUBLISHED", "RETIRED"} => k \notin Below[p]

(* Nothing that was measured by a withdrawn release is still counted: no   *)
(* fact of it is live, and no reanalysis is under way that would bring one *)
(* back.  (A version that nobody published rests on nothing.)              *)
NothingRestsOnWithdrawn ==
    \A k \in published : proposal[k] = "WITHDRAWN" =>
        /\ \A r \in Runs : Version(r) \in published /\ k \in Below[Version(r)] => event[r] # "live"
        /\ \A r \in Requests : k \in Below[Mapping] => run[r] \in {"none", "CANCELLED"}

(* A contribution is counted only with the facts of the publication in     *)
(* force, and what a reanalysis published replaced what it was asked for.  *)
ContributionIsLive ==
    /\ contribution => event[publication.run] = "live"
    /\ publication.run # First => seen[publication.run].revision + 1 = publication.revision

KnowledgeSound ==
    TypeOK /\ WithdrawalIsTransitive /\ NothingRestsOnWithdrawn /\ ContributionIsLive
=============================================================================
