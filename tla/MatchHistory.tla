---------------------------- MODULE MatchHistory ----------------------------
(***************************************************************************)
(* One player's match history (backend/core/match_ingestion.py,            *)
(* match_worker.py, match_api.py, recordings.py, evidence.py): pages of    *)
(* matches are fetched outside any transaction and imported under a lease; *)
(* the owner unlinks and links the player again, deletes matches, attaches *)
(* recordings to them; the provider corrects what it said; an operator     *)
(* reviews the recording and publishes what was seen in it.                *)
(***************************************************************************)
EXTENDS Naturals, Sequences

CONSTANTS Workers,      \* processes of process_matches
          LastPage,     \* a query has pages 1..LastPage, with one match each
          Recorded,     \* bound: the matches that are recorded and corrected
          MaxVersion,   \* bound: versions the provider has of a match
          MaxAttempts,  \* claims without a page imported (5 in the code)
          MaxFence,     \* bound on the claims
          MaxLinks,     \* bound on the times the player is linked
          MaxRuns       \* bound on the analyses of a match

VARIABLES processing,   \* the owner's processing consent
          identity,     \* PlayerGameIdentity and how often it was linked
          upstream,     \* the provider's version of each match
          sync,         \* the MatchSync row of the one query
          fetcher,      \* per worker: the page it has claimed or fetched
          match,        \* Match and the latest MatchSourceRecord, per page
          suppressed,   \* the matches that MatchSuppression names
          recording,    \* the ReplaySource of the match's video
          attaching,    \* the metadata revision a running attach_recording saw
          analyses      \* the runs, their events, publication and contribution

vars == <<processing, identity, upstream, sync, fetcher, match, suppressed,
          recording, attaching, analyses>>
evidence == <<recording, attaching, analyses>>
history == <<match, suppressed>>

Pages == 1..LastPage
None == 0
Idle == [pc |-> "idle", token |-> 0, page |-> 0, version |-> 0, link |-> 0]
NoSync == [status |-> "none", page |-> 1, fence |-> 0, attempts |-> 0,
           leased |-> FALSE, waiting |-> FALSE]

Init ==
    /\ processing = TRUE
    /\ identity = [state |-> "NONE", links |-> 0]
    /\ upstream = [p \in Pages |-> 1]
    /\ sync = NoSync
    /\ fetcher = [w \in Workers |-> Idle]
    /\ match = [p \in Pages |-> [state |-> "ABSENT", version |-> 0, revision |-> 0, facts |-> 0]]
    /\ suppressed = {}
    /\ recording = [p \in Pages |-> [state |-> "NONE", claim |-> 0]]
    /\ attaching = [p \in Pages |-> None]
    /\ analyses = [p \in Pages |-> [runs |-> <<>>, published |-> 0, contribution |-> 0]]

-----------------------------------------------------------------------------
(* The link, the consent and the sync job.                                 *)

(* link_local_identity: linking a revoked player again has to be confirmed.*)
Link ==
    /\ processing /\ identity.state # "CLAIMED" /\ identity.links < MaxLinks
    /\ identity' = [state |-> "CLAIMED", links |-> identity.links + 1]
    /\ UNCHANGED <<processing, upstream, sync, fetcher, history, evidence>>

(* The update that every revocation makes of the owner's sync rows.  Bound:*)
(* a cancelled job's fence, which the next claim raises, is left alone.    *)
Fenced(job) ==
    IF job.status \in {"none", "CANCELLED"} THEN job
    ELSE [job EXCEPT !.status = "CANCELLED", !.fence = @ + 1, !.leased = FALSE, !.page = 1]

Revoked(player) == [player EXCEPT !.state = IF @ = "NONE" THEN @ ELSE "REVOKED"]

Unlink ==
    /\ identity.state = "CLAIMED"   \* bound: again it only raises the fence
    /\ identity' = Revoked(identity)
    /\ sync' = Fenced(sync)
    /\ UNCHANGED <<processing, upstream, fetcher, history, evidence>>

(* record_consent, for what it does to matches and their runs.             *)
WithdrawConsent ==
    /\ processing
    /\ processing' = FALSE
    /\ identity' = Revoked(identity)
    /\ sync' = Fenced(sync)
    /\ analyses' = [p \in Pages |-> [analyses[p] EXCEPT !.runs =
           [n \in DOMAIN @ |-> IF @[n].status = "QUEUED"
                               THEN [@[n] EXCEPT !.status = "CANCELLED"] ELSE @[n]]]]
    /\ UNCHANGED <<upstream, fetcher, history, recording, attaching>>

GrantConsent ==
    /\ ~processing
    /\ processing' = TRUE
    /\ UNCHANGED <<identity, upstream, sync, fetcher, history, evidence>>

StartSync ==
    /\ processing /\ identity.state = "CLAIMED"
    /\ sync.status \in {"none", "COMPLETE", "CANCELLED"}
    /\ sync' = [sync EXCEPT !.status = "PENDING", !.page = 1, !.attempts = 0,
                            !.leased = FALSE, !.waiting = FALSE]
    /\ UNCHANGED <<processing, identity, upstream, fetcher, history, evidence>>

LeaseExpires ==
    /\ sync.leased
    /\ sync' = [sync EXCEPT !.leased = FALSE]
    /\ UNCHANGED <<processing, identity, upstream, fetcher, history, evidence>>

RetryTimeComes ==
    /\ sync.waiting
    /\ sync' = [sync EXCEPT !.waiting = FALSE]
    /\ UNCHANGED <<processing, identity, upstream, fetcher, history, evidence>>

-----------------------------------------------------------------------------
(* The worker: claim, fetch, commit; three transactions at the least.      *)

Claimable ==
    /\ identity.state = "CLAIMED"
    /\ sync.status \in {"PENDING", "PROCESSING"} /\ ~sync.leased /\ ~sync.waiting

Claim(w) ==
    /\ fetcher[w].pc = "idle" /\ Claimable
    /\ sync.attempts < MaxAttempts /\ sync.fence < MaxFence
    /\ sync' = [sync EXCEPT !.status = "PROCESSING", !.fence = @ + 1, !.attempts = @ + 1,
                            !.leased = TRUE]
    /\ fetcher' = [fetcher EXCEPT ![w] = [Idle EXCEPT !.pc = "claimed", !.token = sync'.fence,
                                                      !.link = identity.links]]
    /\ UNCHANGED <<processing, identity, upstream, history, evidence>>

GiveUp ==
    /\ Claimable /\ sync.attempts >= MaxAttempts
    /\ sync' = [sync EXCEPT !.status = "ATTENTION_REQUIRED"]
    /\ UNCHANGED <<processing, identity, upstream, fetcher, history, evidence>>

(* The cursor is read again after the claim; the provider answers with any *)
(* version it has had, with data that does not validate, or not at all.    *)
Fetch(w) ==
    /\ fetcher[w].pc = "claimed"
    /\ \/ \E v \in 1..upstream[sync.page] :
              fetcher' = [fetcher EXCEPT ![w].pc = "fetched", ![w].page = sync.page,
                                         ![w].version = v]
       \/ \E answer \in {"invalid", "down"} : fetcher' = [fetcher EXCEPT ![w].pc = answer]
    /\ UNCHANGED <<processing, identity, upstream, sync, history, evidence>>

(* valid_lease behind locked_sync, which refuses a revoked player.         *)
ValidLeaseAnyFenceFault(w) ==
    identity.state = "CLAIMED" /\ sync.status = "PROCESSING" /\ sync.leased

ValidLease(w) ==
    /\ identity.state = "CLAIMED"
    /\ sync.status = "PROCESSING" /\ sync.fence = fetcher[w].token /\ sync.leased

Protected(p) == recording[p].state = "APPROVED" \/ analyses[p].published # 0

Known(p) == match[p].state \in {"METADATA_IMPORTED", "REVIEW_REQUIRED"}
(* Fault: a match that was deleted is imported again.                     *)
UnchangedIfKnownFault(p, v) == Known(p) /\ match[p].version = v
Unchanged(p, v) == p \in suppressed \/ (Known(p) /\ match[p].version = v)
OutOfOrder(p, v) == p \notin suppressed /\ Known(p) /\ v < match[p].version

(* _import_metadata: a correction of a match whose evidence was reviewed   *)
(* leaves its facts alone and takes it out of every measurement.           *)
Import(p, v) ==
    /\ match' = [match EXCEPT ![p] =
           [state |-> IF Protected(p) THEN "REVIEW_REQUIRED" ELSE "METADATA_IMPORTED",
            version |-> v, revision |-> IF Known(p) THEN @.revision + 1 ELSE 1,
            facts |-> IF Protected(p) THEN @.facts ELSE v]]
    /\ analyses' = IF Protected(p) THEN [analyses EXCEPT ![p].contribution = 0] ELSE analyses

CommitPage(w) ==
    LET p == fetcher[w].page
        v == fetcher[w].version
    IN  /\ fetcher[w].pc = "fetched" /\ ValidLease(w) /\ sync.page = p /\ ~OutOfOrder(p, v)
        /\ sync' = [sync EXCEPT !.status = IF p = LastPage THEN "COMPLETE" ELSE "PENDING",
                                !.page = IF p = LastPage THEN 1 ELSE p + 1,
                                !.leased = FALSE, !.waiting = FALSE, !.attempts = 0]
        /\ IF Unchanged(p, v) THEN UNCHANGED <<match, analyses>> ELSE Import(p, v)
        /\ fetcher' = [fetcher EXCEPT ![w] = Idle]
        /\ UNCHANGED <<processing, identity, upstream, suppressed, recording, attaching>>

(* The transaction rolls back and a later one quarantines the job.         *)
RefusePage(w) ==
    /\ fetcher[w].pc = "fetched" /\ ValidLease(w) /\ sync.page = fetcher[w].page
    /\ OutOfOrder(fetcher[w].page, fetcher[w].version)
    /\ fetcher' = [fetcher EXCEPT ![w].pc = "invalid"]
    /\ UNCHANGED <<processing, identity, upstream, sync, history, evidence>>

(* quarantine and fail_local_sync.                                         *)
EndAttempt(w) ==
    /\ fetcher[w].pc \in {"invalid", "down"} /\ ValidLease(w)
    /\ sync' = [sync EXCEPT
           !.status = IF fetcher[w].pc = "invalid" \/ sync.attempts >= MaxAttempts
                      THEN "ATTENTION_REQUIRED" ELSE "PENDING",
           !.waiting = (fetcher[w].pc = "down"), !.leased = FALSE]
    /\ fetcher' = [fetcher EXCEPT ![w] = Idle]
    /\ UNCHANGED <<processing, identity, upstream, history, evidence>>

(* The lease is lost, or the worker dies: whatever it held is dropped.     *)
Abandon(w) ==
    /\ fetcher[w].pc # "idle"
    /\ fetcher' = [fetcher EXCEPT ![w] = Idle]
    /\ UNCHANGED <<processing, identity, upstream, sync, history, evidence>>

ProviderCorrects(p) ==
    /\ upstream[p] < MaxVersion
    /\ upstream' = [upstream EXCEPT ![p] = @ + 1]
    /\ UNCHANGED <<processing, identity, sync, fetcher, history, evidence>>

-----------------------------------------------------------------------------
(* Recordings: attach, analyse, review, publish, delete.                   *)

Held(p) == recording[p].state \in {"PENDING_REVIEW", "APPROVED"}

(* target_match and validate_claim, for a claim about a metadata revision. *)
Attachable(p, claim) == match[p].state = "METADATA_IMPORTED" /\ match[p].revision = claim

BeginAttach(p) ==
    /\ attaching[p] = None /\ match[p].revision # 0 /\ Attachable(p, match[p].revision)
    /\ attaching' = [attaching EXCEPT ![p] = match[p].revision]
    /\ UNCHANGED <<processing, identity, upstream, sync, fetcher, history, recording, analyses>>

Enqueued(p) ==
    [analyses EXCEPT ![p].runs = Append(@, [status |-> "QUEUED", facts |-> 0])]

(* The bytes are on disk; what was checked before is checked again.        *)
CommitAttach(p) ==
    /\ attaching[p] # None
    /\ attaching' = [attaching EXCEPT ![p] = None]
    /\ IF Attachable(p, attaching[p]) /\ ~Held(p) /\ processing
       THEN /\ Len(analyses[p].runs) < MaxRuns
            /\ recording' = [recording EXCEPT ![p] =
                                 [state |-> "PENDING_REVIEW", claim |-> attaching[p]]]
            /\ analyses' = Enqueued(p)
       ELSE UNCHANGED <<recording, analyses>>
    /\ UNCHANGED <<processing, identity, upstream, sync, fetcher, history>>

(* The analysis itself is LocalWorkers and CloudDispatch.                  *)
AnalysisEnds(p) ==
    \E n \in DOMAIN analyses[p].runs, outcome \in {"ANALYSED", "FAILED"} :
        /\ analyses[p].runs[n].status = "QUEUED"
        /\ analyses' = [analyses EXCEPT ![p].runs[n].status = outcome]
        /\ UNCHANGED <<processing, identity, upstream, sync, fetcher, history, recording, attaching>>

Reprocess(p) ==
    /\ processing /\ Held(p) /\ match[p].state # "DELETED"
    /\ \A n \in DOMAIN analyses[p].runs : analyses[p].runs[n].status # "QUEUED"
    /\ Len(analyses[p].runs) < MaxRuns
    /\ analyses' = Enqueued(p)
    /\ UNCHANGED <<processing, identity, upstream, sync, fetcher, history, recording, attaching>>

Review(p) ==
    /\ processing /\ recording[p].state = "PENDING_REVIEW"
    /\ Attachable(p, recording[p].claim)
    /\ analyses[p].runs[Len(analyses[p].runs)].status = "ANALYSED"
    /\ recording' = [recording EXCEPT ![p].state = "APPROVED"]
    /\ UNCHANGED <<processing, identity, upstream, sync, fetcher, history, attaching, analyses>>

(* publish_annotations.  A published run stays as it is.                   *)
Publishable(p, n) ==
    /\ processing /\ recording[p].state = "APPROVED" /\ match[p].state = "METADATA_IMPORTED"
    /\ analyses[p].runs[n].status = "ANALYSED"
    /\ n > analyses[p].published

Publish(p) ==
    \E n \in DOMAIN analyses[p].runs :
        /\ Publishable(p, n)
        /\ analyses' = [analyses EXCEPT
               ![p].runs[n] = [status |-> "PUBLISHED", facts |-> match[p].facts],
               ![p].published = n, ![p].contribution = n]
        /\ UNCHANGED <<processing, identity, upstream, sync, fetcher, history, recording, attaching>>

(* delete_asset of an imported match's recording: the match survives.      *)
DeleteRecording(p) ==
    /\ Held(p)
    /\ recording' = [recording EXCEPT ![p].state = "WITHDRAWN"]
    /\ analyses' = [analyses EXCEPT
           ![p].runs = [n \in DOMAIN @ |-> [@[n] EXCEPT !.status = "CANCELLED"]],
           ![p].contribution = 0]
    /\ UNCHANGED <<processing, identity, upstream, sync, fetcher, history, attaching>>

(* delete_metadata_match: the match never comes back, and the player has   *)
(* to be linked again before anything else comes.                          *)
DeleteMatch(p) ==
    /\ Known(p) /\ ~Held(p)
    /\ match' = [match EXCEPT ![p].state = "DELETED"]
    /\ suppressed' = suppressed \cup {p}
    /\ identity' = Revoked(identity)
    /\ sync' = Fenced(sync)
    /\ analyses' = [analyses EXCEPT ![p].contribution = 0]
    /\ UNCHANGED <<processing, upstream, fetcher, recording, attaching>>

-----------------------------------------------------------------------------
WorkerStep(w) ==
    Claim(w) \/ Fetch(w) \/ CommitPage(w) \/ RefusePage(w) \/ EndAttempt(w) \/ Abandon(w)

RecordingStep(p) ==
    \/ BeginAttach(p) \/ CommitAttach(p) \/ AnalysisEnds(p) \/ Reprocess(p)
    \/ Review(p) \/ Publish(p) \/ DeleteRecording(p)

Next ==
    \/ Link \/ Unlink \/ WithdrawConsent \/ GrantConsent \/ StartSync
    \/ LeaseExpires \/ RetryTimeComes \/ GiveUp
    \/ \E w \in Workers : WorkerStep(w)
    \/ \E p \in Pages : DeleteMatch(p)
    \/ \E p \in Recorded : ProviderCorrects(p) \/ RecordingStep(p)

Spec == Init /\ [][Next]_vars

-----------------------------------------------------------------------------
TypeOK ==
    /\ processing \in BOOLEAN
    /\ identity.state \in {"NONE", "CLAIMED", "REVOKED"}
    /\ sync.status \in {"none", "PENDING", "PROCESSING", "COMPLETE", "CANCELLED",
                        "ATTENTION_REQUIRED"}
    /\ sync.page \in Pages
    /\ \A p \in Pages :
           /\ match[p].state \in {"ABSENT", "METADATA_IMPORTED", "REVIEW_REQUIRED", "DELETED"}
           /\ recording[p].state \in {"NONE", "PENDING_REVIEW", "APPROVED", "WITHDRAWN"}

(* A match the owner deleted is never there again, and has no recording,   *)
(* whatever was being fetched or attached at the time.                     *)
DeletedStaysDeleted ==
    \A p \in suppressed : match[p].state = "DELETED" /\ ~Held(p)

(* What counts for a match is the newest published analysis of a recording *)
(* that was reviewed against the facts the match still has: a correction   *)
(* either comes before the review and voids the claim, or takes the match  *)
(* out of the measurements and leaves its facts alone.                     *)
ContributionIsCurrent ==
    \A p \in Pages :
        /\ recording[p].state = "APPROVED" /\ match[p].state = "METADATA_IMPORTED"
               => recording[p].claim = match[p].revision
        /\ analyses[p].contribution # 0 =>
               LET n == analyses[p].contribution
               IN  /\ recording[p].state = "APPROVED" /\ match[p].state = "METADATA_IMPORTED"
                   /\ analyses[p].runs[n] = [status |-> "PUBLISHED", facts |-> match[p].facts]
                   /\ \A m \in DOMAIN analyses[p].runs :
                          analyses[p].runs[m].status = "PUBLISHED" => m <= n

(* A finished sync has seen every page: no match of the query is missing.  *)
CompleteIsComplete ==
    sync.status = "COMPLETE" => \A p \in Pages : Known(p) \/ p \in suppressed

MatchesSound ==
    TypeOK /\ DeletedStaysDeleted /\ ContributionIsCurrent /\ CompleteIsComplete

(* What is imported was asked for under the link and the consent that hold *)
(* when it is imported: nothing fetched before the player was unlinked, a  *)
(* match was deleted or the consent withdrawn comes in after they are back.*)
AuthorizedImport ==
    \A p \in Pages : match'[p].version > match[p].version =>
        /\ processing /\ identity.state = "CLAIMED"
        /\ \E w \in Workers : fetcher[w].pc = "fetched" /\ fetcher[w].link = identity.links
                              /\ fetcher'[w].pc = "idle"

ImportsAreAuthorized == [][AuthorizedImport]_vars
=============================================================================
