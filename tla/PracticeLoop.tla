---------------------------- MODULE PracticeLoop ----------------------------
(***************************************************************************)
(* One player's practice loop (backend/core/loops.py, practice.py,         *)
(* comparisons.py): a drill is assigned, a baseline frozen, practice linked*)
(* to it, and later matches compared with the baseline, again and again as *)
(* recordings are published, reprocessed, corrected and deleted and gaps   *)
(* of the collection are reported.  A report is never rewritten: it is     *)
(* invalidated, or found stale when it is read.                            *)
(***************************************************************************)
EXTENDS Naturals, FiniteSets, Sequences

CONSTANTS Baseline, Practised, FollowUp, Retained,   \* the captures, by when they were played
          Assignments,
          Planned,      \* bound: the assignments whose plan may be evaluated
          Reprocessed,  \* bound: the captures that are analysed again
          Troubled,     \* bound: those that are corrected and deleted
          MaxReports,   \* bound: reports of a plan in one phase
          MaxEntries    \* bound: revisions of the one reported session

VARIABLES capture,      \* Match with its recording, publication and events
          drill,        \* the drill's release: "effective", "retired", "withdrawn"
          assignment,   \* DrillAssignment.status
          plan,         \* EvaluationPlan: the frozen baseline
          linked,       \* DrillAttempt: the practice linked to an assignment
          entry,        \* ComparisonSession: the last revision of the session
          reports       \* ImprovementEvaluation, per phase and revision

vars == <<capture, drill, assignment, plan, linked, entry, reports>>
evidence == <<capture, drill>>

Captures == Baseline \cup Practised \cup FollowUp \cup Retained
RunBound(c) == IF c \in Reprocessed THEN 2 ELSE 1
Phases == {"FOLLOWUP", "RETENTION"}
Window(phase) == IF phase = "FOLLOWUP" THEN FollowUp ELSE Retained
NoPlan == [frozen |-> FALSE, protocol |-> FALSE, baseline |-> {}]
NoEntry == [state |-> "none", revision |-> 0, matches |-> {}]

Init ==
    /\ capture = [c \in Captures |-> [state |-> "none", run |-> 0, corrected |-> FALSE]]
    /\ drill = "effective"
    /\ assignment = [a \in Assignments |-> "none"]
    /\ plan = [a \in Assignments |-> NoPlan]
    /\ linked = [a \in Assignments |-> {}]
    /\ entry = [a \in Assignments |-> [f \in Phases |-> NoEntry]]
    /\ reports = [a \in Assignments |-> [f \in Phases |-> <<>>]]

-----------------------------------------------------------------------------
(* The evidence.  A trial is known by its capture and the analysis that    *)
(* published it; the played opportunity behind it is the capture's.        *)

Current(S) == {c \in S : capture[c].state = "published"}
Usable(c) == capture[c].state = "published" /\ ~capture[c].corrected
Trial(c) == <<c, capture[c].run>>
Members(r) == r.baseline \cup r.followup \cup r.practice \cup r.reference

InvalidatedByFault(r, trials) == (r.baseline \cup r.followup) \cap trials # {}

(* What invalidate_for_events looks for in a report.                       *)
InvalidatedBy(r, trials) == Members(r) \cap trials # {}

MarkAll(history) == [i \in DOMAIN history |-> [history[i] EXCEPT !.invalidated = TRUE]]

Withdraw(trials) ==
    reports' = [a \in Assignments |-> [f \in Phases |->
                   [i \in DOMAIN reports[a][f] |->
                       [reports[a][f][i] EXCEPT !.invalidated =
                            @ \/ InvalidatedBy(reports[a][f][i], trials)]]]]

Upload(c) ==
    /\ capture[c].state \in {"none", "removed"} /\ ~capture[c].corrected
    /\ capture' = [capture EXCEPT ![c].state = "recorded"]
    /\ UNCHANGED <<drill, assignment, plan, linked, entry, reports>>

(* A new analysis takes the place of the published one: no evidence is     *)
(* withdrawn, the old trials are just not current any more.                *)
Publish(c) ==
    /\ capture[c].state \in {"recorded", "published"} /\ ~capture[c].corrected
    /\ capture[c].run < RunBound(c)
    /\ capture' = [capture EXCEPT ![c].state = "published", ![c].run = @ + 1]
    /\ UNCHANGED <<drill, assignment, plan, linked, entry, reports>>

(* The trials of every analysis of c, current or not.                      *)
Trials(c) == {<<c, n>> : n \in 1..capture[c].run}

DeleteRecording(c) ==
    /\ c \in Troubled /\ capture[c].state \in {"recorded", "published"}
    /\ capture' = [capture EXCEPT ![c].state = "removed"]
    /\ Withdraw(Trials(c))
    /\ UNCHANGED <<drill, assignment, plan, linked, entry>>

Correct(c) ==
    /\ c \in Troubled /\ capture[c].state = "published" /\ ~capture[c].corrected
    /\ capture' = [capture EXCEPT ![c].corrected = TRUE]
    /\ Withdraw(Trials(c))
    /\ UNCHANGED <<drill, assignment, plan, linked, entry>>

(* delete_metadata_match: a match that never had a trial loses its context *)
(* and with it its place in the window.                                    *)
DeleteMatch(c) ==
    /\ capture[c].state = "removed"
    /\ capture' = [capture EXCEPT ![c].state = IF capture[c].run > 0 THEN "deleted"
                                               ELSE "gone"]
    /\ Withdraw(Trials(c))
    /\ UNCHANGED <<drill, assignment, plan, linked, entry>>

Retire ==
    /\ drill = "effective"
    /\ drill' = "retired"
    /\ UNCHANGED <<capture, assignment, plan, linked, entry, reports>>

(* knowledge.revoke, for what depends on the drill.                       *)
WithdrawAll ==
    /\ assignment' = [a \in Assignments |-> IF assignment[a] = "none" THEN "none" ELSE "WITHDRAWN"]
    /\ reports' = [a \in Assignments |-> [f \in Phases |-> MarkAll(reports[a][f])]]

RevokeDrill ==
    /\ drill # "withdrawn"
    /\ drill' = "withdrawn"
    /\ WithdrawAll
    /\ UNCHANGED <<capture, plan, linked, entry>>

-----------------------------------------------------------------------------
(* Assign, freeze, practise.  A request that is repeated with its request  *)
(* id finds the row it made, and changes nothing.                          *)

Open(a) == assignment[a] \in {"ASSIGNED", "PRACTICED"}

Assign(a) ==
    /\ drill = "effective" /\ assignment[a] = "none"
    /\ assignment' = [assignment EXCEPT ![a] = "ASSIGNED"]
    /\ UNCHANGED <<evidence, plan, linked, entry, reports>>

Cancel(a) ==
    /\ assignment[a] \notin {"none", "CANCELLED"}
    /\ assignment' = [assignment EXCEPT ![a] = "CANCELLED"]
    /\ UNCHANGED <<evidence, plan, linked, entry, reports>>

(* create_plan: every trial of the chosen captures, all of them current.   *)
Freeze(a) ==
    /\ Open(a) /\ ~plan[a].frozen
    /\ \E S \in (SUBSET Baseline) \ {{}}, protocol \in BOOLEAN :
           /\ \A c \in S : Usable(c)
           /\ plan' = [plan EXCEPT ![a] = [frozen |-> TRUE, protocol |-> protocol,
                                           baseline |-> {Trial(c) : c \in S}]]
    /\ UNCHANGED <<evidence, assignment, linked, entry, reports>>

BaselineHolds(a) == \A t \in plan[a].baseline : Usable(t[1]) /\ t = Trial(t[1])

AlreadyCountedFault(a, c) == \E t \in linked[a] : t[1] = c

(* played_key is unique over all assignments and analyses.                 *)
AlreadyCounted(a, c) == \E b \in Assignments : \E t \in linked[b] : t[1] = c

RecordPractice(a) ==
    /\ Open(a) /\ drill = "effective"
    /\ plan[a].frozen /\ BaselineHolds(a)
    /\ \E c \in Practised :
           /\ Usable(c) /\ ~AlreadyCounted(a, c)
           /\ linked' = [linked EXCEPT ![a] = @ \cup {Trial(c)}]
    /\ assignment' = [assignment EXCEPT ![a] = "PRACTICED"]
    /\ UNCHANGED <<evidence, plan, entry, reports>>

(* current_practice: the links are kept, but only these count.             *)
Counted(a) == {t \in linked[a] : Usable(t[1]) /\ t = Trial(t[1])}

-----------------------------------------------------------------------------
(* The collection of a window, the reports over it, and their reading.     *)

InWindow(phase) == {c \in Window(phase) : capture[c].state \notin {"none", "gone"}}

(* collection: the trials, and the counts of what is missing.              *)
Collection(a, phase) ==
    LET current == Current(Window(phase))
        e == entry[a][phase]
    IN  [trials |-> {Trial(c) : c \in current},
         unpublished |-> Cardinality(InWindow(phase) \ current),
         matches |-> Cardinality(InWindow(phase)),
         entry |-> [state |-> e.state, revision |-> e.revision],
         unresolved |-> e.state = "RECORDED" /\ ~(e.matches \subseteq current)]

Complete(info) ==
    /\ info.trials # {} /\ info.unpublished = 0 /\ ~info.unresolved
    /\ info.entry.state \notin {"MISSING", "DELETED"}

(* The window of a synthetic plan without a protocol is not checked again. *)
NoCollection == [trials |-> {}, unpublished |-> 0, matches |-> 0,
                 entry |-> [state |-> "none", revision |-> 0], unresolved |-> FALSE]

Last(s) == s[Len(s)]
Content(r) == [r EXCEPT !.invalidated = FALSE]

(* availability, but for the reference of a retention report.              *)
Fresh(a, r) ==
    /\ ~r.invalidated /\ drill # "withdrawn"
    /\ \A t \in Members(r) : Usable(t[1]) /\ t = Trial(t[1])
    /\ plan[a].protocol => /\ r.followup = Collection(a, r.phase).trials
                           /\ r.collection = Collection(a, r.phase)

Available(a, r) ==
    /\ Fresh(a, r)
    /\ r.phase = "RETENTION" /\ r.referenced =>
           LET initial == Last(reports[a]["FOLLOWUP"])
           IN  Content(initial) = r.initial[1] /\ Fresh(a, initial)

(* evaluate_comparison.  A comparison is measured only when nothing stands *)
(* against it, and refers to the last follow-up only if that still stands. *)
RefersTo(a, phase) ==
    /\ phase = "RETENTION" /\ reports[a]["FOLLOWUP"] # <<>>
    /\ Available(a, Last(reports[a]["FOLLOWUP"]))

Result(a, phase) ==
    LET info == Collection(a, phase)
        initial == Last(reports[a]["FOLLOWUP"])
        valid == RefersTo(a, phase)
    IN  [phase |-> phase, baseline |-> plan[a].baseline, followup |-> info.trials,
         practice |-> Counted(a),
         collection |-> IF plan[a].protocol THEN info ELSE NoCollection,
         referenced |-> valid,
         initial |-> IF valid THEN <<Content(initial)>> ELSE <<>>,
         reference |-> IF valid THEN initial.followup ELSE {},
         measured |-> /\ BaselineHolds(a)
                      /\ \A t \in info.trials : Usable(t[1])
                      /\ info.trials # {}
                      /\ linked[a] # {} /\ Counted(a) = linked[a]
                      /\ plan[a].protocol => Complete(info),
         invalidated |-> FALSE]

(* A measured or unmeasured result that is already the last one and still  *)
(* stands is not written again.                                            *)
Evaluate(a, phase) ==
    /\ drill # "withdrawn" /\ plan[a].frozen
    /\ phase = "RETENTION" => plan[a].protocol
    /\ reports[a][phase] # <<>> => Last(reports[a][phase]) # Result(a, phase)
    /\ Len(reports[a][phase]) < MaxReports
    /\ reports' = [reports EXCEPT ![a][phase] = Append(@, Result(a, phase))]
    /\ UNCHANGED <<evidence, assignment, plan, linked, entry>>

(* record_session: a gap, or matches of the window; a withdrawn session is *)
(* not made again.                                                         *)
RecordSession(a, phase) ==
    /\ Open(a) /\ drill # "withdrawn" /\ plan[a].protocol
    /\ entry[a][phase].state # "DELETED" /\ entry[a][phase].revision < MaxEntries
    /\ \E state \in {"RECORDED", "MISSING", "SKIPPED"},
          matches \in SUBSET {c \in InWindow(phase) : capture[c].state # "deleted"} :
           /\ (state = "RECORDED") = (matches # {})
           /\ entry' = [entry EXCEPT ![a][phase] = [state |-> state, matches |-> matches,
                                                    revision |-> @.revision + 1]]
    /\ UNCHANGED <<evidence, assignment, plan, linked, reports>>

DeleteSession(a, phase) ==
    /\ entry[a][phase].state \notin {"none", "DELETED"}
    /\ entry' = [entry EXCEPT ![a][phase].state = "DELETED", ![a][phase].matches = {}]
    /\ reports' = [reports EXCEPT ![a][phase] = MarkAll(@)]
    /\ UNCHANGED <<evidence, assignment, plan, linked>>

-----------------------------------------------------------------------------
Next ==
    \/ \E c \in Captures : Upload(c) \/ Publish(c) \/ DeleteRecording(c) \/ Correct(c)
                           \/ DeleteMatch(c)
    \/ Retire \/ RevokeDrill
    \/ \E a \in Assignments : Assign(a) \/ Cancel(a) \/ Freeze(a) \/ RecordPractice(a)
    \/ \E a \in Planned, f \in Phases :
           Evaluate(a, f) \/ RecordSession(a, f) \/ DeleteSession(a, f)

Spec == Init /\ [][Next]_vars

-----------------------------------------------------------------------------
TypeOK ==
    /\ \A c \in Captures :
           /\ capture[c].state \in {"none", "recorded", "published", "removed", "deleted", "gone"}
           /\ capture[c].run \in 0..RunBound(c)
    /\ drill \in {"effective", "retired", "withdrawn"}
    /\ \A a \in Assignments :
           assignment[a] \in {"none", "ASSIGNED", "PRACTICED", "CANCELLED", "WITHDRAWN"}

AllReports(a) == UNION {{reports[a][f][i] : i \in DOMAIN reports[a][f]} : f \in Phases}

(* What was played once is practice once, whichever assignment it is       *)
(* linked to and however often its recording is analysed again.            *)
PracticeCountsOnce ==
    \A a, b \in Assignments : \A t \in linked[a], u \in linked[b] :
        t[1] = u[1] => a = b /\ t = u

(* A comparison that was measured and rests on evidence which has been     *)
(* deleted or corrected since carries the mark that says so: the mark does *)
(* not depend on anybody reading the report, and no later publication of   *)
(* the same capture takes it off.                                          *)
WithdrawnIsMarked ==
    \A a \in Assignments : \A r \in AllReports(a) :
        r.measured /\ (\E t \in Members(r) :
                           capture[t[1]].state \in {"removed", "deleted"} \/ capture[t[1]].corrected)
        => r.invalidated

(* A measured comparison that is shown as available is the one that would  *)
(* be measured now, but for practice linked since; and so is, for a        *)
(* retention report, the comparison it refers to.                          *)
StillMeasured(a, r) ==
    /\ r.baseline = plan[a].baseline /\ BaselineHolds(a)
    /\ r.practice \subseteq Counted(a) /\ r.practice # {}
    /\ plan[a].protocol => /\ Complete(Collection(a, r.phase))
                           /\ r.followup = {Trial(c) : c \in InWindow(r.phase)}

AvailableIsCurrent ==
    \A a \in Assignments : \A r \in AllReports(a) :
        r.measured /\ Available(a, r) =>
            /\ StillMeasured(a, r)
            /\ r.referenced => /\ r.reference = Last(reports[a]["FOLLOWUP"]).followup
                               /\ Last(reports[a]["FOLLOWUP"]).measured =>
                                      StillMeasured(a, Last(reports[a]["FOLLOWUP"]))

(* The two invariants the run checks: what counts as practice, and what a  *)
(* report may be shown for.                                                *)
PracticeSound == TypeOK /\ PracticeCountsOnce
ReportsSound == WithdrawnIsMarked /\ AvailableIsCurrent
=============================================================================
