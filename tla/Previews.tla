------------------------------- MODULE Previews -------------------------------
(***************************************************************************)
(* The journals and the cloud previews together.  The four components      *)
(* share no state here, so a behaviour moves one of them: focus names it   *)
(* and the others stay in their first state.  The states are the sum of    *)
(* the four, not the product.                                              *)
(***************************************************************************)
EXTENDS Naturals, Sequences, FiniteSets

CONSTANTS Focus,        \* the components to explore
          Writers, Goal, Tries,           \* of CloudLog
          Runs, MaxAttempts, SlotLimit,   \* of ExecutionJournal
          Files,                          \* of PreviewWrites, with MaxAttempts
          MaxRecords                      \* of FileJournals

ASSUME PreviewsAssumption ==
    /\ Goal \in [Writers -> {"submit", "stop"}]
    /\ Tries \in Nat \ {0}
    /\ IsFiniteSet(Runs)
    /\ MaxAttempts \in Nat
    /\ SlotLimit \in Nat
    /\ IsFiniteSet(Files) /\ Files # {} /\ Files = 1..Cardinality(Files)
    /\ MaxRecords \in Nat

VARIABLES focus,
          log, pc, sequence, payload, collisions, late,
          run, slot, row, tombs, vm, launcher, canceller, pass, quarantine,
          preview, previewRun, slots, intent, session, object, at, file,
          records, torn, checkpoint, appender, reported, applied, restored

logVars == <<log, pc, sequence, payload, collisions, late>>
executionVars == <<run, slot, row, tombs, vm, launcher, canceller, pass, quarantine>>
writeVars == <<preview, previewRun, slots, intent, session, object, at, file>>
journalVars == <<records, torn, checkpoint, appender, reported, applied, restored>>
vars == <<focus, logVars, executionVars, writeVars, journalVars>>

JournalNames == {"control", "ledger"}

Log == INSTANCE CloudLog
Executions == INSTANCE ExecutionJournal
Writes == INSTANCE PreviewWrites WITH run <- previewRun
Journals == INSTANCE FileJournals WITH Journals <- JournalNames, at <- appender,
                                       quarantine <- restored

Init == /\ focus \in Focus
        /\ Log!Init /\ Executions!Init /\ Writes!Init /\ Journals!Init

LogMoves == focus = "log" /\ Log!Next /\ UNCHANGED <<focus, executionVars, writeVars, journalVars>>
ExecutionMoves ==
    /\ focus = "executions" /\ Executions!Next
    /\ UNCHANGED <<focus, logVars, writeVars, journalVars>>
WriteMoves ==
    /\ focus = "writes" /\ Writes!Next
    /\ UNCHANGED <<focus, logVars, executionVars, journalVars>>
JournalMoves ==
    /\ focus = "journals" /\ Journals!Next
    /\ UNCHANGED <<focus, logVars, executionVars, writeVars>>

Next == LogMoves \/ ExecutionMoves \/ WriteMoves \/ JournalMoves
Spec == Init /\ [][Next]_vars

(* Maintenance runs again and again and the store is not down for ever; a  *)
(* cancellation ends, one way or the other, and nobody is bound to repeat  *)
(* one that was rolled back.                                               *)
FairSpec ==
    /\ Spec
    /\ focus = "executions" =>
           /\ \A r \in Runs : WF_executionVars(Executions!CancelCommits(r) \/ Executions!CancelRollsBack(r))
           /\ \A a \in Executions!Attempts :
                  /\ SF_executionVars(Executions!PassBegins(a))
                  /\ SF_executionVars(Executions!PassStopsPlanned(a))
                  /\ SF_executionVars(Executions!PassInspects(a))
                  /\ SF_executionVars(Executions!PassMarksStopping(a))
                  /\ SF_executionVars(Executions!PassDeletes(a))
                  /\ SF_executionVars(Executions!PassProvesStopped(a))
                  /\ SF_executionVars(Executions!PassAcknowledges(a))
                  /\ WF_executionVars(Executions!RequestResolves(a))
                  /\ WF_executionVars(Executions!DeletionEnds(a))

(* See JournalSound, ImplementsAtomicRegister, ExecutionsSound,            *)
(* TombstoneIsFinal, UidRecovered, WritesSound, ServedIsWhole,             *)
(* JournalsSound and RecoveryIsComplete in the modules.                    *)
JournalSound == Log!JournalSound
ImplementsAtomicRegister == Log!ImplementsAtomicRegister
ExecutionsSound == Executions!ExecutionsSound
TombstoneIsFinal == Executions!TombstoneIsFinal
UidRecovered == Executions!UidRecovered
WritesSound == Writes!WritesSound
ServedIsWhole == Writes!ServedIsWhole
JournalsSound == Journals!JournalsSound
RecoveryIsComplete == Journals!RecoveryIsComplete
=============================================================================
