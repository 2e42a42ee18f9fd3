------------------------------ MODULE CloudLog ------------------------------
(***************************************************************************)
(* The shared append-only journal of backend/core/cloud_journal.py: an     *)
(* object per sequence number, created only if absent, in a bucket nobody  *)
(* may overwrite or delete from.  A writer lists the bucket, reduces the   *)
(* records it read, computes the next one and creates the object after     *)
(* the last it saw; a collision makes it read again and recompute.  The    *)
(* records are the states of one execution row, which is all a writer's    *)
(* decision depends on; the row itself is in module ExecutionJournal.      *)
(* sequence 0, which names the journal, is not counted: log[i] is object i. *)
(***************************************************************************)
EXTENDS Naturals, Sequences

CONSTANTS
    Writers,    \* processes that update the journal, each once
    Goal,       \* Goal[w]: what writer w does, "submit" or "stop"
    Tries       \* collisions after which a writer gives up (6 in the code)

VARIABLES
    log,        \* the objects in the bucket, by sequence number
    pc,         \* pc[w]: "idle", "read", "ok", "refused", "failed" or "contended"
    sequence,   \* sequence[w]: the number w will try to create
    payload,    \* payload[w]: the record w computed from what it read
    collisions, \* collisions[w]: sequences lost so far
    late        \* creations whose response was lost and that may still arrive

vars == <<log, pc, sequence, payload, collisions, late>>

States == {"PLANNED", "SUBMITTING", "STOPPING", "STOPPED"}
None == "NONE"   \* the payload of a writer with nothing to append

Init == /\ log = <<"PLANNED">>
        /\ pc = [w \in Writers |-> "idle"]
        /\ sequence = [w \in Writers |-> 0]
        /\ payload = [w \in Writers |-> None]
        /\ collisions = [w \in Writers |-> 0]
        /\ late = {}

(* The irreversible transitions reduce() accepts.                          *)
Transitions == [s \in States |->
    CASE s = "PLANNED"    -> {"PLANNED", "SUBMITTING", "STOPPED"}
      [] s = "SUBMITTING" -> {"SUBMITTING", "STOPPING", "STOPPED"}
      [] s = "STOPPING"   -> {"STOPPING", "STOPPED"}
      [] s = "STOPPED"    -> {"STOPPED"}]

Last(records) == records[Len(records)]

(* What a writer makes of the records it read: submit moves the row to     *)
(* SUBMITTING, stop to STOPPED before a launch and to STOPPING after.      *)
Wanted(w, state) ==
    CASE Goal[w] = "submit" -> "SUBMITTING"
      [] Goal[w] = "stop"   -> IF state \in {"PLANNED", "STOPPED"} THEN "STOPPED"
                                                                   ELSE "STOPPING"

(* A mutation of w is refused by reduce(), or has nothing to write.        *)
Refused(w, state) == Wanted(w, state) \notin Transitions[state]

WriteNext(w) == Len(log) + 1

(* Fault: on a collision the writer creates the record it first computed   *)
(* one sequence further instead of applying its mutation again.            *)
KeptOnCollision(w) == IF payload[w] = None THEN Wanted(w, Last(log)) ELSE payload[w]
Computed(w) == Wanted(w, Last(log))

(* update: list and read every object, check the chain, apply the mutation.*)
Read(w) ==
    /\ pc[w] = "idle"
    /\ LET state == Last(log) IN
       \/ /\ Refused(w, state)
          /\ pc' = [pc EXCEPT ![w] = "refused"]
          /\ UNCHANGED <<sequence, payload>>
       \/ /\ ~Refused(w, state)
          /\ Wanted(w, state) = state
          /\ pc' = [pc EXCEPT ![w] = "ok"]
          /\ UNCHANGED <<sequence, payload>>
       \/ /\ ~Refused(w, state)
          /\ Wanted(w, state) # state
          /\ pc' = [pc EXCEPT ![w] = "read"]
          /\ sequence' = [sequence EXCEPT ![w] = WriteNext(w)]
          /\ payload' = [payload EXCEPT ![w] = Computed(w)]
    /\ UNCHANGED <<log, collisions, late>>

(* Fault: an object that exists already counts as ours.                    *)
MineIfPresentFault(w) == sequence[w] <= Len(log)
(* The object a read receipt returns is byte for byte the one w wrote.     *)
Mine(w) == sequence[w] <= Len(log) /\ log[sequence[w]] = payload[w]

(* create answered: a new object, an identical one, or somebody else's.    *)
Create(w) ==
    /\ pc[w] = "read"
    /\ \/ /\ sequence[w] = Len(log) + 1
          /\ log' = Append(log, payload[w])
          /\ pc' = [pc EXCEPT ![w] = "ok"]
          /\ UNCHANGED collisions
       \/ /\ sequence[w] <= Len(log)
          /\ Mine(w)
          /\ pc' = [pc EXCEPT ![w] = "ok"]
          /\ UNCHANGED <<log, collisions>>
       \/ /\ sequence[w] <= Len(log)
          /\ ~Mine(w)
          /\ collisions' = [collisions EXCEPT ![w] = @ + 1]
          /\ pc' = [pc EXCEPT ![w] = IF collisions[w] + 1 = Tries THEN "contended" ELSE "idle"]
          /\ UNCHANGED log
    /\ UNCHANGED <<sequence, payload, late>>

(* The response of the creation is lost: the read receipt decides, and a   *)
(* request still on its way may be executed after the writer gave up.      *)
LoseResponse(w) ==
    /\ pc[w] = "read"
    /\ pc' = [pc EXCEPT ![w] = IF Mine(w) THEN "ok" ELSE "failed"]
    /\ late' = IF Mine(w) THEN late ELSE late \cup {<<sequence[w], payload[w]>>}
    /\ UNCHANGED <<log, sequence, payload, collisions>>

Arrive(c) ==
    /\ c \in late
    /\ late' = late \ {c}
    /\ log' = IF c[1] = Len(log) + 1 THEN Append(log, c[2]) ELSE log
    /\ UNCHANGED <<pc, sequence, payload, collisions>>

Next == \/ \E w \in Writers : Read(w) \/ Create(w) \/ LoseResponse(w)
        \/ \E c \in late : Arrive(c)

Spec == Init /\ [][Next]_vars
-----------------------------------------------------------------------------
TypeOK == /\ log \in Seq(States)
          /\ pc \in [Writers -> {"idle", "read", "ok", "refused", "failed", "contended"}]
          /\ sequence \in [Writers -> Nat]
          /\ payload \in [Writers -> States \cup {None}]
          /\ collisions \in [Writers -> 0..Tries]

(* Whatever the interleaving, the collisions and the late creations, the   *)
(* journal is a chain every reader accepts: reduce() never refuses it.     *)
ChainLegal == \A i \in 1..(Len(log) - 1) : log[i + 1] \in Transitions[log[i]]

(* An update that returned is in the journal: a stop reported as recorded  *)
(* is never lost, so nothing can be submitted after it.                    *)
ReportedIsRecorded ==
    \A w \in Writers : pc[w] = "ok" =>
        CASE Goal[w] = "submit" -> \E i \in 1..Len(log) : log[i] = "SUBMITTING"
          [] Goal[w] = "stop"   -> Last(log) \in {"STOPPING", "STOPPED"}

JournalSound == TypeOK /\ ChainLegal /\ ReportedIsRecorded

(* What the journal promises: a register that moves by one writer's        *)
(* mutation at a time.                                                     *)
Register == INSTANCE AtomicRegister WITH value <- Last(log)
ImplementsAtomicRegister == Register!Spec
=============================================================================
