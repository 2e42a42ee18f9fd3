--------------------------- MODULE PreviewsProofs ---------------------------
(***************************************************************************)
(* What the components of Previews keep: the file journals and the shared  *)
(* log, for every number of records, writers and collisions, then the      *)
(* executions and the write ledger, for every number of runs, attempts,    *)
(* slots and files.                                                        *)
(***************************************************************************)
EXTENDS Previews, FiniteSetTheorems, TLAPS

(* The file journals. *)

(* Records are numbered from one without a hole.                           *)
Numbered(S) == S = 1..Cardinality(S)

JournalTypes ==
  /\ Journals!TypeOK
  /\ torn \in [JournalNames -> BOOLEAN]
  /\ reported \in [JournalNames -> SUBSET Journals!Numbers]
  /\ restored \in BOOLEAN

(* What was reported is under the checkpoint, which has no hole.           *)
CheckpointCovers ==
  \A j \in JournalNames : reported[j] \subseteq checkpoint[j] /\ Numbered(checkpoint[j])

(* While the service runs the directory has the records of the checkpoint, *)
(* and all but the ledger may be ahead of it.                              *)
DirectoryCovers ==
  ~restored =>
    /\ \A j \in JournalNames : checkpoint[j] \subseteq records[j] /\ Numbered(records[j])
    /\ applied \subseteq records["control"]

(* Nothing appends and nothing is applied before recovery.                 *)
QuietWhileRestored ==
  restored => applied = {} /\ \A j \in JournalNames : appender[j] = "idle"

(* How far the append under way has come.                                  *)
AppendUnderWay ==
  \A j \in JournalNames :
    /\ appender[j] = "written" =>
         /\ Journals!Fresh(j) \in Journals!Numbers
         /\ j = "ledger" => records[j] = checkpoint[j]
    /\ appender[j] = "renamed" =>
         /\ Journals!Newest(j) \in records[j]
         /\ j = "ledger" => records[j] = checkpoint[j] \cup {Journals!Newest(j)}
    /\ appender[j] \in {"checked", "mutated"} =>
         /\ Journals!Newest(j) \in records[j]
         /\ records[j] = checkpoint[j]

JournalsInv == /\ JournalTypes
               /\ CheckpointCovers
               /\ DirectoryCovers
               /\ QuietWhileRestored
               /\ AppendUnderWay

(* FileJournals counts with the Cardinality of this module.                *)
LEMMA RecordsCardinality ==
  ASSUME NEW S PROVE Journals!Cardinality(S) = Cardinality(S)
  BY DEF Journals!Cardinality, Cardinality

(* One record more keeps the numbering.                                    *)
LEMMA NumberedGrows ==
  ASSUME NEW S \in SUBSET Journals!Numbers, Numbered(S)
  PROVE  /\ Cardinality(S) \in Nat
         /\ Numbered(S \cup {Cardinality(S) + 1})
         /\ Cardinality(S \cup {Cardinality(S) + 1}) = Cardinality(S) + 1
<1>1. IsFiniteSet(S) /\ Cardinality(S) \in Nat
  <2>1. MaxRecords \in Nat
    BY PreviewsAssumption
  <2>2. IsFiniteSet(Journals!Numbers)
    BY <2>1, FS_Interval DEF Journals!Numbers
  <2> QED BY <2>2, FS_Subset, FS_CardinalityType
<1> DEFINE n == Cardinality(S)
<1>2. S = 1..n
  BY DEF Numbered
<1>3. S \cup {n + 1} = 1..(n + 1)
  BY <1>1, <1>2
<1>4. n + 1 \notin S
  BY <1>1, <1>2
<1>5. Cardinality(S \cup {n + 1}) = n + 1
  BY <1>1, <1>4, FS_AddElement
<1> QED BY <1>1, <1>3, <1>5 DEF Numbered

LEMMA JournalsInit == Journals!Init => JournalsInv
<1> SUFFICES ASSUME Journals!Init PROVE JournalsInv
  OBVIOUS
<1>1. Cardinality({}) = 0 /\ 1..0 = {}
  BY FS_EmptySet
<1>2. \A j \in JournalNames : records[j] = {} /\ checkpoint[j] = {} /\ appender[j] = "idle"
  BY DEF Journals!Init
<1>3. JournalTypes
  BY DEF Journals!Init, JournalTypes, Journals!TypeOK, Journals!Steps
<1>4. CheckpointCovers /\ DirectoryCovers
  BY <1>1, <1>2 DEF Journals!Init, CheckpointCovers, DirectoryCovers, Numbered
<1>5. QuietWhileRestored /\ AppendUnderWay
  BY <1>2 DEF Journals!Init, QuietWhileRestored, AppendUnderWay
<1> QED BY <1>3, <1>4, <1>5 DEF JournalsInv

LEMMA WriteKeeps ==
  ASSUME JournalsInv, NEW j \in JournalNames, Journals!Write(j)
  PROVE  JournalsInv'
<1> USE DEF JournalsInv
<1>1. JournalTypes'
  BY DEF JournalTypes, Journals!TypeOK, Journals!Steps, Journals!Write
<1>2. CheckpointCovers' /\ DirectoryCovers' /\ QuietWhileRestored'
  BY DEF CheckpointCovers, DirectoryCovers, QuietWhileRestored, Numbered, Journals!Write
<1>3. AppendUnderWay'
  <2>1. j = "ledger" => records[j] = checkpoint[j]
    BY DEF Journals!Write, Journals!Ready, Journals!Readable
  <2> QED BY <2>1 DEF AppendUnderWay, JournalTypes, Journals!TypeOK, Journals!Write,
                      Journals!Fresh, Journals!Newest
<1> QED BY <1>1, <1>2, <1>3

LEMMA RenameKeeps ==
  ASSUME JournalsInv, NEW j \in JournalNames, Journals!Rename(j)
  PROVE  JournalsInv'
<1> USE DEF JournalsInv
<1>1. ~restored /\ ~restored'
  BY DEF QuietWhileRestored, Journals!Rename, JournalTypes
<1>2. JournalTypes'
  BY DEF JournalTypes, Journals!TypeOK, Journals!Steps, Journals!Rename, AppendUnderWay
<1> DEFINE n == Cardinality(records[j])
<1>3. /\ n \in Nat
      /\ Numbered(records[j] \cup {n + 1})
      /\ Cardinality(records[j] \cup {n + 1}) = n + 1
  BY <1>1, NumberedGrows DEF JournalTypes, Journals!TypeOK, DirectoryCovers
<1>4. /\ records'[j] = records[j] \cup {n + 1}
      /\ \A i \in JournalNames \ {j} : records'[i] = records[i] /\ appender'[i] = appender[i]
      /\ appender'[j] = "renamed"
  BY RecordsCardinality DEF Journals!Rename, Journals!Fresh, JournalTypes, Journals!TypeOK
<1>5. CheckpointCovers'
  BY DEF CheckpointCovers, Numbered, Journals!Rename
<1>6. DirectoryCovers'
  BY <1>1, <1>3, <1>4 DEF DirectoryCovers, Numbered, Journals!Rename, JournalNames
<1>7. QuietWhileRestored'
  BY <1>1 DEF QuietWhileRestored
<1>8. AppendUnderWay'
  <2>1. Journals!Newest(j)' = n + 1
    BY <1>3, <1>4, RecordsCardinality DEF Journals!Newest
  <2>2. \A i \in JournalNames \ {j} : Journals!Newest(i)' = Journals!Newest(i)
                                      /\ Journals!Fresh(i)' = Journals!Fresh(i)
    BY <1>4 DEF Journals!Newest, Journals!Fresh
  <2>3. checkpoint' = checkpoint
    BY DEF Journals!Rename
  <2>4. j = "ledger" => records[j] = checkpoint[j]
    BY DEF Journals!Rename, AppendUnderWay
  <2> QED BY <1>4, <2>1, <2>2, <2>3, <2>4 DEF AppendUnderWay
<1> QED BY <1>2, <1>5, <1>6, <1>7, <1>8

LEMMA WriteCheckpointKeeps ==
  ASSUME JournalsInv, NEW j \in JournalNames, Journals!WriteCheckpoint(j)
  PROVE  JournalsInv'
<1> USE DEF JournalsInv
<1>1. ~restored /\ ~restored'
  BY DEF QuietWhileRestored, Journals!WriteCheckpoint, JournalTypes
<1>2. checkpoint' = [checkpoint EXCEPT ![j] = records[j]]
  <2>1. CASE j = "control"
    BY <2>1 DEF Journals!WriteCheckpoint
  <2>2. CASE j = "ledger"
    <3>1. records[j] = checkpoint[j] \cup {Journals!Newest(j)}
      BY <2>2 DEF AppendUnderWay, Journals!WriteCheckpoint
    <3> QED BY <2>2, <3>1 DEF Journals!WriteCheckpoint
  <2> QED BY <2>1, <2>2 DEF JournalNames
<1>3. JournalTypes'
  BY <1>2 DEF JournalTypes, Journals!TypeOK, Journals!Steps, Journals!WriteCheckpoint
<1>4. CheckpointCovers'
  BY <1>1, <1>2 DEF CheckpointCovers, DirectoryCovers, JournalTypes, Journals!TypeOK, Numbered,
                    Journals!WriteCheckpoint
<1>5. DirectoryCovers' /\ QuietWhileRestored'
  BY <1>1, <1>2 DEF DirectoryCovers, QuietWhileRestored, JournalTypes, Journals!TypeOK, Numbered,
                    Journals!WriteCheckpoint
<1>6. AppendUnderWay'
  BY <1>2 DEF AppendUnderWay, JournalTypes, Journals!TypeOK, Journals!WriteCheckpoint,
              Journals!Fresh, Journals!Newest
<1> QED BY <1>3, <1>4, <1>5, <1>6

LEMMA ReturnKeeps ==
  ASSUME JournalsInv, NEW j \in JournalNames, Journals!Return(j)
  PROVE  JournalsInv'
<1> USE DEF JournalsInv
<1>1. ~restored /\ ~restored'
  BY DEF QuietWhileRestored, Journals!Return, Journals!Reports, JournalTypes
<1>2. Journals!Newest(j) \in checkpoint[j]
  BY DEF Journals!Return, Journals!Reports, AppendUnderWay
<1>3. JournalTypes'
  BY <1>2 DEF JournalTypes, Journals!TypeOK, Journals!Steps, Journals!Return
<1>4. CheckpointCovers'
  BY <1>2 DEF CheckpointCovers, JournalTypes, Numbered, Journals!Return
<1>5. DirectoryCovers' /\ QuietWhileRestored'
  BY <1>1 DEF DirectoryCovers, QuietWhileRestored, Numbered, Journals!Return
<1>6. AppendUnderWay'
  BY DEF AppendUnderWay, JournalTypes, Journals!TypeOK, Journals!Return, Journals!Reports,
         Journals!Fresh, Journals!Newest
<1> QED BY <1>3, <1>4, <1>5, <1>6

LEMMA TransactKeeps ==
  ASSUME JournalsInv, Journals!Transact
  PROVE  JournalsInv'
<1> USE DEF JournalsInv
<1>1. "control" \in JournalNames
  BY DEF JournalNames
<1>2. ~restored /\ ~restored' /\ Journals!Newest("control") \in records["control"]
  BY <1>1 DEF QuietWhileRestored, AppendUnderWay, Journals!Transact, JournalTypes
<1>3. JournalTypes'
  BY <1>1, <1>2 DEF JournalTypes, Journals!TypeOK, Journals!Steps, Journals!Transact
<1>4. CheckpointCovers' /\ DirectoryCovers' /\ QuietWhileRestored'
  BY <1>2 DEF CheckpointCovers, DirectoryCovers, QuietWhileRestored, Numbered, Journals!Transact
<1>5. AppendUnderWay'
  BY DEF AppendUnderWay, JournalTypes, Journals!TypeOK, Journals!Transact,
         Journals!Fresh, Journals!Newest
<1> QED BY <1>3, <1>4, <1>5

(* A death, or an exception: the append is forgotten.                      *)
LEMMA CrashKeeps ==
  ASSUME JournalsInv, NEW j \in JournalNames, Journals!Crash(j)
  PROVE  JournalsInv'
<1> USE DEF JournalsInv
<1>1. JournalTypes'
  BY DEF JournalTypes, Journals!TypeOK, Journals!Steps, Journals!Crash
<1>2. CheckpointCovers' /\ DirectoryCovers'
  BY DEF CheckpointCovers, DirectoryCovers, Numbered, Journals!Crash
<1>3. QuietWhileRestored' /\ AppendUnderWay'
  BY DEF QuietWhileRestored, AppendUnderWay, JournalTypes, Journals!TypeOK, Journals!Crash,
         Journals!Fresh, Journals!Newest
<1> QED BY <1>1, <1>2, <1>3

LEMMA WriteFailsKeeps ==
  ASSUME JournalsInv, Journals!WriteFails
  PROVE  JournalsInv'
<1> USE DEF JournalsInv
<1>1. JournalTypes'
  BY DEF JournalTypes, Journals!TypeOK, Journals!Steps, Journals!WriteFails
<1>2. CheckpointCovers' /\ DirectoryCovers'
  BY DEF CheckpointCovers, DirectoryCovers, Numbered, Journals!WriteFails
<1>3. QuietWhileRestored' /\ AppendUnderWay'
  BY DEF QuietWhileRestored, AppendUnderWay, JournalTypes, Journals!TypeOK, Journals!WriteFails,
         Journals!Fresh, Journals!Newest
<1> QED BY <1>1, <1>2, <1>3

(* A replica without some records: nothing runs until it is complete.      *)
LEMMA JournalRestoreKeeps ==
  ASSUME JournalsInv, NEW j \in JournalNames, NEW lost, Journals!Restore(j, lost)
  PROVE  JournalsInv'
<1> USE DEF JournalsInv
<1>1. restored' /\ \A i \in JournalNames : appender'[i] = "idle"
  BY DEF Journals!Restore
<1>2. JournalTypes'
  BY DEF JournalTypes, Journals!TypeOK, Journals!Steps, Journals!Restore
<1>3. CheckpointCovers' /\ DirectoryCovers'
  BY <1>1 DEF CheckpointCovers, DirectoryCovers, Numbered, Journals!Restore
<1>4. QuietWhileRestored' /\ AppendUnderWay'
  BY <1>1 DEF QuietWhileRestored, AppendUnderWay, Journals!Restore
<1> QED BY <1>2, <1>3, <1>4

LEMMA RecoverKeeps ==
  ASSUME JournalsInv, Journals!Recover
  PROVE  JournalsInv'
<1> USE DEF JournalsInv
<1>1. \A j \in JournalNames : records[j] = checkpoint[j] /\ appender[j] = "idle"
  BY DEF Journals!Recover, Journals!RecoveryAllowed, Journals!Readable, QuietWhileRestored
<1>2. JournalTypes'
  BY DEF JournalTypes, Journals!TypeOK, Journals!Recover, JournalNames
<1>3. CheckpointCovers' /\ DirectoryCovers'
  BY <1>1 DEF CheckpointCovers, DirectoryCovers, Numbered, Journals!Recover
<1>4. QuietWhileRestored' /\ AppendUnderWay'
  BY <1>1 DEF QuietWhileRestored, AppendUnderWay, Journals!Recover
<1> QED BY <1>2, <1>3, <1>4

LEMMA JournalsStep ==
  ASSUME JournalsInv, [Journals!Next]_journalVars
  PROVE  JournalsInv'
<1>1. CASE Journals!Next
  BY <1>1, WriteKeeps, RenameKeeps, WriteCheckpointKeeps, ReturnKeeps, TransactKeeps,
     CrashKeeps, WriteFailsKeeps, JournalRestoreKeeps, RecoverKeeps DEF Journals!Next
<1>2. CASE UNCHANGED journalVars
  BY <1>2 DEF journalVars, JournalsInv, JournalTypes, Journals!TypeOK, CheckpointCovers,
     DirectoryCovers, QuietWhileRestored, AppendUnderWay, Numbered, Journals!Fresh,
     Journals!Newest
<1> QED BY <1>1, <1>2

(* A step of the composition is a step of each component, or leaves it be. *)
LEMMA StepOfJournals == [Next]_vars => [Journals!Next]_journalVars
  BY DEF Next, vars, JournalMoves, LogMoves, ExecutionMoves, WriteMoves, journalVars

THEOREM JournalsInvHolds == Spec => []JournalsInv
<1>1. Init => JournalsInv
  BY JournalsInit DEF Init
<1>2. JournalsInv /\ [Next]_vars => JournalsInv'
  BY JournalsStep, StepOfJournals
<1> QED BY <1>1, <1>2, PTL DEF Spec

(* FileJournals: a journal that can be read has every record whose append  *)
(* returned, and what the database applied is in the journal.              *)
THEOREM JournalsSoundHolds == Spec => []JournalsSound
<1>1. JournalsInv => JournalsSound
  <2> SUFFICES ASSUME JournalsInv PROVE JournalsSound
    OBVIOUS
  <2>1. Journals!TypeOK
    BY DEF JournalsInv, JournalTypes
  <2>2. Journals!ReadableIsComplete
    BY DEF JournalsInv, CheckpointCovers, Journals!ReadableIsComplete, Journals!Readable
  <2>3. Journals!AppliedIsReported
    BY DEF JournalsInv, DirectoryCovers, QuietWhileRestored, Journals!AppliedIsReported
  <2> QED BY <2>1, <2>2, <2>3 DEF JournalsSound, Journals!JournalsSound
<1> QED BY <1>1, JournalsInvHolds, PTL

(* apply_restore_controls: a service that runs again after a restore has   *)
(* applied every intent whose append ever returned.                        *)
THEOREM RecoveryIsCompleteHolds == Spec => RecoveryIsComplete
<1>1. JournalsInv /\ [Next]_vars
        => [restored /\ ~restored' => reported["control"] \subseteq applied']_journalVars
  <2> SUFFICES ASSUME JournalsInv, Journals!Next, restored, ~restored'
               PROVE  reported["control"] \subseteq applied'
    BY StepOfJournals DEF journalVars
  <2>1. Journals!Recover
    BY DEF Journals!Next, Journals!Write, Journals!Rename, Journals!WriteCheckpoint,
           Journals!Return, Journals!Crash, Journals!Restore, Journals!Transact,
           Journals!WriteFails
  <2>2. "control" \in JournalNames
    BY DEF JournalNames
  <2>3. reported["control"] \subseteq checkpoint["control"]
    BY <2>2 DEF JournalsInv, CheckpointCovers
  <2> QED BY <2>1, <2>2, <2>3 DEF Journals!Recover, Journals!RecoveryAllowed, Journals!Readable
<1>2. QED
  BY <1>1, JournalsInvHolds, PTL
     DEF Spec, RecoveryIsComplete, Journals!RecoveryIsComplete, Journals!vars, journalVars
-----------------------------------------------------------------------------
(* The shared log. *)

(* What one writer's mutation may make of a record.                        *)
Move(goal, old, new) ==
  \/ goal = "submit" /\ old = "PLANNED" /\ new = "SUBMITTING"
  \/ goal = "stop" /\ old = "PLANNED" /\ new = "STOPPED"
  \/ goal = "stop" /\ old = "SUBMITTING" /\ new = "STOPPING"

LogTypes ==
  /\ Log!TypeOK
  /\ Len(log) \in Nat \ {0}
  /\ late \subseteq Nat \X Log!States
  /\ \A w \in Writers : pc[w] \in {"idle", "read"} => collisions[w] # Tries

(* Every record is a mutation of the one before it.                        *)
ChainOfMoves ==
  \A i \in 1..(Len(log) - 1) : \E w \in Writers : Move(Goal[w], log[i], log[i + 1])

(* A record that is still to be created is a mutation of the record that   *)
(* will stand, or stands already, before it.                               *)
Follows(chain, goal, number, record) ==
  number \in 2..(Len(chain) + 1) /\ Move(goal, chain[number - 1], record)

CreationsFollow ==
  /\ \A w \in Writers : pc[w] = "read" => Follows(log, Goal[w], sequence[w], payload[w])
  /\ \A c \in late : \E w \in Writers : Follows(log, Goal[w], c[1], c[2])

HasRecorded(chain, goal) ==
  \/ goal = "submit" /\ \E i \in 1..Len(chain) : chain[i] = "SUBMITTING"
  \/ goal = "stop" /\ Log!Last(chain) \in {"STOPPING", "STOPPED"}

ReportedIsInLog == \A w \in Writers : pc[w] = "ok" => HasRecorded(log, Goal[w])

LogInv == LogTypes /\ ChainOfMoves /\ CreationsFollow /\ ReportedIsInLog

LEMMA LogInit == Log!Init => LogInv
<1> SUFFICES ASSUME Log!Init PROVE LogInv
  OBVIOUS
<1>1. log = <<"PLANNED">> /\ Len(log) = 1 /\ log \in Seq(Log!States)
  BY DEF Log!Init, Log!States
<1>2. LogTypes
  <2>1. 0 \in 0..Tries /\ 0 # Tries
    BY PreviewsAssumption
  <2> QED BY <1>1, <2>1 DEF Log!Init, LogTypes, Log!TypeOK
<1>3. ChainOfMoves /\ CreationsFollow /\ ReportedIsInLog
  BY <1>1 DEF Log!Init, ChainOfMoves, CreationsFollow, ReportedIsInLog
<1> QED BY <1>2, <1>3 DEF LogInv

(* A record that follows and is appended extends the chain, and leaves     *)
(* every other pending creation where it was.                              *)
LEMMA AppendFollows ==
  ASSUME LogInv, NEW w \in Writers, NEW p \in Log!States,
         Follows(log, Goal[w], Len(log) + 1, p), log' = Append(log, p)
  PROVE  /\ log' \in Seq(Log!States) /\ Len(log') = Len(log) + 1
         /\ \A i \in 1..Len(log) : log'[i] = log[i]
         /\ Log!Last(log') = p
         /\ ChainOfMoves'
         /\ \A goal, number, record :
              Follows(log, goal, number, record) => Follows(log', goal, number, record)
<1>1. log \in Seq(Log!States) /\ Len(log) \in Nat \ {0}
  BY DEF LogInv, LogTypes, Log!TypeOK
<1>2. /\ log' \in Seq(Log!States) /\ Len(log') = Len(log) + 1
      /\ \A i \in 1..Len(log) : log'[i] = log[i]
      /\ log'[Len(log) + 1] = p
  BY <1>1
<1>3. Log!Last(log') = p
  BY <1>2 DEF Log!Last
<1>4. ChainOfMoves'
  <2> SUFFICES ASSUME NEW i \in 1..Len(log)
               PROVE  \E v \in Writers : Move(Goal[v], log'[i], log'[i + 1])
    BY <1>1, <1>2 DEF ChainOfMoves
  <2>1. CASE i = Len(log)
    <3>1. Move(Goal[w], log[i], p)
      BY <1>1, <2>1 DEF Follows
    <3> QED BY <1>1, <1>2, <2>1, <3>1
  <2>2. CASE i # Len(log)
    <3>1. i \in 1..(Len(log) - 1) /\ i + 1 \in 1..Len(log)
      BY <1>1, <2>2
    <3>2. \E v \in Writers : Move(Goal[v], log[i], log[i + 1])
      BY <3>1 DEF LogInv, ChainOfMoves
    <3> QED BY <1>2, <3>1, <3>2
  <2> QED BY <2>1, <2>2
<1>5. ASSUME NEW goal, NEW number, NEW record, Follows(log, goal, number, record)
      PROVE  Follows(log', goal, number, record)
  <2>1. number \in 2..(Len(log') + 1) /\ number - 1 \in 1..Len(log)
    BY <1>1, <1>2, <1>5 DEF Follows
  <2> QED BY <1>2, <1>5, <2>1 DEF Follows
<1> QED BY <1>2, <1>3, <1>4, <1>5

(* Nothing follows a record that stops, so a stop is always the last one.  *)
LEMMA StopsAreLast ==
  ASSUME LogInv, NEW i \in 1..Len(log), log[i] \in {"STOPPING", "STOPPED"}
  PROVE  i = Len(log)
<1>1. Len(log) \in Nat \ {0}
  BY DEF LogInv, LogTypes
<1> SUFFICES ASSUME i \in 1..(Len(log) - 1) PROVE FALSE
  BY <1>1
<1>2. PICK w \in Writers : Move(Goal[w], log[i], log[i + 1])
  BY DEF LogInv, ChainOfMoves
<1> QED BY <1>2 DEF Move

(* An update that is in the log counts as reported, for either goal.       *)
LEMMA RecordedIsReported ==
  ASSUME LogInv, NEW w \in Writers, NEW i \in 1..Len(log),
         \/ Goal[w] = "submit" /\ log[i] = "SUBMITTING"
         \/ Goal[w] = "stop" /\ log[i] \in {"STOPPING", "STOPPED"}
  PROVE  HasRecorded(log, Goal[w])
<1>1. CASE Goal[w] = "submit"
  BY <1>1 DEF HasRecorded
<1>2. CASE Goal[w] = "stop"
  BY <1>2, StopsAreLast DEF Log!Last, HasRecorded
<1> QED BY <1>1, <1>2

LEMMA ReadKeeps ==
  ASSUME LogInv, NEW w \in Writers, Log!Read(w)
  PROVE  LogInv'
<1> DEFINE state == Log!Last(log)
<1>1. /\ log \in Seq(Log!States) /\ Len(log) \in Nat \ {0}
      /\ state = log[Len(log)] /\ state \in Log!States
  BY DEF LogInv, LogTypes, Log!TypeOK, Log!Last
<1>2. Goal[w] \in {"submit", "stop"}
  BY PreviewsAssumption
<1>3. /\ log' = log /\ late' = late /\ collisions' = collisions
      /\ pc' = [pc EXCEPT ![w] = pc'[w]]
      /\ sequence' = [sequence EXCEPT ![w] = sequence'[w]]
      /\ payload' = [payload EXCEPT ![w] = payload'[w]]
      /\ pc'[w] \in {"refused", "ok", "read"}
      /\ pc'[w] = "ok" => state = Log!Wanted(w, state)
      /\ pc'[w] = "read" => /\ sequence'[w] = Len(log) + 1
                            /\ payload'[w] = Log!Wanted(w, state)
                            /\ payload'[w] \in Log!Transitions[state]
                            /\ payload'[w] # state
      /\ pc'[w] # "read" => UNCHANGED <<sequence, payload>>
      /\ pc[w] = "idle"
  BY DEF Log!Read, Log!Refused, Log!WriteNext, Log!Computed, LogInv, LogTypes, Log!TypeOK
<1> HIDE DEF state
<1>4. Log!Wanted(w, state) \in Log!States
  BY <1>2 DEF Log!Wanted, Log!States
<1>5. LogTypes'
  <2> USE DEF LogInv, LogTypes, Log!TypeOK
  <2>1. pc' \in [Writers -> {"idle", "read", "ok", "refused", "failed", "contended"}]
    BY ZenonT(40), <1>3
  <2>2. sequence' \in [Writers -> Nat] /\ payload' \in [Writers -> Log!States \cup {Log!None}]
    <3>1. CASE pc'[w] = "read"
      <4>1. sequence'[w] \in Nat /\ payload'[w] \in Log!States
        BY <1>1, <1>3, <1>4, <3>1
      <4> QED BY <1>3, <4>1
    <3>2. CASE pc'[w] # "read"
      BY <1>3, <3>2
    <3> QED BY <3>1, <3>2
  <2>3. \A v \in Writers : pc'[v] \in {"idle", "read"} => collisions'[v] # Tries
    BY <1>3
  <2> QED BY <1>3, <2>1, <2>2, <2>3
<1>6. ChainOfMoves'
  BY <1>3 DEF LogInv, ChainOfMoves
<1>7. pc'[w] = "read" => Follows(log, Goal[w], Len(log) + 1, payload'[w])
  <2> SUFFICES ASSUME pc'[w] = "read" PROVE Move(Goal[w], state, payload'[w])
    BY <1>1 DEF Follows
  <2>1. payload'[w] = Log!Wanted(w, state) /\ payload'[w] \in Log!Transitions[state]
        /\ payload'[w] # state
    BY <1>3
  <2>2. CASE Goal[w] = "submit"
    BY <1>1, <2>1, <2>2 DEF Log!Wanted, Log!Transitions, Log!States, Move
  <2>3. CASE Goal[w] = "stop"
    BY <1>1, <2>1, <2>3 DEF Log!Wanted, Log!Transitions, Log!States, Move
  <2> QED BY <1>2, <2>2, <2>3
<1>8. CreationsFollow'
  BY <1>3, <1>7 DEF LogInv, LogTypes, Log!TypeOK, CreationsFollow, Follows
<1>9. ReportedIsInLog'
  <2>1. ASSUME pc'[w] = "ok"
        PROVE  HasRecorded(log, Goal[w])
    <3>1. \/ Goal[w] = "submit" /\ state = "SUBMITTING"
          \/ Goal[w] = "stop" /\ state \in {"STOPPING", "STOPPED"}
      BY <1>2, <1>3, <2>1 DEF Log!Wanted
    <3>2. /\ Len(log) \in 1..Len(log)
          /\ \/ Goal[w] = "submit" /\ log[Len(log)] = "SUBMITTING"
             \/ Goal[w] = "stop" /\ log[Len(log)] \in {"STOPPING", "STOPPED"}
      BY <1>1, <3>1
    <3> QED BY ONLY LogInv, <3>2, RecordedIsReported
  <2> QED BY <1>3, <2>1 DEF LogInv, LogTypes, Log!TypeOK, ReportedIsInLog
<1> QED BY <1>5, <1>6, <1>8, <1>9 DEF LogInv

(* What appending a record that follows does to the writers that had       *)
(* already heard of success, or are still to create theirs.                *)
LEMMA AppendKeeps ==
  ASSUME LogInv, NEW w \in Writers, NEW p \in Log!States,
         Follows(log, Goal[w], Len(log) + 1, p), log' = Append(log, p),
         UNCHANGED <<sequence, payload>>,
         NEW v \in Writers, pc'[v] = pc[v]
  PROVE  /\ pc'[v] = "read" => Follows(log', Goal[v], sequence'[v], payload'[v])
         /\ pc'[v] = "ok" => HasRecorded(log', Goal[v])
<1>1. /\ Len(log') = Len(log) + 1 /\ Len(log) \in Nat \ {0}
      /\ \A i \in 1..Len(log) : log'[i] = log[i]
      /\ Log!Last(log') = p
  BY AppendFollows DEF LogInv, LogTypes
<1>2. pc'[v] = "read" => Follows(log', Goal[v], sequence'[v], payload'[v])
  <2> SUFFICES ASSUME pc[v] = "read" PROVE Follows(log', Goal[v], sequence[v], payload[v])
    OBVIOUS
  <2>1. Follows(log, Goal[v], sequence[v], payload[v])
    BY DEF LogInv, CreationsFollow
  <2> QED BY <2>1, AppendFollows
<1>3. ASSUME pc'[v] = "ok"
      PROVE  HasRecorded(log', Goal[v])
  <2>1. CASE Goal[v] = "submit"
    <3>1. PICK k \in 1..Len(log) : log[k] = "SUBMITTING"
      BY <1>3, <2>1 DEF LogInv, ReportedIsInLog, HasRecorded
    <3> QED BY <1>1, <2>1, <3>1 DEF HasRecorded
  <2>2. CASE Goal[v] = "stop"
    <3>1. Log!Last(log) \in {"STOPPING", "STOPPED"}
      BY <1>3, <2>2 DEF LogInv, ReportedIsInLog, HasRecorded
    <3>2. Move(Goal[w], Log!Last(log), p)
      BY <1>1 DEF Follows, Log!Last
    <3> QED BY <3>1, <3>2 DEF Move
  <2> QED BY <2>1, <2>2, PreviewsAssumption
<1> QED BY <1>2, <1>3

LEMMA LogCreateKeeps ==
  ASSUME LogInv, NEW w \in Writers, Log!Create(w)
  PROVE  LogInv'
<1> DEFINE k == sequence[w]
           p == payload[w]
<1>1. /\ log \in Seq(Log!States) /\ Len(log) \in Nat \ {0}
      /\ late' = late /\ sequence' = sequence /\ payload' = payload
      /\ pc[w] = "read" /\ Follows(log, Goal[w], k, p) /\ Goal[w] \in {"submit", "stop"}
  BY PreviewsAssumption DEF LogInv, LogTypes, Log!TypeOK, Log!Create, CreationsFollow
<1>2. p \in {"SUBMITTING", "STOPPING", "STOPPED"} /\ p \in Log!States
  BY <1>1 DEF Follows, Move, Log!States
<1>3. \/ Goal[w] = "submit" /\ p = "SUBMITTING"
      \/ Goal[w] = "stop" /\ p \in {"STOPPING", "STOPPED"}
  BY <1>1 DEF Follows, Move
<1> HIDE DEF k, p
<1>4. CASE k = Len(log) + 1 /\ log' = Append(log, p) /\ pc' = [pc EXCEPT ![w] = "ok"]
           /\ collisions' = collisions
  <2>1. /\ log' \in Seq(Log!States) /\ Len(log') = Len(log) + 1
        /\ Log!Last(log') = p /\ ChainOfMoves'
        /\ \A goal, number, record :
             Follows(log, goal, number, record) => Follows(log', goal, number, record)
    BY <1>1, <1>2, <1>4, AppendFollows
  <2>2. LogTypes'
    BY <1>1, <1>4, <2>1 DEF LogInv, LogTypes, Log!TypeOK
  <2>3. CreationsFollow'
    BY <1>1, <1>4, <2>1 DEF LogInv, LogTypes, Log!TypeOK, CreationsFollow
  <2>4. log'[Len(log) + 1] = p /\ Len(log) + 1 \in 1..Len(log')
    BY <1>1, <1>4, <2>1
  <2>5. ReportedIsInLog'
    <3> SUFFICES ASSUME NEW v \in Writers, pc'[v] = "ok"
                 PROVE  HasRecorded(log', Goal[v])
      BY DEF ReportedIsInLog
    <3>1. CASE v = w
      <4>1. CASE Goal[v] = "submit"
        BY <1>3, <2>4, <3>1, <4>1 DEF HasRecorded
      <4>2. CASE Goal[v] = "stop"
        BY <1>3, <2>1, <3>1, <4>2 DEF HasRecorded
      <4> QED BY <1>1, <3>1, <4>1, <4>2
    <3>2. CASE v # w
      <4>1. pc'[v] = pc[v]
        BY <1>4, <3>2 DEF LogInv, LogTypes, Log!TypeOK
      <4> QED BY <1>1, <1>2, <1>4, <4>1, AppendKeeps
    <3> QED BY <3>1, <3>2
  <2> QED BY <2>1, <2>2, <2>3, <2>5 DEF LogInv
<1>5. CASE k <= Len(log) /\ Log!Mine(w) /\ pc' = [pc EXCEPT ![w] = "ok"]
           /\ UNCHANGED <<log, collisions>>
  <2>1. LogTypes' /\ ChainOfMoves' /\ CreationsFollow'
    BY <1>1, <1>5 DEF LogInv, LogTypes, Log!TypeOK, ChainOfMoves, CreationsFollow
  <2>2. k \in 1..Len(log) /\ log[k] = p
    BY <1>1, <1>5 DEF Log!Mine, Follows, k, p
  <2>3. HasRecorded(log, Goal[w])
    BY <1>3, <2>2, RecordedIsReported
  <2>4. ReportedIsInLog'
    BY <1>5, <2>3 DEF LogInv, LogTypes, Log!TypeOK, ReportedIsInLog
  <2> QED BY <2>1, <2>4 DEF LogInv
<1>6. CASE /\ collisions' = [collisions EXCEPT ![w] = @ + 1]
           /\ pc' = [pc EXCEPT ![w] = IF collisions[w] + 1 = Tries THEN "contended" ELSE "idle"]
           /\ log' = log
  <2>1. collisions[w] \in 0..Tries /\ collisions[w] # Tries
    BY <1>1 DEF LogInv, LogTypes, Log!TypeOK
  <2>2. collisions[w] + 1 \in 0..Tries
    BY <2>1, PreviewsAssumption
  <2>3. LogTypes'
    BY <1>1, <1>6, <2>2 DEF LogInv, LogTypes, Log!TypeOK
  <2>4. ChainOfMoves' /\ CreationsFollow' /\ ReportedIsInLog'
    BY <1>1, <1>6 DEF LogInv, LogTypes, Log!TypeOK, ChainOfMoves, CreationsFollow,
                      ReportedIsInLog
  <2> QED BY <2>3, <2>4 DEF LogInv
<1> QED BY <1>4, <1>5, <1>6 DEF Log!Create, k, p

(* The receipt decides; a request that may still be executed is kept.      *)
LEMMA LoseResponseKeeps ==
  ASSUME LogInv, NEW w \in Writers, Log!LoseResponse(w)
  PROVE  LogInv'
<1>1. /\ log \in Seq(Log!States) /\ Len(log) \in Nat \ {0}
      /\ log' = log /\ sequence' = sequence /\ payload' = payload /\ collisions' = collisions
      /\ pc[w] = "read" /\ Follows(log, Goal[w], sequence[w], payload[w])
      /\ Goal[w] \in {"submit", "stop"}
  BY PreviewsAssumption DEF LogInv, LogTypes, Log!TypeOK, Log!LoseResponse, CreationsFollow
<1>2. /\ sequence[w] \in Nat /\ payload[w] \in Log!States
      /\ \/ Goal[w] = "submit" /\ payload[w] = "SUBMITTING"
         \/ Goal[w] = "stop" /\ payload[w] \in {"STOPPING", "STOPPED"}
  BY <1>1 DEF Follows, Move, Log!States, LogInv, LogTypes, Log!TypeOK
<1>3. CASE Log!Mine(w)
  <2>1. late' = late /\ pc' = [pc EXCEPT ![w] = "ok"]
    BY <1>3 DEF Log!LoseResponse
  <2>2. LogTypes' /\ ChainOfMoves' /\ CreationsFollow'
    BY <1>1, <2>1 DEF LogInv, LogTypes, Log!TypeOK, ChainOfMoves, CreationsFollow
  <2>3. sequence[w] \in 1..Len(log) /\ log[sequence[w]] = payload[w]
    BY <1>1, <1>3 DEF Log!Mine, Follows
  <2>4. HasRecorded(log, Goal[w])
    BY <1>2, <2>3, RecordedIsReported
  <2>5. ReportedIsInLog'
    BY <1>1, <2>1, <2>4 DEF LogInv, LogTypes, Log!TypeOK, ReportedIsInLog
  <2> QED BY <2>2, <2>5 DEF LogInv
<1>4. CASE ~Log!Mine(w)
  <2>1. late' = late \cup {<<sequence[w], payload[w]>>} /\ pc' = [pc EXCEPT ![w] = "failed"]
    BY <1>4 DEF Log!LoseResponse
  <2>2. LogTypes'
    BY <1>1, <1>2, <2>1 DEF LogInv, LogTypes, Log!TypeOK
  <2>3. CreationsFollow'
    BY <1>1, <2>1 DEF LogInv, LogTypes, Log!TypeOK, CreationsFollow
  <2>4. ChainOfMoves' /\ ReportedIsInLog'
    BY <1>1, <2>1 DEF LogInv, LogTypes, Log!TypeOK, ChainOfMoves, ReportedIsInLog
  <2> QED BY <2>2, <2>3, <2>4 DEF LogInv
<1> QED BY <1>3, <1>4

(* A late creation lands after the record it followed, or nowhere.         *)
LEMMA ArriveKeeps ==
  ASSUME LogInv, NEW c \in late, Log!Arrive(c)
  PROVE  LogInv'
<1>1. PICK w \in Writers : Follows(log, Goal[w], c[1], c[2])
  BY DEF LogInv, CreationsFollow
<1>2. /\ log \in Seq(Log!States) /\ Len(log) \in Nat \ {0}
      /\ c[2] \in Log!States /\ late' \subseteq late
      /\ UNCHANGED <<pc, sequence, payload, collisions>>
  BY DEF LogInv, LogTypes, Log!TypeOK, Log!Arrive
<1>3. CASE c[1] = Len(log) + 1
  <2>1. log' = Append(log, c[2])
    BY <1>3 DEF Log!Arrive
  <2>2. /\ log' \in Seq(Log!States) /\ Len(log') = Len(log) + 1 /\ ChainOfMoves'
        /\ \A goal, number, record :
             Follows(log, goal, number, record) => Follows(log', goal, number, record)
    BY <1>1, <1>2, <1>3, <2>1, AppendFollows
  <2>3. LogTypes'
    BY <1>2, <2>2 DEF LogInv, LogTypes, Log!TypeOK
  <2>4. CreationsFollow'
    BY <1>2, <2>2 DEF LogInv, CreationsFollow
  <2>5. ReportedIsInLog'
    <3> SUFFICES ASSUME NEW v \in Writers, pc'[v] = "ok"
                 PROVE  HasRecorded(log', Goal[v])
      BY DEF ReportedIsInLog
    <3> QED BY <1>1, <1>2, <1>3, <2>1, AppendKeeps
  <2> QED BY <2>2, <2>3, <2>4, <2>5 DEF LogInv
<1>4. CASE c[1] # Len(log) + 1
  <2>1. log' = log
    BY <1>4 DEF Log!Arrive
  <2> QED BY <1>2, <2>1 DEF LogInv, LogTypes, Log!TypeOK, ChainOfMoves, CreationsFollow,
                            ReportedIsInLog
<1> QED BY <1>3, <1>4

LEMMA LogStep ==
  ASSUME LogInv, [Log!Next]_logVars
  PROVE  LogInv'
<1>1. CASE Log!Next
  BY <1>1, ReadKeeps, LogCreateKeeps, LoseResponseKeeps, ArriveKeeps DEF Log!Next
<1>2. CASE UNCHANGED logVars
  BY <1>2 DEF logVars, LogInv, LogTypes, Log!TypeOK, ChainOfMoves, CreationsFollow,
              ReportedIsInLog
<1> QED BY <1>1, <1>2

LEMMA StepOfLog == [Next]_vars => [Log!Next]_logVars
  BY DEF Next, vars, JournalMoves, LogMoves, ExecutionMoves, WriteMoves, logVars

THEOREM LogInvHolds == Spec => []LogInv
<1>1. Init => LogInv
  BY LogInit DEF Init
<1>2. LogInv /\ [Next]_vars => LogInv'
  BY LogStep, StepOfLog
<1> QED BY <1>1, <1>2, PTL DEF Spec

(* cloud_journal.py: reduce() accepts every chain the writers can make,    *)
(* and an update that returned is in it.                                   *)
THEOREM JournalSoundHolds == Spec => []JournalSound
<1>1. LogInv => JournalSound
  <2> SUFFICES ASSUME LogInv PROVE JournalSound
    OBVIOUS
  <2>1. Log!TypeOK
    BY DEF LogInv, LogTypes
  <2>2. Log!ChainLegal
    <3> SUFFICES ASSUME NEW i \in 1..(Len(log) - 1)
                 PROVE  log[i + 1] \in Log!Transitions[log[i]]
      BY DEF Log!ChainLegal
    <3>1. PICK w \in Writers : Move(Goal[w], log[i], log[i + 1])
      BY DEF LogInv, ChainOfMoves
    <3> QED BY <3>1 DEF Move, Log!Transitions, Log!States
  <2>3. Log!ReportedIsRecorded
    <3> SUFFICES ASSUME NEW w \in Writers, pc[w] = "ok"
                 PROVE  /\ Goal[w] = "submit" => \E i \in 1..Len(log) : log[i] = "SUBMITTING"
                        /\ Goal[w] = "stop" => Log!Last(log) \in {"STOPPING", "STOPPED"}
      BY PreviewsAssumption DEF Log!ReportedIsRecorded
    <3> QED BY DEF LogInv, ReportedIsInLog, HasRecorded
  <2> QED BY <2>1, <2>2, <2>3 DEF JournalSound, Log!JournalSound
<1> QED BY <1>1, LogInvHolds, PTL

(* The object a step adds to the log is one mutation of its last object.   *)
LEMMA OneMutationAtATime ==
  ASSUME LogInv, Log!Next, log' # log
  PROVE  \E w \in Writers : Move(Goal[w], Log!Last(log), Log!Last(log'))
<1>1. Len(log) \in Nat \ {0} /\ log \in Seq(Log!States)
  BY DEF LogInv, LogTypes, Log!TypeOK
<1>2. ASSUME NEW w \in Writers, NEW p, log' = Append(log, p),
             Follows(log, Goal[w], Len(log) + 1, p)
      PROVE  Move(Goal[w], Log!Last(log), Log!Last(log'))
  BY <1>1, <1>2 DEF Follows, Log!Last, Move, Log!States
<1>3. ASSUME NEW w \in Writers, Log!Create(w) PROVE Move(Goal[w], Log!Last(log), Log!Last(log'))
  <2>1. log' = Append(log, payload[w]) /\ sequence[w] = Len(log) + 1 /\ pc[w] = "read"
    BY <1>3 DEF Log!Create
  <2> QED BY <1>2, <2>1 DEF LogInv, CreationsFollow
<1>4. ASSUME NEW c \in late, Log!Arrive(c)
      PROVE  \E w \in Writers : Move(Goal[w], Log!Last(log), Log!Last(log'))
  <2>1. log' = Append(log, c[2]) /\ c[1] = Len(log) + 1
    BY <1>4 DEF Log!Arrive
  <2>2. PICK w \in Writers : Follows(log, Goal[w], c[1], c[2])
    BY DEF LogInv, CreationsFollow
  <2> QED BY <1>2, <2>1, <2>2
<1>5. ASSUME NEW w \in Writers, Log!Read(w) \/ Log!LoseResponse(w) PROVE FALSE
  BY <1>5 DEF Log!Read, Log!LoseResponse
<1> QED BY <1>3, <1>4, <1>5 DEF Log!Next

(* What cloud_journal.py promises its callers: however writers interleave, *)
(* collide and lose answers, the log behaves as one register moved by one  *)
(* writer's complete mutation at a time.                                   *)
THEOREM ImplementsAtomicRegisterHolds == Spec => ImplementsAtomicRegister
<1>1. Init => Log!Last(log) = "PLANNED"
  BY DEF Init, Log!Init, Log!Last
<1>2. LogInv /\ [Next]_vars
        => [\E w \in Writers : Log!Register!Apply(Goal[w])]_(Log!Last(log))
  <2> SUFFICES ASSUME LogInv, [Next]_vars, Log!Last(log)' # Log!Last(log)
               PROVE  \E w \in Writers : Log!Register!Apply(Goal[w])
    OBVIOUS
  <2>1. Log!Last(log)' = Log!Last(log') /\ log' # log
    BY DEF Log!Last
  <2>2. Log!Next
    BY <2>1, StepOfLog DEF logVars
  <2>3. PICK w \in Writers : Move(Goal[w], Log!Last(log), Log!Last(log'))
    BY <2>1, <2>2, OneMutationAtATime
  <2> QED BY <2>1, <2>3 DEF Move, Log!Register!Apply
<1>3. QED
  BY <1>1, <1>2, LogInvHolds, PTL
     DEF Spec, ImplementsAtomicRegister, Log!ImplementsAtomicRegister, Log!Register!Spec
-----------------------------------------------------------------------------

(* The execution journal. *)

LauncherSteps == {"none", "plan", "submit", "create", "receipt", "rejected", "uncertain", "done"}
PassSteps == {"idle", "planned", "inspect", "mark", "delete", "prove", "ack"}
Bodies == {"none", "live", "ended", "deleting"}
PassRecord == [pc : PassSteps, stop : BOOLEAN, seen : Executions!Row, body : Bodies]

ExecutionTypes ==
  /\ Executions!TypeOK
  /\ launcher \in [Executions!Attempts -> LauncherSteps]
  /\ canceller \in [Runs -> {"idle", "rows"}]
  /\ pass \in [Executions!Attempts -> PassRecord]

(* A machine that may run has a row that says so.                          *)
MachineHasRow(a) ==
  Executions!MayRun(a) => row[a].state \in {"SUBMITTING", "ACTIVE", "STOPPING"}

(* A launcher that has not created anything yet, and never will twice.     *)
LauncherAhead(a) ==
  /\ launcher[a] = "plan" => row[a].state = "NONE" /\ slot[a] \in {"open", "stop"}
  /\ launcher[a] \in {"plan", "submit", "create", "rejected"} => vm[a] = "none"

(* What a pass has seen stopped is stopped.                                *)
PassIsRight(a) ==
  /\ pass[a].pc # "idle" /\ pass[a].seen.state = "STOPPED" => row[a].state = "STOPPED"
  /\ pass[a].pc = "ack" => row[a].state = "STOPPED"

(* A released slot is that of a stopped row or of a rejected launch.       *)
ReleasedForGood(a) ==
  slot[a] = "released" => \/ row[a].state = "STOPPED"
                          \/ launcher[a] = "done" /\ vm[a] = "none"

(* An attempt that was never claimed has left no trace.                    *)
Unclaimed(a) ==
  a[2] > run[a[1]].claims => /\ row[a].state = "NONE" /\ vm[a] = "none"
                             /\ launcher[a] = "none" /\ slot[a] = "none" /\ pass[a].pc = "idle"

AttemptInv(a) == /\ MachineHasRow(a)
                 /\ LauncherAhead(a)
                 /\ PassIsRight(a)
                 /\ ReleasedForGood(a)
                 /\ Unclaimed(a)

(* What holds capacity: an open slot, or a row that is not stopped.        *)
Holds(a) == slot[a] \in {"open", "stop"} \/ row[a].state \notin {"NONE", "STOPPED"}
HeldWithinLimit == Cardinality({a \in Executions!Attempts : Holds(a)}) <= SlotLimit

ExecutionsInv == /\ ExecutionTypes
                 /\ \A a \in Executions!Attempts : AttemptInv(a)
                 /\ HeldWithinLimit

LEMMA SameCardinality ==
  ASSUME NEW S PROVE Executions!Cardinality(S) = Cardinality(S)
  BY DEF Executions!Cardinality, Cardinality

LEMMA CardinalityOfUnion ==
  ASSUME NEW S, NEW T, IsFiniteSet(S), IsFiniteSet(T), S \cap T = {}
  PROVE  Cardinality(S \cup T) = Cardinality(S) + Cardinality(T)
<1> DEFINE both == S \cap T
           all == S \cup T
<1>1. Cardinality(both) = 0
  <2>1. Cardinality({}) = 0
    BY FS_EmptySet
  <2> QED BY <2>1
<1>2. Cardinality(S) \in Nat /\ Cardinality(T) \in Nat
  BY FS_CardinalityType
<1>3. Cardinality(all) = Cardinality(S) + Cardinality(T) - Cardinality(both)
  BY FS_Union
<1> HIDE DEF both, all
<1>4. Cardinality(all) = Cardinality(S) + Cardinality(T)
  BY <1>1, <1>2, <1>3
<1> QED BY <1>4 DEF all

LEMMA OneMore ==
  ASSUME NEW S, NEW T, NEW x, IsFiniteSet(S), T \subseteq S \cup {x}
  PROVE  /\ Cardinality(S) \in Nat /\ Cardinality(T) \in Nat
         /\ Cardinality(T) <= Cardinality(S) + 1
<1>1. IsFiniteSet(S \cup {x}) /\ Cardinality(S) \in Nat
  BY FS_AddElement, FS_CardinalityType
<1>2. Cardinality(S \cup {x}) \in {Cardinality(S), Cardinality(S) + 1}
  BY FS_AddElement
<1>3. IsFiniteSet(T) /\ Cardinality(T) <= Cardinality(S \cup {x})
  BY <1>1, FS_Subset
<1>4. Cardinality(T) \in Nat
  BY <1>3, FS_CardinalityType
<1> QED BY <1>1, <1>2, <1>3, <1>4

LEMMA AttemptsAreFinite == IsFiniteSet(Executions!Attempts)
<1>1. IsFiniteSet(Runs) /\ IsFiniteSet(1..MaxAttempts)
  BY PreviewsAssumption, FS_Interval
<1> QED BY <1>1, FS_Product DEF Executions!Attempts

LEMMA PairOfAttempt ==
  ASSUME NEW a \in Executions!Attempts
  PROVE  a[1] \in Runs /\ a[2] \in 1..MaxAttempts /\ a = <<a[1], a[2]>>
  BY DEF Executions!Attempts

(* The components of a state, attempt by attempt.                          *)
LEMMA TypesOf ==
  ASSUME ExecutionTypes, NEW a \in Executions!Attempts
  PROVE  /\ row[a] \in Executions!Row /\ row[a].state \in Executions!RowState
         /\ slot[a] \in {"none", "open", "stop", "released"}
         /\ vm[a] \in {"none", "requested", "live", "ended", "deleting", "gone"}
         /\ launcher[a] \in LauncherSteps
         /\ pass[a] \in PassRecord
         /\ pass[a].pc \in PassSteps /\ pass[a].seen \in Executions!Row
         /\ run[a[1]].claims \in 0..MaxAttempts /\ run[a[1]].current \in 0..MaxAttempts
  BY PairOfAttempt DEF ExecutionTypes, Executions!TypeOK, Executions!Row, PassRecord

(* What the journal's transitions and tombstones let an update make of a   *)
(* row.                                                                    *)
LEMMA AcceptedUpdates ==
  ASSUME ExecutionTypes, NEW a \in Executions!Attempts, NEW new, Executions!Accepts(a, new)
  PROVE  /\ new.state = "SUBMITTING" =>
              row[a].state \in {"PLANNED", "SUBMITTING"} /\ a[1] \notin tombs
         /\ new.state = "STOPPING" => row[a].state \in {"SUBMITTING", "ACTIVE", "STOPPING"}
         /\ row[a].state = "STOPPED" => new.state = "STOPPED"
         /\ row[a].state = "NONE" => new.state = "PLANNED"
         /\ new.state \in Executions!RowState
<1>1. row[a].state \in Executions!RowState
  BY TypesOf
<1> QED BY <1>1 DEF Executions!Accepts, Executions!Transitions, Executions!RowState

(* The parts of the state one attempt's invariant depends on.              *)
Same(a) == /\ row'[a] = row[a] /\ vm'[a] = vm[a] /\ slot'[a] = slot[a]
           /\ launcher'[a] = launcher[a] /\ pass'[a] = pass[a]
           /\ run'[a[1]].claims = run[a[1]].claims

Kept == /\ \A a \in Executions!Attempts : AttemptInv(a)'
        /\ \A a \in Executions!Attempts : Holds(a)' => Holds(a)

LEMMA SameKeeps ==
  ASSUME NEW a, AttemptInv(a), Same(a)
  PROVE  AttemptInv(a)' /\ (Holds(a)' => Holds(a))
<1> USE DEF Same
<1>1. MachineHasRow(a)' /\ LauncherAhead(a)'
  BY DEF AttemptInv, MachineHasRow, LauncherAhead, Executions!MayRun
<1>2. PassIsRight(a)' /\ ReleasedForGood(a)' /\ Unclaimed(a)'
  BY DEF AttemptInv, PassIsRight, ReleasedForGood, Unclaimed
<1> QED BY <1>1, <1>2 DEF AttemptInv, Holds

(* A step that touches one attempt.                                        *)
LEMMA OneAttempt ==
  ASSUME ExecutionsInv, NEW a \in Executions!Attempts,
         \A b \in Executions!Attempts : b # a => Same(b),
         AttemptInv(a)', Holds(a)' => Holds(a)
  PROVE  Kept
  BY SameKeeps DEF ExecutionsInv, Kept

(* Capacity that nobody newly holds stays within the limit.                *)
LEMMA KeptWithinLimit ==
  ASSUME ExecutionsInv, ExecutionTypes', Kept
  PROVE  ExecutionsInv'
<1> DEFINE Held == {a \in Executions!Attempts : Holds(a)}
<1>1. Held' \subseteq Held
  BY DEF Kept
<1>2. IsFiniteSet(Held)
  BY AttemptsAreFinite, FS_Subset
<1>3. Cardinality(Held') <= Cardinality(Held) /\ Cardinality(Held) \in Nat
      /\ Cardinality(Held') \in Nat
  BY <1>1, <1>2, FS_Subset, FS_CardinalityType
<1>4. HeldWithinLimit'
  BY <1>3, PreviewsAssumption DEF ExecutionsInv, HeldWithinLimit
<1> QED BY <1>4 DEF ExecutionsInv, Kept

LEMMA ExecutionsInit == Executions!Init => ExecutionsInv
<1> SUFFICES ASSUME Executions!Init PROVE ExecutionsInv
  OBVIOUS
<1>1. ExecutionTypes
  <2>1. Executions!NoRow \in Executions!Row
    BY DEF Executions!NoRow, Executions!Row, Executions!RowState
  <2>2. Executions!Idle \in PassRecord
    BY <2>1 DEF PassRecord, Executions!Idle, PassSteps, Bodies
  <2>3. 0 \in 0..MaxAttempts
    BY PreviewsAssumption
  <2>4. Executions!TypeOK
    BY <2>1, <2>3 DEF Executions!Init, Executions!TypeOK
  <2> QED BY <2>2, <2>4 DEF Executions!Init, ExecutionTypes, LauncherSteps
<1>2. ASSUME NEW a \in Executions!Attempts PROVE AttemptInv(a) /\ ~Holds(a)
  BY DEF Executions!Init, AttemptInv, MachineHasRow, LauncherAhead, PassIsRight, ReleasedForGood,
         Unclaimed, Holds, Executions!MayRun, Executions!NoRow, Executions!Idle
<1>3. HeldWithinLimit
  <2>1. {a \in Executions!Attempts : Holds(a)} = {}
    BY <1>2
  <2> QED BY <2>1, FS_EmptySet, PreviewsAssumption DEF HeldWithinLimit
<1> QED BY <1>1, <1>2, <1>3 DEF ExecutionsInv
-----------------------------------------------------------------------------
(* The launcher. *)

(* A row replaced by a well-typed one.                                     *)
LEMMA RowReplaced ==
  ASSUME ExecutionTypes, NEW a \in Executions!Attempts, NEW new \in Executions!Row,
         Executions!WithRow(a, new)
  PROVE  /\ row' \in [Executions!Attempts -> Executions!Row]
         /\ row'[a] = new
         /\ \A b \in Executions!Attempts : b # a => row'[b] = row[b]
  BY DEF ExecutionTypes, Executions!TypeOK, Executions!WithRow

LEMMA LauncherMoved ==
  ASSUME ExecutionTypes, NEW a \in Executions!Attempts, NEW step \in LauncherSteps,
         Executions!GoTo(a, step)
  PROVE  /\ launcher' \in [Executions!Attempts -> LauncherSteps]
         /\ launcher'[a] = step
         /\ \A b \in Executions!Attempts : b # a => launcher'[b] = launcher[b]
  BY DEF ExecutionTypes, Executions!GoTo

LEMMA PlanKeeps ==
  ASSUME ExecutionsInv, NEW a \in Executions!Attempts, Executions!Plan(a)
  PROVE  ExecutionTypes' /\ Kept
<1>1. ExecutionTypes /\ AttemptInv(a)
  BY DEF ExecutionsInv
<1> DEFINE new == [Executions!NoRow EXCEPT !.state = "PLANNED"]
<1>2. new \in Executions!Row /\ new.state = "PLANNED"
  BY DEF Executions!NoRow, Executions!Row, Executions!RowState
<1>3. /\ UNCHANGED <<run, slot, tombs, vm, canceller, pass, quarantine>>
      /\ launcher[a] = "plan"
  BY DEF Executions!Plan, Executions!At
<1> HIDE DEF new
<1>4. CASE Executions!WithRow(a, new) /\ Executions!GoTo(a, "submit")
  <2>1. /\ row' \in [Executions!Attempts -> Executions!Row] /\ row'[a] = new
        /\ \A b \in Executions!Attempts : b # a => row'[b] = row[b]
    BY <1>1, <1>2, <1>4, RowReplaced
  <2>2. /\ launcher' \in [Executions!Attempts -> LauncherSteps] /\ launcher'[a] = "submit"
        /\ \A b \in Executions!Attempts : b # a => launcher'[b] = launcher[b]
    BY <1>1, <1>4, LauncherMoved DEF LauncherSteps
  <2>3. ExecutionTypes'
    BY <1>1, <1>3, <2>1, <2>2 DEF ExecutionTypes, Executions!TypeOK
  <2>4. \A b \in Executions!Attempts : b # a => Same(b)
    BY <1>3, <2>1, <2>2 DEF Same
  <2>5. AttemptInv(a)' /\ (Holds(a)' => Holds(a))
    BY <1>1, <1>2, <1>3, <2>1, <2>2, TypesOf
       DEF AttemptInv, MachineHasRow, LauncherAhead, PassIsRight, ReleasedForGood, Unclaimed,
           Holds, Executions!MayRun
  <2> QED BY <2>3, <2>4, <2>5, OneAttempt
<1>5. CASE Executions!GoTo(a, "rejected") /\ row' = row
  <2>1. /\ launcher' \in [Executions!Attempts -> LauncherSteps] /\ launcher'[a] = "rejected"
        /\ \A b \in Executions!Attempts : b # a => launcher'[b] = launcher[b]
    BY <1>1, <1>5, LauncherMoved DEF LauncherSteps
  <2>2. ExecutionTypes'
    BY <1>1, <1>3, <1>5, <2>1 DEF ExecutionTypes, Executions!TypeOK
  <2>3. \A b \in Executions!Attempts : b # a => Same(b)
    BY <1>3, <1>5, <2>1 DEF Same
  <2>4. AttemptInv(a)' /\ (Holds(a)' => Holds(a))
    BY <1>1, <1>3, <1>5, <2>1
       DEF AttemptInv, MachineHasRow, LauncherAhead, PassIsRight, ReleasedForGood, Unclaimed,
           Holds, Executions!MayRun
  <2> QED BY <2>2, <2>3, <2>4, OneAttempt
<1> QED BY <1>4, <1>5 DEF Executions!Plan, new

LEMMA SubmitKeeps ==
  ASSUME ExecutionsInv, NEW a \in Executions!Attempts, Executions!Submit(a)
  PROVE  ExecutionTypes' /\ Kept
<1>1. ExecutionTypes /\ AttemptInv(a)
  BY DEF ExecutionsInv
<1> DEFINE new == [row[a] EXCEPT !.state = "SUBMITTING"]
<1>2. new \in Executions!Row /\ new.state = "SUBMITTING"
  BY <1>1, TypesOf DEF Executions!Row, Executions!RowState
<1>3. /\ UNCHANGED <<run, slot, tombs, vm, canceller, pass, quarantine>>
      /\ launcher[a] = "submit"
  BY DEF Executions!Submit, Executions!At
<1> HIDE DEF new
<1>4. CASE /\ Executions!Accepts(a, new) /\ Executions!WithRow(a, new)
           /\ Executions!GoTo(a, "create")
  <2>1. /\ row' \in [Executions!Attempts -> Executions!Row] /\ row'[a] = new
        /\ \A b \in Executions!Attempts : b # a => row'[b] = row[b]
    BY <1>1, <1>2, <1>4, RowReplaced
  <2>2. /\ launcher' \in [Executions!Attempts -> LauncherSteps] /\ launcher'[a] = "create"
        /\ \A b \in Executions!Attempts : b # a => launcher'[b] = launcher[b]
    BY <1>1, <1>4, LauncherMoved DEF LauncherSteps
  <2>3. row[a].state \in {"PLANNED", "SUBMITTING"}
    BY <1>1, <1>2, <1>4, AcceptedUpdates
  <2>4. ExecutionTypes'
    BY <1>1, <1>3, <2>1, <2>2 DEF ExecutionTypes, Executions!TypeOK
  <2>5. \A b \in Executions!Attempts : b # a => Same(b)
    BY <1>3, <2>1, <2>2 DEF Same
  <2>6. AttemptInv(a)' /\ (Holds(a)' => Holds(a))
    BY <1>1, <1>2, <1>3, <2>1, <2>2, <2>3
       DEF AttemptInv, MachineHasRow, LauncherAhead, PassIsRight, ReleasedForGood, Unclaimed,
           Holds, Executions!MayRun
  <2> QED BY <2>4, <2>5, <2>6, OneAttempt
<1>5. CASE /\ Executions!GoTo(a, IF a[1] \in tombs THEN "rejected" ELSE "uncertain")
           /\ row' = row
  <2>1. /\ launcher' \in [Executions!Attempts -> LauncherSteps]
        /\ launcher'[a] \in {"rejected", "uncertain"}
        /\ \A b \in Executions!Attempts : b # a => launcher'[b] = launcher[b]
    BY <1>1, <1>5, LauncherMoved DEF LauncherSteps
  <2>2. ExecutionTypes'
    BY <1>1, <1>3, <1>5, <2>1 DEF ExecutionTypes, Executions!TypeOK
  <2>3. \A b \in Executions!Attempts : b # a => Same(b)
    BY <1>3, <1>5, <2>1 DEF Same
  <2>4. AttemptInv(a)' /\ (Holds(a)' => Holds(a))
    BY <1>1, <1>3, <1>5, <2>1
       DEF AttemptInv, MachineHasRow, LauncherAhead, PassIsRight, ReleasedForGood, Unclaimed,
           Holds, Executions!MayRun
  <2> QED BY <2>2, <2>3, <2>4, OneAttempt
<1> QED BY <1>4, <1>5 DEF Executions!Submit, new

LEMMA CreateKeeps ==
  ASSUME ExecutionsInv, NEW a \in Executions!Attempts, Executions!Create(a)
  PROVE  ExecutionTypes' /\ Kept
<1>1. ExecutionTypes /\ AttemptInv(a)
  BY DEF ExecutionsInv
<1>2. /\ UNCHANGED <<run, slot, tombs, canceller, pass, quarantine>>
      /\ launcher[a] = "create" /\ vm[a] = "none"
      /\ row[a].state \in {"SUBMITTING", "ACTIVE", "STOPPING"}
  BY <1>1 DEF Executions!Create, Executions!At, AttemptInv, MachineHasRow, LauncherAhead,
              Executions!MayRun
<1>3. ASSUME NEW step \in {"receipt", "uncertain"}, NEW state \in {"live", "requested"},
             Executions!GoTo(a, step), vm' = [vm EXCEPT ![a] = state], row' = row
      PROVE  ExecutionTypes' /\ Kept
  <2>1. /\ launcher' \in [Executions!Attempts -> LauncherSteps] /\ launcher'[a] = step
        /\ \A b \in Executions!Attempts : b # a => launcher'[b] = launcher[b]
    BY <1>1, <1>3, LauncherMoved DEF LauncherSteps
  <2>2. ExecutionTypes'
    BY <1>1, <1>2, <1>3, <2>1 DEF ExecutionTypes, Executions!TypeOK
  <2>3. \A b \in Executions!Attempts : b # a => Same(b)
    BY <1>1, <1>2, <1>3, <2>1 DEF Same, ExecutionTypes, Executions!TypeOK
  <2>4. AttemptInv(a)' /\ (Holds(a)' => Holds(a))
    BY <1>1, <1>2, <1>3, <2>1
       DEF AttemptInv, MachineHasRow, LauncherAhead, PassIsRight, ReleasedForGood, Unclaimed,
           Holds, Executions!MayRun
  <2> QED BY <2>2, <2>3, <2>4, OneAttempt
<1>4. ASSUME Executions!GoTo(a, "rejected"), vm' = vm,
             row' = IF "STOPPED" \in Executions!Transitions[row[a].state]
                    THEN [row EXCEPT ![a].state = "STOPPED"] ELSE row
      PROVE  ExecutionTypes' /\ Kept
  <2>1. /\ launcher' \in [Executions!Attempts -> LauncherSteps] /\ launcher'[a] = "rejected"
        /\ \A b \in Executions!Attempts : b # a => launcher'[b] = launcher[b]
    BY <1>1, <1>4, LauncherMoved DEF LauncherSteps
  <2>2. /\ row' \in [Executions!Attempts -> Executions!Row]
        /\ row'[a].state \in {row[a].state, "STOPPED"}
        /\ \A b \in Executions!Attempts : b # a => row'[b] = row[b]
    <3> DEFINE new == [row[a] EXCEPT !.state = "STOPPED"]
    <3>1. new \in Executions!Row /\ new.state = "STOPPED"
      BY <1>1, TypesOf DEF Executions!Row, Executions!RowState
    <3>2. row' = row \/ row' = [row EXCEPT ![a] = new]
      BY <1>4
    <3> HIDE DEF new
    <3> QED BY <1>1, <3>1, <3>2 DEF ExecutionTypes, Executions!TypeOK
  <2>3. ExecutionTypes'
    BY <1>1, <1>2, <1>4, <2>1, <2>2 DEF ExecutionTypes, Executions!TypeOK
  <2>4. \A b \in Executions!Attempts : b # a => Same(b)
    BY <1>2, <1>4, <2>1, <2>2 DEF Same
  <2>5. row[a].state = "STOPPED" => row'[a].state = "STOPPED"
    BY <2>2
  <2>6. AttemptInv(a)' /\ (Holds(a)' => Holds(a))
    BY <1>1, <1>2, <1>4, <2>1, <2>2, <2>5
       DEF AttemptInv, MachineHasRow, LauncherAhead, PassIsRight, ReleasedForGood, Unclaimed,
           Holds, Executions!MayRun
  <2> QED BY <2>3, <2>4, <2>6, OneAttempt
<1> QED BY <1>3, <1>4 DEF Executions!Create

LEMMA ReceiptKeeps ==
  ASSUME ExecutionsInv, NEW a \in Executions!Attempts, Executions!Receipt(a)
  PROVE  ExecutionTypes' /\ Kept
<1>1. ExecutionTypes /\ AttemptInv(a)
  BY DEF ExecutionsInv
<1>2. /\ UNCHANGED <<run, slot, tombs, vm, canceller, pass, quarantine>>
      /\ launcher[a] = "receipt"
  BY DEF Executions!Receipt, Executions!At
<1>3. \E step \in {"done", "uncertain"} : Executions!GoTo(a, step)
  BY DEF Executions!Receipt, Executions!ReceiptLost
<1>4. /\ launcher' \in [Executions!Attempts -> LauncherSteps]
      /\ launcher'[a] \in {"done", "uncertain"}
      /\ \A b \in Executions!Attempts : b # a => launcher'[b] = launcher[b]
  BY <1>1, <1>3, LauncherMoved DEF LauncherSteps
<1>5. /\ row' \in [Executions!Attempts -> Executions!Row]
      /\ \/ row'[a].state = row[a].state
         \/ row[a].state = "SUBMITTING" /\ row'[a].state = "ACTIVE"
      /\ \A b \in Executions!Attempts : b # a => row'[b] = row[b]
  <2> DEFINE new == [row[a] EXCEPT !.uid = TRUE, !.state = IF @ = "SUBMITTING" THEN "ACTIVE" ELSE @]
  <2>1. new \in Executions!Row /\ \/ new.state = row[a].state
                                  \/ row[a].state = "SUBMITTING" /\ new.state = "ACTIVE"
    BY <1>1, TypesOf DEF Executions!Row, Executions!RowState
  <2> HIDE DEF new
  <2>2. Executions!WithRow(a, new) \/ row' = row
    BY DEF Executions!Receipt, new
  <2>3. CASE row' = row
    BY <1>1, <2>3 DEF ExecutionTypes, Executions!TypeOK
  <2>4. CASE Executions!WithRow(a, new)
    BY <1>1, <2>1, <2>4, RowReplaced
  <2> QED BY <2>2, <2>3, <2>4
<1>6. ExecutionTypes'
  BY <1>1, <1>2, <1>4, <1>5 DEF ExecutionTypes, Executions!TypeOK
<1>7. \A b \in Executions!Attempts : b # a => Same(b)
  BY <1>2, <1>4, <1>5 DEF Same
<1>8. AttemptInv(a)' /\ (Holds(a)' => Holds(a))
  BY <1>1, <1>2, <1>4, <1>5
     DEF AttemptInv, MachineHasRow, LauncherAhead, PassIsRight, ReleasedForGood, Unclaimed,
         Holds, Executions!MayRun
<1> QED BY <1>6, <1>7, <1>8, OneAttempt

(* acknowledge_stopped frees the slot of an attempt and may queue its run  *)
(* again, which changes no number of claims.                               *)
LEMMA AcknowledgedFrame ==
  ASSUME ExecutionTypes, NEW a \in Executions!Attempts, Executions!Acknowledged(a)
  PROVE  /\ slot' \in [Executions!Attempts -> {"none", "open", "stop", "released"}]
         /\ slot'[a] = IF slot[a] \in {"open", "stop"} THEN "released" ELSE slot[a]
         /\ \A b \in Executions!Attempts : b # a => slot'[b] = slot[b]
         /\ run' \in [Runs -> [status : {"QUEUED", "PROCESSING", "CANCELLED", "FAILED"},
                               claims : 0..MaxAttempts, current : 0..MaxAttempts]]
         /\ \A r \in Runs : run'[r].claims = run[r].claims
<1>1. 0 \in 0..MaxAttempts
  BY PreviewsAssumption
<1>2. a \in Executions!OpenSlots <=> slot[a] \in {"open", "stop"}
  BY DEF Executions!OpenSlots
<1>3. /\ slot' \in [Executions!Attempts -> {"none", "open", "stop", "released"}]
      /\ slot'[a] = IF slot[a] \in {"open", "stop"} THEN "released" ELSE slot[a]
      /\ \A b \in Executions!Attempts : b # a => slot'[b] = slot[b]
  BY <1>2 DEF Executions!Acknowledged, ExecutionTypes, Executions!TypeOK
<1>4. /\ run' \in [Runs -> [status : {"QUEUED", "PROCESSING", "CANCELLED", "FAILED"},
                            claims : 0..MaxAttempts, current : 0..MaxAttempts]]
      /\ \A r \in Runs : run'[r].claims = run[r].claims
  <2>1. \/ run' = run
        \/ run' = [run EXCEPT ![a[1]].status = "QUEUED", ![a[1]].current = 0]
    BY DEF Executions!Acknowledged
  <2> DEFINE r == a[1]
             Record == [status : {"QUEUED", "PROCESSING", "CANCELLED", "FAILED"},
                        claims : 0..MaxAttempts, current : 0..MaxAttempts]
             new == [run[r] EXCEPT !.status = "QUEUED", !.current = 0]
  <2>2. run \in [Runs -> Record] /\ r \in Runs
    BY PairOfAttempt DEF ExecutionTypes, Executions!TypeOK
  <2>3. new \in Record /\ new.claims = run[r].claims
    BY <1>1, <2>2
  <2>4. run' = run \/ run' = [run EXCEPT ![r] = new]
    BY <2>1
  <2> HIDE DEF r, new
  <2>5. /\ run' \in [Runs -> Record]
        /\ \A q \in Runs : run'[q].claims = run[q].claims
    BY <2>2, <2>3, <2>4
  <2> QED BY <2>5
<1> QED BY <1>3, <1>4

LEMMA RejectedKeeps ==
  ASSUME ExecutionsInv, NEW a \in Executions!Attempts, Executions!Rejected(a)
  PROVE  ExecutionTypes' /\ Kept
<1>1. ExecutionTypes /\ AttemptInv(a)
  BY DEF ExecutionsInv
<1>2. /\ UNCHANGED <<row, tombs, vm, canceller, pass, quarantine>>
      /\ launcher[a] = "rejected"
  BY DEF Executions!Rejected, Executions!At
<1>3. /\ launcher' \in [Executions!Attempts -> LauncherSteps] /\ launcher'[a] = "done"
      /\ \A b \in Executions!Attempts : b # a => launcher'[b] = launcher[b]
  BY <1>1, LauncherMoved DEF LauncherSteps, Executions!Rejected
<1>4. /\ slot' \in [Executions!Attempts -> {"none", "open", "stop", "released"}]
      /\ slot'[a] = IF slot[a] \in {"open", "stop"} THEN "released" ELSE slot[a]
      /\ \A b \in Executions!Attempts : b # a => slot'[b] = slot[b]
      /\ run' \in [Runs -> [status : {"QUEUED", "PROCESSING", "CANCELLED", "FAILED"},
                            claims : 0..MaxAttempts, current : 0..MaxAttempts]]
      /\ \A r \in Runs : run'[r].claims = run[r].claims
  BY <1>1, AcknowledgedFrame DEF Executions!Rejected
<1>5. ExecutionTypes'
  BY <1>1, <1>2, <1>3, <1>4 DEF ExecutionTypes, Executions!TypeOK
<1>6. \A b \in Executions!Attempts : b # a => Same(b)
  BY <1>2, <1>3, <1>4, PairOfAttempt DEF Same
<1>7. AttemptInv(a)' /\ (Holds(a)' => Holds(a))
  BY <1>1, <1>2, <1>3, <1>4, PairOfAttempt
     DEF AttemptInv, MachineHasRow, LauncherAhead, PassIsRight, ReleasedForGood, Unclaimed,
         Holds, Executions!MayRun
<1> QED BY <1>5, <1>6, <1>7, OneAttempt

LEMMA LauncherStopsKeeps ==
  ASSUME ExecutionsInv, NEW a \in Executions!Attempts, Executions!LauncherStops(a)
  PROVE  ExecutionTypes' /\ Kept
<1>1. ExecutionTypes /\ AttemptInv(a)
  BY DEF ExecutionsInv
<1>2. /\ UNCHANGED <<run, slot, row, tombs, vm, canceller, pass, quarantine>>
      /\ launcher[a] \in {"plan", "submit", "create", "receipt", "rejected"}
  BY DEF Executions!LauncherStops
<1>3. /\ launcher' \in [Executions!Attempts -> LauncherSteps] /\ launcher'[a] = "uncertain"
      /\ \A b \in Executions!Attempts : b # a => launcher'[b] = launcher[b]
  BY <1>1, LauncherMoved DEF LauncherSteps, Executions!LauncherStops
<1>4. ExecutionTypes'
  BY <1>1, <1>2, <1>3 DEF ExecutionTypes, Executions!TypeOK
<1>5. \A b \in Executions!Attempts : b # a => Same(b)
  BY <1>2, <1>3 DEF Same
<1>6. AttemptInv(a)' /\ (Holds(a)' => Holds(a))
  BY <1>1, <1>2, <1>3
     DEF AttemptInv, MachineHasRow, LauncherAhead, PassIsRight, ReleasedForGood, Unclaimed,
         Holds, Executions!MayRun
<1> QED BY <1>4, <1>5, <1>6, OneAttempt
-----------------------------------------------------------------------------
(* Cancellation and the remote side. *)

LEMMA StopRowKeeps ==
  ASSUME ExecutionsInv, NEW a \in Executions!Attempts, Executions!StopRow(a)
  PROVE  ExecutionTypes' /\ Kept
<1>1. ExecutionTypes /\ AttemptInv(a)
  BY DEF ExecutionsInv
<1> DEFINE new == [row[a] EXCEPT !.revoked = TRUE,
                     !.state = IF @ \in {"PLANNED", "STOPPED"} THEN "STOPPED" ELSE "STOPPING"]
<1>2. /\ new \in Executions!Row
      /\ \/ row[a].state \in {"PLANNED", "STOPPED"} /\ new.state = "STOPPED"
         \/ row[a].state \in {"SUBMITTING", "ACTIVE", "STOPPING"} /\ new.state = "STOPPING"
  <2>1. row[a] \in Executions!Row /\ row[a].state \in Executions!RowState
        /\ row[a].state # "NONE"
    BY <1>1, TypesOf DEF Executions!StopRow, Executions!StopNeeded
  <2> QED BY <2>1 DEF Executions!Row, Executions!RowState
<1>3. UNCHANGED <<run, slot, tombs, vm, launcher, canceller, pass, quarantine>>
      /\ Executions!WithRow(a, new)
  BY DEF Executions!StopRow
<1> HIDE DEF new
<1>4. /\ row' \in [Executions!Attempts -> Executions!Row] /\ row'[a] = new
      /\ \A b \in Executions!Attempts : b # a => row'[b] = row[b]
  BY <1>1, <1>2, <1>3, RowReplaced
<1>5. ExecutionTypes'
  BY <1>1, <1>3, <1>4 DEF ExecutionTypes, Executions!TypeOK
<1>6. \A b \in Executions!Attempts : b # a => Same(b)
  BY <1>3, <1>4 DEF Same
<1>7. AttemptInv(a)' /\ (Holds(a)' => Holds(a))
  BY <1>1, <1>2, <1>3, <1>4
     DEF AttemptInv, MachineHasRow, LauncherAhead, PassIsRight, ReleasedForGood, Unclaimed,
         Holds, Executions!MayRun
<1> QED BY <1>5, <1>6, <1>7, OneAttempt

LEMMA RemoteStepKeeps ==
  ASSUME ExecutionsInv, NEW a \in Executions!Attempts, Executions!RemoteStep(a)
  PROVE  ExecutionTypes' /\ Kept
<1>1. ExecutionTypes /\ AttemptInv(a)
  BY DEF ExecutionsInv
<1>2. UNCHANGED <<run, slot, row, tombs, launcher, canceller, pass, quarantine>>
  BY DEF Executions!RemoteStep, Executions!RequestResolves, Executions!TaskEnds,
         Executions!DeletionEnds
<1>3. /\ vm' \in [Executions!Attempts -> {"none", "requested", "live", "ended", "deleting", "gone"}]
      /\ vm[a] \in {"requested", "live", "deleting"}
      /\ \A b \in Executions!Attempts : b # a => vm'[b] = vm[b]
  <2>1. \E s \in {"live", "none", "ended", "gone"} : vm' = [vm EXCEPT ![a] = s]
    BY DEF Executions!RemoteStep, Executions!RequestResolves, Executions!TaskEnds,
           Executions!DeletionEnds
  <2> QED BY <1>1, <2>1 DEF ExecutionTypes, Executions!TypeOK, Executions!RemoteStep,
             Executions!RequestResolves, Executions!TaskEnds, Executions!DeletionEnds
<1>4. ExecutionTypes'
  BY <1>1, <1>2, <1>3 DEF ExecutionTypes, Executions!TypeOK
<1>5. \A b \in Executions!Attempts : b # a => Same(b)
  BY <1>2, <1>3 DEF Same
<1>6. AttemptInv(a)' /\ (Holds(a)' => Holds(a))
  BY <1>1, <1>2, <1>3
     DEF AttemptInv, MachineHasRow, LauncherAhead, PassIsRight, ReleasedForGood, Unclaimed,
         Holds, Executions!MayRun
<1> QED BY <1>4, <1>5, <1>6, OneAttempt

LEMMA RequestStopKeeps ==
  ASSUME ExecutionsInv, NEW a \in Executions!Attempts, Executions!RequestStop(a)
  PROVE  ExecutionTypes' /\ Kept
<1>1. ExecutionTypes /\ AttemptInv(a)
  BY DEF ExecutionsInv
<1>2. /\ UNCHANGED <<run, row, tombs, vm, launcher, canceller, pass, quarantine>>
      /\ slot[a] = "open" /\ slot' = [slot EXCEPT ![a] = "stop"]
  BY DEF Executions!RequestStop
<1>3. ExecutionTypes'
  BY <1>1, <1>2 DEF ExecutionTypes, Executions!TypeOK
<1>4. slot'[a] = "stop" /\ \A b \in Executions!Attempts : b # a => Same(b)
  BY <1>1, <1>2 DEF Same, ExecutionTypes, Executions!TypeOK
<1>5. AttemptInv(a)' /\ (Holds(a)' => Holds(a))
  BY <1>1, <1>2, <1>4
     DEF AttemptInv, MachineHasRow, LauncherAhead, PassIsRight, ReleasedForGood, Unclaimed,
         Holds, Executions!MayRun
<1> QED BY <1>3, <1>4, <1>5, OneAttempt

(* Steps that touch no attempt.                                            *)
LEMMA NoAttempt ==
  ASSUME ExecutionsInv, UNCHANGED <<slot, row, vm, launcher, pass>>,
         \A r \in Runs : run'[r].claims = run[r].claims
  PROVE  Kept
<1> SUFFICES ASSUME NEW a \in Executions!Attempts
             PROVE  AttemptInv(a)' /\ (Holds(a)' => Holds(a))
  BY DEF Kept
<1>1. Same(a)
  BY PairOfAttempt DEF Same
<1> QED BY <1>1, SameKeeps DEF ExecutionsInv

LEMMA CancellerKeeps ==
  ASSUME ExecutionsInv, NEW r \in Runs, Executions!Tombstone(r) \/ Executions!CancelRollsBack(r)
  PROVE  ExecutionTypes' /\ Kept
<1>1. UNCHANGED <<run, slot, row, vm, launcher, pass, quarantine>>
  BY DEF Executions!Tombstone, Executions!CancelRollsBack
<1>2. tombs' \subseteq Runs /\ canceller' \in [Runs -> {"idle", "rows"}]
  BY DEF Executions!Tombstone, Executions!CancelRollsBack, ExecutionsInv, ExecutionTypes,
         Executions!TypeOK
<1>3. ExecutionTypes'
  BY <1>1, <1>2 DEF ExecutionsInv, ExecutionTypes, Executions!TypeOK
<1> QED BY <1>1, <1>3, NoAttempt

LEMMA CancelCommitsKeeps ==
  ASSUME ExecutionsInv, NEW r \in Runs, Executions!CancelCommits(r)
  PROVE  ExecutionTypes' /\ Kept
<1>1. ExecutionTypes
  BY DEF ExecutionsInv
<1>2. /\ UNCHANGED <<row, tombs, vm, launcher, pass, quarantine>>
      /\ canceller' = [canceller EXCEPT ![r] = "idle"]
  BY DEF Executions!CancelCommits
<1>3. /\ run' \in [Runs -> [status : {"QUEUED", "PROCESSING", "CANCELLED", "FAILED"},
                            claims : 0..MaxAttempts, current : 0..MaxAttempts]]
      /\ \A q \in Runs : run'[q].claims = run[q].claims
  <2> DEFINE Record == [status : {"QUEUED", "PROCESSING", "CANCELLED", "FAILED"},
                        claims : 0..MaxAttempts, current : 0..MaxAttempts]
             new == [run[r] EXCEPT !.status = "CANCELLED", !.current = 0]
  <2>1. run \in [Runs -> Record] /\ 0 \in 0..MaxAttempts
    BY <1>1, PreviewsAssumption DEF ExecutionTypes, Executions!TypeOK
  <2>2. new \in Record /\ new.claims = run[r].claims
    BY <2>1
  <2>3. run' = [run EXCEPT ![r] = new]
    BY DEF Executions!CancelCommits
  <2> HIDE DEF new
  <2> QED BY <2>1, <2>2, <2>3
<1>4. /\ slot' \in [Executions!Attempts -> {"none", "open", "stop", "released"}]
      /\ \A a \in Executions!Attempts :
           \/ slot'[a] = slot[a]
           \/ slot[a] = "open" /\ slot'[a] = "stop"
  BY <1>1 DEF Executions!CancelCommits, ExecutionTypes, Executions!TypeOK
<1>5. ExecutionTypes'
  BY <1>1, <1>2, <1>3, <1>4 DEF ExecutionTypes, Executions!TypeOK
<1>6. ASSUME NEW a \in Executions!Attempts PROVE AttemptInv(a)' /\ (Holds(a)' => Holds(a))
  <2>1. AttemptInv(a) /\ a[1] \in Runs
    BY PairOfAttempt DEF ExecutionsInv
  <2> QED BY <1>2, <1>3, <1>4, <2>1
             DEF AttemptInv, MachineHasRow, LauncherAhead, PassIsRight, ReleasedForGood, Unclaimed,
                 Holds, Executions!MayRun
<1> QED BY <1>5, <1>6 DEF Kept

(* SQL comes back from before every claim and processes are stopped first. *)
LEMMA RestoreKeeps ==
  ASSUME ExecutionsInv, Executions!Restore
  PROVE  ExecutionTypes' /\ Kept
<1>1. ExecutionTypes
  BY DEF ExecutionsInv
<1>2. /\ UNCHANGED <<row, tombs, vm>> /\ quarantine' = TRUE
      /\ \A a \in Executions!Attempts :
           /\ slot'[a] = "none" /\ launcher'[a] = "none" /\ pass'[a].pc = "idle"
           /\ run'[a[1]].claims = MaxAttempts
  BY PairOfAttempt DEF Executions!Restore, Executions!Idle
<1>3. ExecutionTypes'
  <2>1. Executions!Idle \in PassRecord
    BY DEF PassRecord, Executions!Idle, Executions!NoRow, Executions!Row, Executions!RowState, PassSteps, Bodies
  <2>2. 0 \in 0..MaxAttempts /\ MaxAttempts \in 0..MaxAttempts
    BY PreviewsAssumption
  <2>3. Executions!TypeOK'
    BY <1>1, <1>2, <2>2 DEF ExecutionTypes, Executions!TypeOK, Executions!Restore
  <2> QED BY <2>1, <2>3 DEF ExecutionTypes, Executions!Restore, LauncherSteps
<1>4. ASSUME NEW a \in Executions!Attempts PROVE AttemptInv(a)' /\ (Holds(a)' => Holds(a))
  <2>1. AttemptInv(a) /\ ~(a[2] > MaxAttempts)
    BY PairOfAttempt, PreviewsAssumption DEF ExecutionsInv
  <2> QED BY <1>2, <2>1
             DEF AttemptInv, MachineHasRow, LauncherAhead, PassIsRight, ReleasedForGood, Unclaimed,
                 Holds, Executions!MayRun
<1> QED BY <1>3, <1>4 DEF Kept

LEMMA ReleasedKeeps ==
  ASSUME ExecutionsInv, Executions!Released
  PROVE  ExecutionTypes' /\ Kept
<1>1. UNCHANGED <<run, slot, row, tombs, vm, launcher, canceller, pass>> /\ quarantine' = FALSE
  BY DEF Executions!Released
<1>2. ExecutionTypes'
  BY <1>1 DEF ExecutionsInv, ExecutionTypes, Executions!TypeOK
<1> QED BY <1>1, <1>2, NoAttempt
-----------------------------------------------------------------------------
(* The maintenance pass. *)

LEMMA PassMoved ==
  ASSUME ExecutionTypes, NEW a \in Executions!Attempts, NEW p \in PassRecord,
         pass' = [pass EXCEPT ![a] = p]
  PROVE  /\ pass' \in [Executions!Attempts -> PassRecord]
         /\ pass'[a] = p
         /\ \A b \in Executions!Attempts : b # a => pass'[b] = pass[b]
  BY DEF ExecutionTypes

(* What each of the ways to move on does to the pass over a.               *)
LEMMA PassGoesOn ==
  ASSUME ExecutionTypes, NEW a \in Executions!Attempts, NEW step \in PassSteps,
         NEW body \in Bodies, NEW seen \in Executions!Row,
         \/ Executions!Jump(a, step) /\ seen = pass[a].seen
         \/ Executions!JumpWith(a, step, seen)
         \/ pass' = [pass EXCEPT ![a].pc = step, ![a].body = body] /\ seen = pass[a].seen
         \/ pass' = [pass EXCEPT ![a].pc = step, ![a].body = body, ![a].seen = seen]
  PROVE  /\ pass' \in [Executions!Attempts -> PassRecord]
         /\ pass'[a].pc = step /\ pass'[a].seen = seen
         /\ \A b \in Executions!Attempts : b # a => pass'[b] = pass[b]
<1>1. pass[a] \in PassRecord
  BY TypesOf
<1>2. \E p \in PassRecord : p.pc = step /\ p.seen = seen /\ pass' = [pass EXCEPT ![a] = p]
  <2>1. CASE Executions!Jump(a, step) /\ seen = pass[a].seen
    <3> DEFINE p == [pass[a] EXCEPT !.pc = step]
    <3>1. p \in PassRecord /\ p.pc = step /\ p.seen = seen
      BY <1>1, <2>1 DEF PassRecord
    <3>2. pass' = [pass EXCEPT ![a] = p]
      BY <2>1 DEF Executions!Jump
    <3> QED BY <3>1, <3>2
  <2>2. CASE Executions!JumpWith(a, step, seen)
    <3> DEFINE p == [pass[a] EXCEPT !.pc = step, !.seen = seen]
    <3>1. p \in PassRecord /\ p.pc = step /\ p.seen = seen
      BY <1>1 DEF PassRecord
    <3>2. pass' = [pass EXCEPT ![a] = p]
      BY <1>1, <2>2 DEF Executions!JumpWith, ExecutionTypes, PassRecord
    <3> QED BY <3>1, <3>2
  <2>3. CASE pass' = [pass EXCEPT ![a].pc = step, ![a].body = body] /\ seen = pass[a].seen
    <3> DEFINE p == [pass[a] EXCEPT !.pc = step, !.body = body]
    <3>1. p \in PassRecord /\ p.pc = step /\ p.seen = seen
      BY <1>1, <2>3 DEF PassRecord
    <3>2. pass' = [pass EXCEPT ![a] = p]
      BY <1>1, <2>3 DEF ExecutionTypes, PassRecord
    <3> QED BY <3>1, <3>2
  <2>4. CASE pass' = [pass EXCEPT ![a].pc = step, ![a].body = body, ![a].seen = seen]
    <3> DEFINE p == [pass[a] EXCEPT !.pc = step, !.body = body, !.seen = seen]
    <3>1. p \in PassRecord /\ p.pc = step /\ p.seen = seen
      BY <1>1 DEF PassRecord
    <3>2. pass' = [pass EXCEPT ![a] = p]
      BY <1>1, <2>4 DEF ExecutionTypes, PassRecord
    <3> QED BY <3>1, <3>2
  <2> QED BY <2>1, <2>2, <2>3, <2>4
<1> QED BY <1>2, PassMoved

LEMMA PassLeaves ==
  ASSUME ExecutionTypes, NEW a \in Executions!Attempts, Executions!Leave(a)
  PROVE  /\ pass' \in [Executions!Attempts -> PassRecord]
         /\ pass'[a].pc = "idle" /\ pass'[a].seen \in Executions!Row
         /\ \A b \in Executions!Attempts : b # a => pass'[b] = pass[b]
<1>1. Executions!Idle \in PassRecord /\ Executions!Idle.pc = "idle"
  BY DEF PassRecord, Executions!Idle, Executions!NoRow, Executions!Row, Executions!RowState,
         PassSteps, Bodies
<1> QED BY <1>1, PassMoved DEF Executions!Leave, PassRecord

(* A step of the pass: it moves on over one attempt, and may replace its   *)
(* row, in one of the ways the journal accepts, or delete its machine.     *)
LEMMA PassOverOne ==
  ASSUME ExecutionsInv, NEW a \in Executions!Attempts, pass[a].pc # "idle",
         UNCHANGED <<run, slot, tombs, launcher, canceller, quarantine>>,
         /\ row' \in [Executions!Attempts -> Executions!Row]
         /\ \A b \in Executions!Attempts : b # a => row'[b] = row[b],
         \/ row'[a].state = row[a].state
         \/ row[a].state = "PLANNED" /\ row'[a].state = "STOPPED"
         \/ row[a].state \in {"SUBMITTING", "ACTIVE", "STOPPING"} /\ row'[a].state = "STOPPING"
         \/ vm[a] = "gone" /\ row[a].state # "NONE" /\ row'[a].state = "STOPPED",
         \/ vm' = vm
         \/ vm' = [vm EXCEPT ![a] = "deleting"] /\ Executions!Present(a),
         /\ pass' \in [Executions!Attempts -> PassRecord]
         /\ \A b \in Executions!Attempts : b # a => pass'[b] = pass[b],
         pass'[a].pc # "idle" /\ pass'[a].seen.state = "STOPPED" => row'[a].state = "STOPPED",
         pass'[a].pc = "ack" => row'[a].state = "STOPPED"
  PROVE  ExecutionTypes' /\ Kept
<1>1. ExecutionTypes /\ AttemptInv(a)
  BY DEF ExecutionsInv
<1>2. /\ vm' \in [Executions!Attempts -> {"none", "requested", "live", "ended", "deleting", "gone"}]
      /\ \A b \in Executions!Attempts : b # a => vm'[b] = vm[b]
      /\ \/ vm'[a] = vm[a]
         \/ vm'[a] = "deleting" /\ vm[a] \in {"live", "ended", "deleting"}
  BY <1>1 DEF ExecutionTypes, Executions!TypeOK, Executions!Present
<1>3. ExecutionTypes'
  BY <1>1, <1>2 DEF ExecutionTypes, Executions!TypeOK
<1>4. \A b \in Executions!Attempts : b # a => Same(b)
  BY <1>2 DEF Same
<1>5. AttemptInv(a)'
  <2>1. MachineHasRow(a)'
    BY <1>1, <1>2 DEF AttemptInv, MachineHasRow, LauncherAhead, Executions!MayRun
  <2>2. LauncherAhead(a)'
    BY <1>1, <1>2 DEF AttemptInv, LauncherAhead
  <2>3. PassIsRight(a)'
    BY DEF PassIsRight
  <2>4. ReleasedForGood(a)'
    BY <1>1, <1>2 DEF AttemptInv, MachineHasRow, ReleasedForGood, Executions!MayRun
  <2>5. Unclaimed(a)'
    BY <1>1 DEF AttemptInv, Unclaimed
  <2> QED BY <2>1, <2>2, <2>3, <2>4, <2>5 DEF AttemptInv
<1>6. Holds(a)' => Holds(a)
  BY DEF Holds
<1> QED BY <1>3, <1>4, <1>5, <1>6, OneAttempt

LEMMA PassBeginsKeeps ==
  ASSUME ExecutionsInv, NEW a \in Executions!Attempts, Executions!PassBegins(a)
  PROVE  ExecutionTypes' /\ Kept
<1>1. ExecutionTypes /\ AttemptInv(a)
  BY DEF ExecutionsInv
<1>2. UNCHANGED <<run, slot, row, tombs, vm, launcher, canceller, quarantine>>
      /\ row[a].state # "NONE"
  BY DEF Executions!PassBegins, Executions!PassFrame
<1> DEFINE p == [pc |-> "planned", stop |-> Executions!MustStop(a), seen |-> row[a], body |-> "none"]
<1>3. p \in PassRecord /\ p.pc = "planned" /\ p.seen = row[a]
  <2>1. Executions!MustStop(a) \in BOOLEAN
    BY <1>1 DEF Executions!MustStop, Executions!Revoked, ExecutionTypes, Executions!TypeOK
  <2> QED BY <1>1, <2>1, TypesOf DEF PassRecord, PassSteps, Bodies
<1>4. pass' = [pass EXCEPT ![a] = p]
  BY DEF Executions!PassBegins
<1> HIDE DEF p
<1>5. /\ pass' \in [Executions!Attempts -> PassRecord] /\ pass'[a] = p
      /\ \A b \in Executions!Attempts : b # a => pass'[b] = pass[b]
  BY <1>1, <1>3, <1>4, PassMoved
<1>6. ExecutionTypes'
  BY <1>1, <1>2, <1>5 DEF ExecutionTypes, Executions!TypeOK
<1>7. \A b \in Executions!Attempts : b # a => Same(b)
  BY <1>2, <1>5 DEF Same
<1>8. AttemptInv(a)' /\ (Holds(a)' => Holds(a))
  BY <1>1, <1>2, <1>3, <1>5
     DEF AttemptInv, MachineHasRow, LauncherAhead, PassIsRight, ReleasedForGood, Unclaimed,
         Holds, Executions!MayRun
<1> QED BY <1>6, <1>7, <1>8, OneAttempt

LEMMA PassStopsPlannedKeeps ==
  ASSUME ExecutionsInv, NEW a \in Executions!Attempts, Executions!PassStopsPlanned(a)
  PROVE  ExecutionTypes' /\ Kept
<1>1. ExecutionTypes /\ AttemptInv(a)
  BY DEF ExecutionsInv
<1>2. UNCHANGED <<run, slot, tombs, vm, launcher, canceller, quarantine>>
      /\ pass[a].pc = "planned"
  BY DEF Executions!PassStopsPlanned, Executions!PassFrame, Executions!PassAt
<1> DEFINE new == [row[a] EXCEPT !.state = IF @ = "PLANNED" THEN "STOPPED" ELSE "STOPPING"]
<1>3. new \in Executions!Row
      /\ new.state = IF row[a].state = "PLANNED" THEN "STOPPED" ELSE "STOPPING"
  BY <1>1, TypesOf DEF Executions!Row, Executions!RowState
<1>4. \/ Executions!Jump(a, "inspect") /\ row' = row
      \/ /\ Executions!Accepts(a, new) /\ Executions!WithRow(a, new)
         /\ Executions!JumpWith(a, "inspect", new)
      \/ Executions!Leave(a) /\ row' = row
  BY DEF Executions!PassStopsPlanned
<1> HIDE DEF new
<1>5. row \in [Executions!Attempts -> Executions!Row] /\ pass[a].seen \in Executions!Row
      /\ "inspect" \in PassSteps /\ "none" \in Bodies
  BY <1>1, TypesOf DEF ExecutionTypes, Executions!TypeOK, PassSteps, Bodies
<1>6. CASE Executions!Jump(a, "inspect") /\ row' = row
  <2>1. /\ pass' \in [Executions!Attempts -> PassRecord]
        /\ pass'[a].pc = "inspect" /\ pass'[a].seen = pass[a].seen
        /\ \A b \in Executions!Attempts : b # a => pass'[b] = pass[b]
    BY <1>1, <1>5, <1>6, PassGoesOn
  <2> QED BY <1>1, <1>2, <1>5, <1>6, <2>1, PassOverOne DEF AttemptInv, PassIsRight
<1>7. CASE /\ Executions!Accepts(a, new) /\ Executions!WithRow(a, new)
           /\ Executions!JumpWith(a, "inspect", new)
  <2>1. /\ pass' \in [Executions!Attempts -> PassRecord]
        /\ pass'[a].pc = "inspect" /\ pass'[a].seen = new
        /\ \A b \in Executions!Attempts : b # a => pass'[b] = pass[b]
    BY <1>1, <1>3, <1>5, <1>7, PassGoesOn
  <2>2. /\ row' \in [Executions!Attempts -> Executions!Row] /\ row'[a] = new
        /\ \A b \in Executions!Attempts : b # a => row'[b] = row[b]
    BY <1>1, <1>3, <1>7, RowReplaced
  <2>3. \/ row[a].state = "PLANNED" /\ row'[a].state = "STOPPED"
        \/ row[a].state \in {"SUBMITTING", "ACTIVE", "STOPPING"} /\ row'[a].state = "STOPPING"
    BY <1>1, <1>3, <1>7, <2>2, AcceptedUpdates
  <2> QED BY <1>2, <2>1, <2>2, <2>3, PassOverOne
<1>8. CASE Executions!Leave(a) /\ row' = row
  BY <1>1, <1>2, <1>5, <1>8, PassLeaves, PassOverOne
<1> QED BY <1>4, <1>6, <1>7, <1>8

LEMMA PassInspectsKeeps ==
  ASSUME ExecutionsInv, NEW a \in Executions!Attempts, Executions!PassInspects(a)
  PROVE  ExecutionTypes' /\ Kept
<1>1. ExecutionTypes /\ AttemptInv(a)
  BY DEF ExecutionsInv
<1>2. UNCHANGED <<run, slot, tombs, vm, launcher, canceller, quarantine>>
      /\ pass[a].pc = "inspect"
  BY DEF Executions!PassInspects, Executions!PassFrame, Executions!PassAt
<1> DEFINE new == [row[a] EXCEPT !.uid = TRUE]
           body == IF Executions!Present(a) THEN vm[a] ELSE "none"
<1>3. new \in Executions!Row /\ new.state = row[a].state /\ body \in Bodies
  BY <1>1, TypesOf DEF Executions!Row, Executions!Present, Bodies
<1>4. \/ pass[a].seen.state = "STOPPED" /\ Executions!Jump(a, "ack") /\ row' = row
      \/ pass' = [pass EXCEPT ![a].pc = "mark", ![a].body = body] /\ row' = row
      \/ /\ Executions!WithRow(a, new)
         /\ pass' = [pass EXCEPT ![a].pc = "mark", ![a].body = body, ![a].seen = new]
      \/ Executions!Leave(a) /\ row' = row
  BY DEF Executions!PassInspects
<1> HIDE DEF new, body
<1>5. row \in [Executions!Attempts -> Executions!Row] /\ pass[a].seen \in Executions!Row
      /\ "ack" \in PassSteps /\ "mark" \in PassSteps /\ "none" \in Bodies
  BY <1>1, TypesOf DEF ExecutionTypes, Executions!TypeOK, PassSteps, Bodies
<1>6. CASE pass[a].seen.state = "STOPPED" /\ Executions!Jump(a, "ack") /\ row' = row
  <2>1. /\ pass' \in [Executions!Attempts -> PassRecord]
        /\ pass'[a].pc = "ack" /\ pass'[a].seen = pass[a].seen
        /\ \A b \in Executions!Attempts : b # a => pass'[b] = pass[b]
    BY <1>1, <1>5, <1>6, PassGoesOn
  <2>2. row'[a].state = "STOPPED"
    BY <1>1, <1>2, <1>6 DEF AttemptInv, PassIsRight
  <2> QED BY <1>2, <1>5, <1>6, <2>1, <2>2, PassOverOne
<1>7. CASE pass' = [pass EXCEPT ![a].pc = "mark", ![a].body = body] /\ row' = row
  <2>1. /\ pass' \in [Executions!Attempts -> PassRecord]
        /\ pass'[a].pc = "mark" /\ pass'[a].seen = pass[a].seen
        /\ \A b \in Executions!Attempts : b # a => pass'[b] = pass[b]
    BY <1>1, <1>3, <1>5, <1>7, PassGoesOn
  <2> QED BY <1>1, <1>2, <1>5, <1>7, <2>1, PassOverOne DEF AttemptInv, PassIsRight
<1>8. CASE /\ Executions!WithRow(a, new)
           /\ pass' = [pass EXCEPT ![a].pc = "mark", ![a].body = body, ![a].seen = new]
  <2>1. /\ pass' \in [Executions!Attempts -> PassRecord]
        /\ pass'[a].pc = "mark" /\ pass'[a].seen = new
        /\ \A b \in Executions!Attempts : b # a => pass'[b] = pass[b]
    BY <1>1, <1>3, <1>5, <1>8, PassGoesOn
  <2>2. /\ row' \in [Executions!Attempts -> Executions!Row] /\ row'[a] = new
        /\ \A b \in Executions!Attempts : b # a => row'[b] = row[b]
    BY <1>1, <1>3, <1>8, RowReplaced
  <2> QED BY <1>2, <1>3, <2>1, <2>2, PassOverOne
<1>9. CASE Executions!Leave(a) /\ row' = row
  BY <1>1, <1>2, <1>5, <1>9, PassLeaves, PassOverOne
<1> QED BY <1>4, <1>6, <1>7, <1>8, <1>9

LEMMA PassMarksStoppingKeeps ==
  ASSUME ExecutionsInv, NEW a \in Executions!Attempts, Executions!PassMarksStopping(a)
  PROVE  ExecutionTypes' /\ Kept
<1>1. ExecutionTypes /\ AttemptInv(a)
  BY DEF ExecutionsInv
<1>2. UNCHANGED <<run, slot, tombs, vm, launcher, canceller, quarantine>>
      /\ pass[a].pc = "mark"
  BY DEF Executions!PassMarksStopping, Executions!PassFrame, Executions!PassAt
<1> DEFINE new == [row[a] EXCEPT !.state = "STOPPING"]
<1>3. new \in Executions!Row /\ new.state = "STOPPING"
  BY <1>1, TypesOf DEF Executions!Row, Executions!RowState
<1>4. \/ Executions!Leave(a) /\ row' = row
      \/ /\ Executions!Accepts(a, new) /\ Executions!WithRow(a, new)
         /\ Executions!JumpWith(a, "delete", new)
  BY DEF Executions!PassMarksStopping
<1> HIDE DEF new
<1>5. row \in [Executions!Attempts -> Executions!Row] /\ "delete" \in PassSteps
      /\ "none" \in Bodies
  BY <1>1 DEF ExecutionTypes, Executions!TypeOK, PassSteps, Bodies
<1>6. CASE Executions!Leave(a) /\ row' = row
  BY <1>1, <1>2, <1>5, <1>6, PassLeaves, PassOverOne
<1>7. CASE /\ Executions!Accepts(a, new) /\ Executions!WithRow(a, new)
           /\ Executions!JumpWith(a, "delete", new)
  <2>1. /\ pass' \in [Executions!Attempts -> PassRecord]
        /\ pass'[a].pc = "delete" /\ pass'[a].seen = new
        /\ \A b \in Executions!Attempts : b # a => pass'[b] = pass[b]
    BY <1>1, <1>3, <1>5, <1>7, PassGoesOn
  <2>2. /\ row' \in [Executions!Attempts -> Executions!Row] /\ row'[a] = new
        /\ \A b \in Executions!Attempts : b # a => row'[b] = row[b]
    BY <1>1, <1>3, <1>7, RowReplaced
  <2>3. row[a].state \in {"SUBMITTING", "ACTIVE", "STOPPING"} /\ row'[a].state = "STOPPING"
    BY <1>1, <1>3, <1>7, <2>2, AcceptedUpdates
  <2> QED BY <1>2, <1>3, <2>1, <2>2, <2>3, PassOverOne
<1> QED BY <1>4, <1>6, <1>7

LEMMA PassDeletesKeeps ==
  ASSUME ExecutionsInv, NEW a \in Executions!Attempts, Executions!PassDeletes(a)
  PROVE  ExecutionTypes' /\ Kept
<1>1. ExecutionTypes /\ AttemptInv(a)
  BY DEF ExecutionsInv
<1>2. UNCHANGED <<run, slot, tombs, launcher, canceller, quarantine>>
      /\ pass[a].pc = "delete"
  BY DEF Executions!PassDeletes, Executions!PassFrame, Executions!PassAt
<1> DEFINE new == [row[a] EXCEPT !.state = "STOPPING", !.op = TRUE]
           Deleted == vm' = [vm EXCEPT ![a] = "deleting"] /\ Executions!Present(a)
<1>3. new \in Executions!Row /\ new.state = "STOPPING"
  BY <1>1, TypesOf DEF Executions!Row, Executions!RowState
<1>4. \/ Executions!Jump(a, "prove") /\ UNCHANGED <<row, vm>>
      \/ /\ Deleted
         /\ Executions!Accepts(a, new) /\ Executions!WithRow(a, new)
         /\ Executions!JumpWith(a, "prove", new)
      \/ Deleted /\ Executions!Leave(a) /\ row' = row
      \/ Executions!Leave(a) /\ UNCHANGED <<row, vm>>
  BY DEF Executions!PassDeletes
<1> HIDE DEF new
<1>5. row \in [Executions!Attempts -> Executions!Row] /\ pass[a].seen \in Executions!Row
      /\ "prove" \in PassSteps /\ "none" \in Bodies
  BY <1>1, TypesOf DEF ExecutionTypes, Executions!TypeOK, PassSteps, Bodies
<1>6. CASE Executions!Jump(a, "prove") /\ UNCHANGED <<row, vm>>
  <2>1. /\ pass' \in [Executions!Attempts -> PassRecord]
        /\ pass'[a].pc = "prove" /\ pass'[a].seen = pass[a].seen
        /\ \A b \in Executions!Attempts : b # a => pass'[b] = pass[b]
    BY <1>1, <1>5, <1>6, PassGoesOn
  <2> QED BY <1>1, <1>2, <1>5, <1>6, <2>1, PassOverOne DEF AttemptInv, PassIsRight
<1>7. CASE /\ Deleted
           /\ Executions!Accepts(a, new) /\ Executions!WithRow(a, new)
           /\ Executions!JumpWith(a, "prove", new)
  <2>1. /\ pass' \in [Executions!Attempts -> PassRecord]
        /\ pass'[a].pc = "prove" /\ pass'[a].seen = new
        /\ \A b \in Executions!Attempts : b # a => pass'[b] = pass[b]
    BY <1>1, <1>3, <1>5, <1>7, PassGoesOn
  <2>2. /\ row' \in [Executions!Attempts -> Executions!Row] /\ row'[a] = new
        /\ \A b \in Executions!Attempts : b # a => row'[b] = row[b]
    BY <1>1, <1>3, <1>7, RowReplaced
  <2>3. row[a].state \in {"SUBMITTING", "ACTIVE", "STOPPING"} /\ row'[a].state = "STOPPING"
    BY <1>1, <1>3, <1>7, <2>2, AcceptedUpdates
  <2> QED BY <1>2, <1>3, <1>7, <2>1, <2>2, <2>3, PassOverOne
<1>8. CASE Deleted /\ Executions!Leave(a) /\ row' = row
  BY <1>1, <1>2, <1>5, <1>8, PassLeaves, PassOverOne
<1>9. CASE Executions!Leave(a) /\ UNCHANGED <<row, vm>>
  BY <1>1, <1>2, <1>5, <1>9, PassLeaves, PassOverOne
<1> QED BY <1>4, <1>6, <1>7, <1>8, <1>9

(* The row is stopped when its machine is gone, and not before.            *)
LEMMA PassProvesStoppedKeeps ==
  ASSUME ExecutionsInv, NEW a \in Executions!Attempts, Executions!PassProvesStopped(a)
  PROVE  ExecutionTypes' /\ Kept
<1>1. ExecutionTypes /\ AttemptInv(a)
  BY DEF ExecutionsInv
<1>2. UNCHANGED <<run, slot, tombs, vm, launcher, canceller, quarantine>>
      /\ pass[a].pc = "prove"
  BY DEF Executions!PassProvesStopped, Executions!PassFrame, Executions!PassAt
<1> DEFINE new == [row[a] EXCEPT !.state = "STOPPED"]
<1>3. new \in Executions!Row /\ new.state = "STOPPED"
  BY <1>1, TypesOf DEF Executions!Row, Executions!RowState
<1>4. \/ Executions!Leave(a) /\ row' = row
      \/ /\ Executions!Proven(a)
         /\ Executions!Accepts(a, new) /\ Executions!WithRow(a, new)
         /\ Executions!JumpWith(a, "ack", new)
  BY DEF Executions!PassProvesStopped
<1> HIDE DEF new
<1>5. row \in [Executions!Attempts -> Executions!Row] /\ "ack" \in PassSteps
      /\ "none" \in Bodies
  BY <1>1 DEF ExecutionTypes, Executions!TypeOK, PassSteps, Bodies
<1>6. CASE Executions!Leave(a) /\ row' = row
  BY <1>1, <1>2, <1>5, <1>6, PassLeaves, PassOverOne
<1>7. CASE /\ Executions!Proven(a)
           /\ Executions!Accepts(a, new) /\ Executions!WithRow(a, new)
           /\ Executions!JumpWith(a, "ack", new)
  <2>1. /\ pass' \in [Executions!Attempts -> PassRecord]
        /\ pass'[a].pc = "ack" /\ pass'[a].seen = new
        /\ \A b \in Executions!Attempts : b # a => pass'[b] = pass[b]
    BY <1>1, <1>3, <1>5, <1>7, PassGoesOn
  <2>2. /\ row' \in [Executions!Attempts -> Executions!Row] /\ row'[a] = new
        /\ \A b \in Executions!Attempts : b # a => row'[b] = row[b]
    BY <1>1, <1>3, <1>7, RowReplaced
  <2>3. vm[a] = "gone" /\ row[a].state # "NONE"
    BY <1>1, <1>3, <1>7, AcceptedUpdates DEF Executions!Proven
  <2> QED BY <1>2, <1>3, <2>1, <2>2, <2>3, PassOverOne
<1> QED BY <1>4, <1>6, <1>7

LEMMA PassAcknowledgesKeeps ==
  ASSUME ExecutionsInv, NEW a \in Executions!Attempts, Executions!PassAcknowledges(a)
  PROVE  ExecutionTypes' /\ Kept
<1>1. ExecutionTypes /\ AttemptInv(a)
  BY DEF ExecutionsInv
<1>2. /\ UNCHANGED <<row, vm, tombs, launcher, canceller, quarantine>>
      /\ row[a].state = "STOPPED"
  BY <1>1 DEF Executions!PassAcknowledges, Executions!PassFrame, Executions!PassAt, AttemptInv,
              PassIsRight
<1>3. /\ pass' \in [Executions!Attempts -> PassRecord] /\ pass'[a].pc = "idle"
      /\ \A b \in Executions!Attempts : b # a => pass'[b] = pass[b]
  BY <1>1, PassLeaves DEF Executions!PassAcknowledges
<1>4. /\ slot' \in [Executions!Attempts -> {"none", "open", "stop", "released"}]
      /\ slot'[a] = IF slot[a] \in {"open", "stop"} THEN "released" ELSE slot[a]
      /\ \A b \in Executions!Attempts : b # a => slot'[b] = slot[b]
      /\ run' \in [Runs -> [status : {"QUEUED", "PROCESSING", "CANCELLED", "FAILED"},
                            claims : 0..MaxAttempts, current : 0..MaxAttempts]]
      /\ \A r \in Runs : run'[r].claims = run[r].claims
  BY <1>1, AcknowledgedFrame DEF Executions!PassAcknowledges
<1>5. ExecutionTypes'
  BY <1>1, <1>2, <1>3, <1>4 DEF ExecutionTypes, Executions!TypeOK
<1>6. \A b \in Executions!Attempts : b # a => Same(b)
  BY <1>2, <1>3, <1>4, PairOfAttempt DEF Same
<1>7. AttemptInv(a)' /\ (Holds(a)' => Holds(a))
  BY <1>1, <1>2, <1>3, <1>4, PairOfAttempt
     DEF AttemptInv, MachineHasRow, LauncherAhead, PassIsRight, ReleasedForGood, Unclaimed,
         Holds, Executions!MayRun
<1> QED BY <1>5, <1>6, <1>7, OneAttempt

LEMMA PassFailsKeeps ==
  ASSUME ExecutionsInv, NEW a \in Executions!Attempts, Executions!PassFails(a)
  PROVE  ExecutionTypes' /\ Kept
<1>1. ExecutionTypes /\ row \in [Executions!Attempts -> Executions!Row]
  BY DEF ExecutionsInv, ExecutionTypes, Executions!TypeOK
<1>2. /\ UNCHANGED <<run, slot, row, vm, tombs, launcher, canceller, quarantine>>
      /\ pass[a].pc # "idle" /\ Executions!Leave(a)
  BY DEF Executions!PassFails, Executions!PassFrame
<1> QED BY <1>1, <1>2, PassLeaves, PassOverOne

-----------------------------------------------------------------------------
(* A claim is the only step that takes capacity, and takes it when there   *)
(* is some.                                                                *)
LEMMA ClaimKeeps ==
  ASSUME ExecutionsInv, NEW r \in Runs, Executions!Claim(r)
  PROVE  ExecutionsInv'
<1>1. ExecutionTypes
  BY DEF ExecutionsInv
<1> DEFINE Record == [status : {"QUEUED", "PROCESSING", "CANCELLED", "FAILED"},
                      claims : 0..MaxAttempts, current : 0..MaxAttempts]
<1>2. UNCHANGED <<row, tombs, vm, canceller, pass, quarantine>> /\ run \in [Runs -> Record]
  BY <1>1 DEF Executions!Claim, ExecutionTypes, Executions!TypeOK
<1>3. ASSUME NEW status \in {"CANCELLED", "FAILED"}, run' = [run EXCEPT ![r].status = status],
             UNCHANGED <<slot, launcher>>
      PROVE  ExecutionsInv'
  <2>1. run' \in [Runs -> Record] /\ \A q \in Runs : run'[q].claims = run[q].claims
    <3> DEFINE new == [run[r] EXCEPT !.status = status]
    <3>1. new \in Record /\ new.claims = run[r].claims
      BY <1>2
    <3>2. run' = [run EXCEPT ![r] = new]
      BY <1>3
    <3> HIDE DEF new
    <3> QED BY <1>2, <3>1, <3>2
  <2>2. ExecutionTypes'
    BY <1>1, <1>2, <1>3, <2>1 DEF ExecutionTypes, Executions!TypeOK
  <2> QED BY <1>2, <1>3, <2>1, <2>2, NoAttempt, KeptWithinLimit
<1>4. ASSUME run[r].claims < MaxAttempts, Executions!CapacityFree,
             NEW n \in Nat, n = run[r].claims + 1,
             run' = [run EXCEPT ![r] = [status |-> "PROCESSING", claims |-> n, current |-> n]],
             slot' = [slot EXCEPT ![<<r, n>>] = "open"],
             launcher' = [launcher EXCEPT ![<<r, n>>] = "plan"]
      PROVE  ExecutionsInv'
  <2> DEFINE a == <<r, n>>
  <2>1. a \in Executions!Attempts /\ a[1] = r /\ a[2] = n /\ n \in 1..MaxAttempts
        /\ run[r].claims \in 0..MaxAttempts
    BY <1>2, <1>4, PreviewsAssumption DEF Executions!Attempts
  <2>2. run' \in [Runs -> Record] /\ run'[r].claims = n
        /\ \A q \in Runs : q # r => run'[q] = run[q]
    BY <1>2, <1>4, <2>1, PreviewsAssumption
  <2> HIDE DEF a
  <2>3. /\ slot'[a] = "open" /\ launcher'[a] = "plan"
        /\ \A b \in Executions!Attempts : b # a => slot'[b] = slot[b] /\ launcher'[b] = launcher[b]
    BY <1>1, <1>4, <2>1 DEF ExecutionTypes, Executions!TypeOK, a
  <2>4. ExecutionTypes'
    <3>1. slot' \in [Executions!Attempts -> {"none", "open", "stop", "released"}]
          /\ launcher' \in [Executions!Attempts -> LauncherSteps]
      BY <1>1, <1>4, <2>1 DEF ExecutionTypes, Executions!TypeOK, LauncherSteps, a
    <3> QED BY <1>1, <1>2, <2>2, <3>1 DEF ExecutionTypes, Executions!TypeOK
  <2>5. AttemptInv(a) /\ row[a].state = "NONE" /\ vm[a] = "none" /\ pass[a].pc = "idle"
    BY <1>4, <2>1 DEF ExecutionsInv, AttemptInv, Unclaimed
  <2>6. AttemptInv(a)'
    BY <1>2, <2>1, <2>2, <2>3, <2>5
       DEF AttemptInv, MachineHasRow, LauncherAhead, PassIsRight, ReleasedForGood, Unclaimed,
           Executions!MayRun
  <2>7. ASSUME NEW b \in Executions!Attempts, b # a PROVE AttemptInv(b)'
    <3>1. AttemptInv(b) /\ b[1] \in Runs /\ b[2] \in 1..MaxAttempts
      BY PairOfAttempt DEF ExecutionsInv
    <3>2. run'[b[1]].claims \in Nat /\ run[b[1]].claims \in Nat
          /\ run'[b[1]].claims >= run[b[1]].claims
      BY <1>2, <1>4, <2>1, <2>2, <3>1
    <3>3. b[2] > run'[b[1]].claims => b[2] > run[b[1]].claims
      BY <3>1, <3>2
    <3> QED BY <1>2, <2>3, <2>7, <3>1, <3>3
               DEF AttemptInv, MachineHasRow, LauncherAhead, PassIsRight, ReleasedForGood,
                   Unclaimed, Executions!MayRun
  <2>8. HeldWithinLimit'
    <3> DEFINE Held == {b \in Executions!Attempts : Holds(b)}
               Open == Executions!OpenSlots
               Extra == Executions!ExtraSlots
    <3>1. Held = Open \cup Extra /\ Open \cap Extra = {}
      BY DEF Holds, Executions!OpenSlots, Executions!ExtraSlots
    <3>2. IsFiniteSet(Open) /\ IsFiniteSet(Extra) /\ IsFiniteSet(Held)
      BY AttemptsAreFinite, FS_Subset DEF Executions!OpenSlots, Executions!ExtraSlots
    <3>3. Cardinality(Open) + Cardinality(Extra) < SlotLimit
      BY <1>4, SameCardinality DEF Executions!CapacityFree
    <3>4. Held' \subseteq Held \cup {a}
      BY <1>2, <2>3 DEF Holds
    <3> HIDE DEF Held, Open, Extra
    <3>5. Cardinality(Held) = Cardinality(Open) + Cardinality(Extra)
      BY <3>1, <3>2, CardinalityOfUnion
    <3>6. /\ Cardinality(Held) \in Nat /\ Cardinality(Held') \in Nat
          /\ Cardinality(Held') <= Cardinality(Held) + 1
      BY <3>2, <3>4, OneMore
    <3>7. Cardinality(Held') <= SlotLimit
      BY <3>3, <3>5, <3>6, PreviewsAssumption
    <3> QED BY <3>7 DEF HeldWithinLimit, Held
  <2> QED BY <2>4, <2>6, <2>7, <2>8 DEF ExecutionsInv
<1>5. run[r].claims + 1 \in Nat
  BY <1>2
<1> QED BY <1>3, <1>4, <1>5 DEF Executions!Claim

LEMMA ExecutionsStep ==
  ASSUME ExecutionsInv, [Executions!Next]_executionVars
  PROVE  ExecutionsInv'
<1>1. ASSUME NEW r \in Runs,
             Executions!Tombstone(r) \/ Executions!CancelCommits(r) \/ Executions!CancelRollsBack(r)
      PROVE  ExecutionsInv'
  BY <1>1, CancellerKeeps, CancelCommitsKeeps, KeptWithinLimit
<1>2. ASSUME NEW a \in Executions!Attempts, Executions!LauncherStep(a) \/ Executions!LauncherStops(a)
      PROVE  ExecutionsInv'
  BY <1>2, PlanKeeps, SubmitKeeps, CreateKeeps, ReceiptKeeps, RejectedKeeps, LauncherStopsKeeps,
     KeptWithinLimit DEF Executions!LauncherStep
<1>3. ASSUME NEW a \in Executions!Attempts,
             \/ Executions!StopRow(a) \/ Executions!RemoteStep(a) \/ Executions!RequestStop(a)
      PROVE  ExecutionsInv'
  BY <1>3, StopRowKeeps, RemoteStepKeeps, RequestStopKeeps, KeptWithinLimit
<1>4. ASSUME NEW a \in Executions!Attempts, Executions!PassStep(a) \/ Executions!PassFails(a)
      PROVE  ExecutionsInv'
  BY <1>4, PassBeginsKeeps, PassStopsPlannedKeeps, PassInspectsKeeps, PassMarksStoppingKeeps,
     PassDeletesKeeps, PassProvesStoppedKeeps, PassAcknowledgesKeeps, PassFailsKeeps,
     KeptWithinLimit DEF Executions!PassStep
<1>5. ASSUME Executions!Restore \/ Executions!Released PROVE ExecutionsInv'
  BY <1>5, RestoreKeeps, ReleasedKeeps, KeptWithinLimit
<1>6. CASE UNCHANGED executionVars
  <2>1. ExecutionTypes'
    BY <1>6 DEF ExecutionsInv, ExecutionTypes, Executions!TypeOK, executionVars
  <2>2. \A a \in Executions!Attempts : AttemptInv(a) /\ Same(a)
    BY <1>6 DEF ExecutionsInv, Same, executionVars
  <2>3. Kept
    BY <2>2, SameKeeps DEF Kept
  <2> QED BY <2>1, <2>3, KeptWithinLimit
<1>7. CASE Executions!Next
  BY <1>1, <1>2, <1>3, <1>4, <1>5, <1>7, ClaimKeeps DEF Executions!Next
<1> QED BY <1>6, <1>7

LEMMA StepOfExecutions == [Next]_vars => [Executions!Next]_executionVars
  BY DEF Next, vars, JournalMoves, LogMoves, ExecutionMoves, WriteMoves, executionVars

(* The capacity, the rows and the machines of every state: a machine has a *)
(* row that is not stopped, a pass acts on what is still so, a released    *)
(* slot stays proven, and at most SlotLimit attempts hold capacity.        *)
THEOREM ExecutionsInvHolds == Spec => []ExecutionsInv
<1>1. Init => ExecutionsInv
  BY ExecutionsInit DEF Init
<1>2. ExecutionsInv /\ [Next]_vars => ExecutionsInv'
  BY ExecutionsStep, StepOfExecutions
<1> QED BY <1>1, <1>2, PTL DEF Spec

(* cloud_execution.py and batch_preview.py: a slot is refunded and a row   *)
(* stopped only when no machine of the attempt runs or can come to run,    *)
(* and the machines that may run are never more than the slots.            *)
THEOREM ExecutionsSoundHolds == Spec => []ExecutionsSound
<1>1. ExecutionsInv => ExecutionsSound
  <2> SUFFICES ASSUME ExecutionsInv PROVE ExecutionsSound
    OBVIOUS
  <2>1. Executions!TypeOK /\ \A a \in Executions!Attempts : AttemptInv(a)
    BY DEF ExecutionsInv, ExecutionTypes
  <2>2. Executions!RefundNeedsProof
    <3> SUFFICES ASSUME NEW a \in Executions!Attempts,
                        slot[a] = "released" \/ row[a].state = "STOPPED"
                 PROVE  ~Executions!MayRun(a)
      BY DEF Executions!RefundNeedsProof
    <3> QED BY <2>1 DEF AttemptInv, MachineHasRow, ReleasedForGood, Executions!MayRun
  <2>3. \A a \in Executions!Attempts : Executions!MayRun(a) => Holds(a)
    BY <2>1 DEF AttemptInv, MachineHasRow, Holds
  <2>4. \A a \in Executions!Attempts :
            Executions!MayRun(a) => a \in Executions!OpenSlots \cup Executions!ExtraSlots
    BY <2>3 DEF Holds, Executions!OpenSlots, Executions!ExtraSlots
  <2>5. Cardinality({a \in Executions!Attempts : Executions!MayRun(a)}) <= SlotLimit
    <3> DEFINE Held == {a \in Executions!Attempts : Holds(a)}
               Machines == {a \in Executions!Attempts : Executions!MayRun(a)}
    <3>1. Machines \subseteq Held
      BY <2>3
    <3>2. IsFiniteSet(Held) /\ Cardinality(Held) <= SlotLimit
      BY AttemptsAreFinite, FS_Subset DEF ExecutionsInv, HeldWithinLimit
    <3> HIDE DEF Held, Machines
    <3>3. IsFiniteSet(Machines) /\ Cardinality(Machines) <= Cardinality(Held)
      BY <3>1, <3>2, FS_Subset
    <3>4. Cardinality(Machines) \in Nat /\ Cardinality(Held) \in Nat
      BY <3>2, <3>3, FS_CardinalityType
    <3>5. Cardinality(Machines) <= SlotLimit
      BY <3>2, <3>3, <3>4, PreviewsAssumption
    <3> QED BY <3>5 DEF Machines
  <2>6. Executions!MachinesAccounted
    BY <2>4, <2>5, SameCardinality DEF Executions!MachinesAccounted
  <2> QED BY <2>1, <2>2, <2>6 DEF ExecutionsSound, Executions!ExecutionsSound
<1> QED BY <1>1, ExecutionsInvHolds, PTL

(* What a step may make of the rows and the launchers of a revoked run.    *)
RowsSubmitNothing ==
  \A a \in Executions!Attempts :
      a[1] \in tombs /\ row'[a].state = "SUBMITTING" => row[a].state = "SUBMITTING"
LaunchersSubmitNothing ==
  \A a \in Executions!Attempts :
      a[1] \in tombs /\ launcher'[a] = "create" => launcher[a] = "create"

LEMMA UpdateSubmitsNothing ==
  ASSUME ExecutionTypes, NEW a \in Executions!Attempts, NEW new, Executions!WithRow(a, new),
         new.state = "SUBMITTING" => row[a].state = "SUBMITTING" \/ a[1] \notin tombs
  PROVE  RowsSubmitNothing
<1>1. \A b \in Executions!Attempts : row'[b] = IF b = a THEN new ELSE row[b]
  BY DEF Executions!WithRow, ExecutionTypes, Executions!TypeOK
<1> QED BY <1>1 DEF RowsSubmitNothing

LEMMA MoveSubmitsNothing ==
  ASSUME ExecutionTypes, NEW a \in Executions!Attempts, NEW step, Executions!GoTo(a, step),
         step = "create" => a[1] \notin tombs
  PROVE  LaunchersSubmitNothing
<1>1. \A b \in Executions!Attempts : launcher'[b] = IF b = a THEN step ELSE launcher[b]
  BY DEF Executions!GoTo, ExecutionTypes
<1> QED BY <1>1 DEF LaunchersSubmitNothing

LEMMA UntouchedSubmitNothing ==
  /\ row' = row => RowsSubmitNothing
  /\ launcher' = launcher => LaunchersSubmitNothing
  BY DEF RowsSubmitNothing, LaunchersSubmitNothing

LEMMA LauncherSubmitsNothing ==
  ASSUME ExecutionTypes, NEW a \in Executions!Attempts,
         Executions!LauncherStep(a) \/ Executions!LauncherStops(a)
  PROVE  RowsSubmitNothing /\ LaunchersSubmitNothing
<1> USE UntouchedSubmitNothing
<1>1. CASE Executions!Plan(a)
  <2> DEFINE new == [Executions!NoRow EXCEPT !.state = "PLANNED"]
  <2>1. new.state = "PLANNED"
    BY DEF Executions!NoRow
  <2>2. \/ Executions!WithRow(a, new) /\ Executions!GoTo(a, "submit")
        \/ row' = row /\ Executions!GoTo(a, "rejected")
    BY <1>1 DEF Executions!Plan
  <2> HIDE DEF new
  <2> QED BY <2>1, <2>2, UpdateSubmitsNothing, MoveSubmitsNothing
<1>2. CASE Executions!Submit(a)
  <2> DEFINE new == [row[a] EXCEPT !.state = "SUBMITTING"]
  <2>1. new.state = "SUBMITTING"
    BY TypesOf DEF Executions!Row
  <2>2. \/ /\ Executions!Accepts(a, new) /\ Executions!WithRow(a, new)
           /\ Executions!GoTo(a, "create")
        \/ row' = row /\ \E step \in {"rejected", "uncertain"} : Executions!GoTo(a, step)
    BY <1>2 DEF Executions!Submit
  <2> HIDE DEF new
  <2>3. Executions!Accepts(a, new) => a[1] \notin tombs
    BY <2>1, AcceptedUpdates
  <2> QED BY <2>2, <2>3, UpdateSubmitsNothing, MoveSubmitsNothing
<1>3. CASE Executions!Create(a)
  <2> DEFINE new == [row[a] EXCEPT !.state = "STOPPED"]
  <2>1. new.state = "STOPPED"
    BY TypesOf DEF Executions!Row
  <2>2. row' = row \/ row' = [row EXCEPT ![a] = new]
    BY <1>3 DEF Executions!Create
  <2>3. \E step \in {"receipt", "uncertain", "rejected"} : Executions!GoTo(a, step)
    BY <1>3 DEF Executions!Create
  <2> HIDE DEF new
  <2>4. LaunchersSubmitNothing
    BY <2>3, MoveSubmitsNothing
  <2>5. RowsSubmitNothing
    BY <2>1, <2>2, UpdateSubmitsNothing DEF Executions!WithRow
  <2> QED BY <2>4, <2>5
<1>4. CASE Executions!Receipt(a)
  <2> DEFINE new == [row[a] EXCEPT !.uid = TRUE, !.state = IF @ = "SUBMITTING" THEN "ACTIVE" ELSE @]
  <2>1. new.state # "SUBMITTING"
    BY TypesOf DEF Executions!Row
  <2>2. \/ Executions!WithRow(a, new) /\ Executions!GoTo(a, "done")
        \/ row' = row /\ Executions!GoTo(a, "uncertain")
    BY <1>4 DEF Executions!Receipt, Executions!ReceiptLost
  <2> HIDE DEF new
  <2> QED BY <2>1, <2>2, UpdateSubmitsNothing, MoveSubmitsNothing
<1>5. CASE Executions!Rejected(a)
  <2>1. row' = row /\ Executions!GoTo(a, "done")
    BY <1>5 DEF Executions!Rejected
  <2> QED BY <2>1, MoveSubmitsNothing
<1>6. CASE Executions!LauncherStops(a)
  <2>1. row' = row /\ Executions!GoTo(a, "uncertain")
    BY <1>6 DEF Executions!LauncherStops
  <2> QED BY <2>1, MoveSubmitsNothing
<1> QED BY <1>1, <1>2, <1>3, <1>4, <1>5, <1>6 DEF Executions!LauncherStep

LEMMA OthersSubmitNothing ==
  ASSUME ExecutionTypes, NEW a \in Executions!Attempts,
         \/ Executions!StopRow(a) \/ Executions!RemoteStep(a) \/ Executions!RequestStop(a)
         \/ Executions!PassStep(a) \/ Executions!PassFails(a)
  PROVE  RowsSubmitNothing /\ LaunchersSubmitNothing
<1>1. LaunchersSubmitNothing
  BY UntouchedSubmitNothing
     DEF Executions!StopRow, Executions!RemoteStep, Executions!RequestStop, Executions!PassStep,
         Executions!PassFails, Executions!RequestResolves, Executions!TaskEnds,
         Executions!DeletionEnds, Executions!PassFrame, Executions!PassBegins,
         Executions!PassStopsPlanned, Executions!PassInspects, Executions!PassMarksStopping,
         Executions!PassDeletes, Executions!PassProvesStopped, Executions!PassAcknowledges
<1>2. ASSUME NEW new, Executions!WithRow(a, new),
             new.state = "SUBMITTING" => row[a].state = "SUBMITTING"
      PROVE  RowsSubmitNothing
  BY <1>2, UpdateSubmitsNothing
<1>3. ASSUME row' = row PROVE RowsSubmitNothing
  BY <1>3, UntouchedSubmitNothing
<1>4. row[a] \in Executions!Row
  BY TypesOf
<1>5. ASSUME NEW s, NEW new, s # "SUBMITTING", new = [row[a] EXCEPT !.state = s],
             Executions!WithRow(a, new)
      PROVE  RowsSubmitNothing
  BY <1>2, <1>4, <1>5 DEF Executions!Row
<1>6. CASE Executions!StopRow(a)
  <2> DEFINE new == [row[a] EXCEPT !.revoked = TRUE,
                     !.state = IF @ \in {"PLANNED", "STOPPED"} THEN "STOPPED" ELSE "STOPPING"]
  <2>1. Executions!WithRow(a, new)
    BY <1>6 DEF Executions!StopRow
  <2>2. new.state # "SUBMITTING"
    BY <1>4 DEF Executions!Row
  <2> HIDE DEF new
  <2> QED BY <1>1, <1>2, <2>1, <2>2
<1>7. CASE \/ Executions!RemoteStep(a) \/ Executions!RequestStop(a) \/ Executions!PassFails(a)
           \/ Executions!PassBegins(a) \/ Executions!PassAcknowledges(a)
  BY <1>1, <1>3, <1>7 DEF Executions!RemoteStep, Executions!RequestStop, Executions!PassFails,
         Executions!RequestResolves, Executions!TaskEnds, Executions!DeletionEnds,
         Executions!PassBegins, Executions!PassAcknowledges
<1>8. CASE Executions!PassStopsPlanned(a)
  <2> DEFINE s == IF row[a].state = "PLANNED" THEN "STOPPED" ELSE "STOPPING"
             new == [row[a] EXCEPT !.state = s]
  <2>1. row' = row \/ Executions!WithRow(a, new)
    BY <1>8 DEF Executions!PassStopsPlanned
  <2>2. s # "SUBMITTING"
    OBVIOUS
  <2> HIDE DEF s
  <2> QED BY <1>1, <1>3, <1>5, <2>1, <2>2
<1>9. CASE Executions!PassInspects(a)
  <2> DEFINE new == [row[a] EXCEPT !.uid = TRUE]
  <2>1. row' = row \/ Executions!WithRow(a, new)
    BY <1>9 DEF Executions!PassInspects
  <2>2. new.state = row[a].state
    BY <1>4 DEF Executions!Row
  <2> HIDE DEF new
  <2> QED BY <1>1, <1>2, <1>3, <2>1, <2>2
<1>10. CASE Executions!PassMarksStopping(a)
  <2>1. row' = row \/ Executions!WithRow(a, [row[a] EXCEPT !.state = "STOPPING"])
    BY <1>10 DEF Executions!PassMarksStopping
  <2> QED BY <1>1, <1>3, <1>5, <2>1
<1>11. CASE Executions!PassDeletes(a)
  <2> DEFINE new == [row[a] EXCEPT !.state = "STOPPING", !.op = TRUE]
  <2>1. row' = row \/ Executions!WithRow(a, new)
    BY <1>11 DEF Executions!PassDeletes
  <2>2. new.state = "STOPPING"
    BY <1>4 DEF Executions!Row
  <2> HIDE DEF new
  <2> QED BY <1>1, <1>2, <1>3, <2>1, <2>2
<1>12. CASE Executions!PassProvesStopped(a)
  <2>1. row' = row \/ Executions!WithRow(a, [row[a] EXCEPT !.state = "STOPPED"])
    BY <1>12 DEF Executions!PassProvesStopped
  <2> QED BY <1>1, <1>3, <1>5, <2>1
<1> QED BY <1>6, <1>7, <1>8, <1>9, <1>10, <1>11, <1>12 DEF Executions!PassStep

LEMMA RunsSubmitNothing ==
  ASSUME ExecutionTypes,
         \/ \E r \in Runs : \/ Executions!Claim(r) \/ Executions!Tombstone(r)
                            \/ Executions!CancelCommits(r) \/ Executions!CancelRollsBack(r)
         \/ Executions!Restore
         \/ Executions!Released
  PROVE  RowsSubmitNothing /\ LaunchersSubmitNothing
<1>1. RowsSubmitNothing
  BY UntouchedSubmitNothing
     DEF Executions!Claim, Executions!Tombstone, Executions!CancelCommits,
         Executions!CancelRollsBack, Executions!Restore, Executions!Released
<1>2. ASSUME NEW r \in Runs, Executions!Claim(r) PROVE LaunchersSubmitNothing
  <2>1. CASE launcher' = launcher
    BY <2>1, UntouchedSubmitNothing
  <2>2. ASSUME NEW b, launcher' = [launcher EXCEPT ![b] = "plan"] PROVE LaunchersSubmitNothing
    BY <2>2 DEF LaunchersSubmitNothing, ExecutionTypes
  <2> QED BY <1>2, <2>1, <2>2 DEF Executions!Claim
<1>3. Executions!Restore => LaunchersSubmitNothing
  BY DEF Executions!Restore, LaunchersSubmitNothing
<1>4. ASSUME NEW r \in Runs,
             \/ Executions!Tombstone(r) \/ Executions!CancelCommits(r)
             \/ Executions!CancelRollsBack(r)
      PROVE  LaunchersSubmitNothing
  BY <1>4, UntouchedSubmitNothing
     DEF Executions!Tombstone, Executions!CancelCommits, Executions!CancelRollsBack
<1>5. Executions!Released => LaunchersSubmitNothing
  BY UntouchedSubmitNothing DEF Executions!Released
<1> QED BY <1>1, <1>2, <1>3, <1>4, <1>5

(* cloud_execution.py, cloud_journal.py: once the journal holds a run's    *)
(* tombstone no attempt of it is submitted any more, whatever SQL says.    *)
THEOREM TombstoneIsFinalHolds == Spec => TombstoneIsFinal
<1>1. ASSUME ExecutionsInv, [Next]_vars, ~(UNCHANGED Executions!vars)
      PROVE  \A a \in Executions!Attempts : a[1] \in tombs =>
                 /\ (row[a].state # "SUBMITTING" => row[a].state' # "SUBMITTING")
                 /\ (launcher[a] # "create" => launcher'[a] # "create")
  <2>1. Executions!Next
    BY <1>1, StepOfExecutions DEF executionVars, Executions!vars
  <2>2. ExecutionTypes
    BY <1>1 DEF ExecutionsInv
  <2>3. RowsSubmitNothing /\ LaunchersSubmitNothing
    <3>1. CASE \E a \in Executions!Attempts :
                   \/ Executions!LauncherStep(a) \/ Executions!LauncherStops(a)
      BY <2>2, <3>1, LauncherSubmitsNothing
    <3>2. CASE \E a \in Executions!Attempts :
                   \/ Executions!StopRow(a) \/ Executions!RemoteStep(a) \/ Executions!RequestStop(a)
                   \/ Executions!PassStep(a) \/ Executions!PassFails(a)
      BY <2>2, <3>2, OthersSubmitNothing
    <3>3. CASE \/ \E r \in Runs : \/ Executions!Claim(r) \/ Executions!Tombstone(r)
                                  \/ Executions!CancelCommits(r) \/ Executions!CancelRollsBack(r)
               \/ Executions!Restore
               \/ Executions!Released
      BY <2>2, <3>3, RunsSubmitNothing
    <3> QED BY <2>1, <3>1, <3>2, <3>3 DEF Executions!Next
  <2> QED BY <2>3 DEF RowsSubmitNothing, LaunchersSubmitNothing
<1> QED BY <1>1, ExecutionsInvHolds, PTL
        DEF Spec, TombstoneIsFinal, Executions!TombstoneIsFinal
-----------------------------------------------------------------------------
(* The write ledger. *)

WriteTypes ==
  /\ Writes!TypeOK
  /\ session \in [Writes!Attempts -> [Files -> {"none", "open", "closed"}]]
  /\ object \in [Writes!Attempts -> [Files -> BOOLEAN]]
  /\ file \in [Writes!Attempts -> Files]

(* A run whose heartbeats succeed holds its slot.                          *)
HeartbeatHoldsSlot == \A k \in Writes!Attempts : Writes!Heartbeat(k) => k \in slots

(* While a coordinator waits for a session the ledger says so.             *)
WaitsInitializing ==
  \A k \in Writes!Attempts :
      at[k] \in {"begin", "record"} => intent[k].files[file[k]] = "INITIALIZING"

(* What the state of an intent says of its files.                          *)
UnplannedIsUntouched ==
  \A k \in Writes!Attempts : intent[k].state = "NONE" =>
      \A f \in Files : intent[k].files[f] = "PLANNED" /\ ~object[k][f]
PublishedIsFinal ==
  \A k \in Writes!Attempts : intent[k].state = "PUBLISHED" =>
      \A f \in Files : intent[k].files[f] = "FINALIZED"
ErasedIsStopped ==
  \A k \in Writes!Attempts : intent[k].state = "ERASED" =>
      \A f \in Files : intent[k].files[f] = "STOPPED" /\ ~object[k][f]

(* A finalized file is there; so is one about to be finalized, unless its  *)
(* attempt was cleaned up meanwhile.                                       *)
FinalIsThere ==
  \A k \in Writes!Attempts :
      /\ \A f \in Files : intent[k].files[f] = "FINALIZED" => object[k][f]
      /\ at[k] = "final" => intent[k].files[file[k]] = "STOPPED" \/ object[k][file[k]]

(* A purged preview has no objects and no file on its way; an attempt that *)
(* is claimed after the purge has not begun its conversion.                *)
PurgedIsQuiet ==
  preview.state = "PURGED" =>
      \A k \in Writes!Attempts :
          /\ Writes!Heartbeat(k) => at[k] \in {"start", "dead"}
          /\ \A f \in Files : /\ ~object[k][f]
                              /\ intent[k].files[f] \in {"PLANNED", "STOPPED"}

LedgerInv ==
  /\ WaitsInitializing
  /\ UnplannedIsUntouched
  /\ PublishedIsFinal
  /\ ErasedIsStopped
  /\ FinalIsThere
  /\ Writes!CapabilityKnown

WritesInv ==
  /\ WriteTypes
  /\ LedgerInv
  /\ HeartbeatHoldsSlot
  /\ PurgedIsQuiet

LEMMA FilesAreNumbered ==
  /\ 1 \in Files
  /\ Writes!Last = Cardinality(Files)
  /\ \A f \in Files : f # Writes!Last => f + 1 \in Files
<1> DEFINE n == Cardinality(Files)
<1>1. n \in Nat
  BY PreviewsAssumption, FS_CardinalityType
<1>2. Files = 1..n /\ Files # {}
  BY PreviewsAssumption
<1> HIDE DEF n
<1>3. n \in Files /\ 1 \in Files /\ \A g \in Files : g <= n
  BY <1>1, <1>2
<1>4. Writes!Last \in Files /\ \A g \in Files : g <= Writes!Last
  BY <1>3 DEF Writes!Last
<1>5. Writes!Last = n
  BY <1>1, <1>2, <1>3, <1>4
<1>6. \A f \in Files : f # n => f + 1 \in Files
  BY <1>1, <1>2
<1> QED BY <1>3, <1>5, <1>6 DEF n

LEMMA StatesOfFiles ==
  ASSUME WriteTypes, NEW k \in Writes!Attempts
  PROVE  /\ intent[k] \in [state : Writes!IntentState, files : [Files -> Writes!FileState]]
         /\ intent[k].state \in Writes!IntentState
         /\ \A f \in Files : intent[k].files[f] \in Writes!FileState
         /\ at[k] \in Writes!Steps /\ file[k] \in Files
         /\ k \in 1..MaxAttempts
  BY DEF WriteTypes, Writes!TypeOK, Writes!Attempts

(* The ledger's two writes, file by file.                                  *)
LEMMA FileRecorded ==
  ASSUME WriteTypes, NEW k \in Writes!Attempts, NEW f \in Files, NEW s \in Writes!FileState,
         Writes!WithFile(k, f, s)
  PROVE  /\ intent' \in [Writes!Attempts -> [state : Writes!IntentState,
                                             files : [Files -> Writes!FileState]]]
         /\ \A j \in Writes!Attempts :
                /\ intent'[j].state = intent[j].state
                /\ \A g \in Files : intent'[j].files[g] =
                       IF j = k /\ g = f THEN s ELSE intent[j].files[g]
<1> DEFINE rows == [intent[k].files EXCEPT ![f] = s]
           new == [intent[k] EXCEPT !.files = rows]
<1>1. intent[k] \in [state : Writes!IntentState, files : [Files -> Writes!FileState]]
  BY StatesOfFiles
<1>2. rows \in [Files -> Writes!FileState]
      /\ \A g \in Files : rows[g] = IF g = f THEN s ELSE intent[k].files[g]
  BY <1>1
<1>3. intent' = [intent EXCEPT ![k] = [intent[k] EXCEPT !.files = [intent[k].files EXCEPT ![f] = s]]]
  BY DEF Writes!WithFile
<1>4. intent' = [intent EXCEPT ![k] = new]
  BY <1>3
<1> HIDE DEF rows
<1>5. /\ new \in [state : Writes!IntentState, files : [Files -> Writes!FileState]]
      /\ new.state = intent[k].state /\ new.files = rows
  BY <1>1, <1>2
<1> HIDE DEF new
<1>6. intent \in [Writes!Attempts -> [state : Writes!IntentState,
                                      files : [Files -> Writes!FileState]]]
  BY DEF WriteTypes, Writes!TypeOK
<1>7. /\ intent' \in [Writes!Attempts -> [state : Writes!IntentState,
                                          files : [Files -> Writes!FileState]]]
      /\ \A j \in Writes!Attempts : intent'[j] = IF j = k THEN new ELSE intent[j]
  BY <1>4, <1>5, <1>6
<1> QED BY <1>2, <1>5, <1>7

LEMMA IntentMarked ==
  ASSUME WriteTypes, NEW k \in Writes!Attempts, NEW s \in Writes!IntentState,
         Writes!WithIntent(k, s)
  PROVE  /\ intent' \in [Writes!Attempts -> [state : Writes!IntentState,
                                             files : [Files -> Writes!FileState]]]
         /\ \A j \in Writes!Attempts :
                /\ intent'[j].state = IF j = k THEN s ELSE intent[j].state
                /\ intent'[j].files = intent[j].files
<1> DEFINE new == [intent[k] EXCEPT !.state = s]
<1>1. intent[k] \in [state : Writes!IntentState, files : [Files -> Writes!FileState]]
  BY StatesOfFiles
<1>2. /\ new \in [state : Writes!IntentState, files : [Files -> Writes!FileState]]
      /\ new.state = s /\ new.files = intent[k].files
  BY <1>1
<1>3. intent' = [intent EXCEPT ![k] = new]
  BY DEF Writes!WithIntent
<1> HIDE DEF new
<1>4. intent \in [Writes!Attempts -> [state : Writes!IntentState,
                                      files : [Files -> Writes!FileState]]]
  BY DEF WriteTypes, Writes!TypeOK
<1>5. /\ intent' \in [Writes!Attempts -> [state : Writes!IntentState,
                                          files : [Files -> Writes!FileState]]]
      /\ \A j \in Writes!Attempts : intent'[j] = IF j = k THEN new ELSE intent[j]
  BY <1>2, <1>3, <1>4
<1> QED BY <1>2, <1>5

SessionWritten(k, f, s) == session' = [session EXCEPT ![k][f] = s]

LEMMA SessionSet ==
  ASSUME WriteTypes, NEW k \in Writes!Attempts, NEW f \in Files, NEW s \in {"none", "open", "closed"},
         SessionWritten(k, f, s)
  PROVE  /\ session' \in [Writes!Attempts -> [Files -> {"none", "open", "closed"}]]
         /\ \A j \in Writes!Attempts : \A g \in Files :
                session'[j][g] = IF j = k /\ g = f THEN s ELSE session[j][g]
<1> DEFINE new == [session[k] EXCEPT ![f] = s]
<1>1. session \in [Writes!Attempts -> [Files -> {"none", "open", "closed"}]]
  BY DEF WriteTypes
<1>2. /\ new \in [Files -> {"none", "open", "closed"}]
      /\ \A g \in Files : new[g] = IF g = f THEN s ELSE session[k][g]
  BY <1>1
<1>3. session' = [session EXCEPT ![k] = new]
  BY DEF SessionWritten
<1> HIDE DEF new
<1>4. /\ session' \in [Writes!Attempts -> [Files -> {"none", "open", "closed"}]]
      /\ \A j \in Writes!Attempts : session'[j] = IF j = k THEN new ELSE session[j]
  BY <1>1, <1>2, <1>3
<1> QED BY <1>2, <1>4

LEMMA CoordinatorMoved ==
  ASSUME WriteTypes, NEW k \in Writes!Attempts, NEW step \in Writes!Steps, Writes!GoTo(k, step)
  PROVE  /\ at' \in [Writes!Attempts -> Writes!Steps]
         /\ at'[k] = step
         /\ \A j \in Writes!Attempts : j # k => at'[j] = at[j]
  BY DEF WriteTypes, Writes!TypeOK, Writes!GoTo

LEMMA WritesInit == Writes!Init => WritesInv
<1> SUFFICES ASSUME Writes!Init PROVE WritesInv
  OBVIOUS
<1>1. 0 \in 0..MaxAttempts
  BY PreviewsAssumption
<1>2. WriteTypes
  BY <1>1, FilesAreNumbered
     DEF Writes!Init, WriteTypes, Writes!TypeOK, Writes!IntentState, Writes!FileState, Writes!Steps
<1>3. LedgerInv
  BY <1>2 DEF Writes!Init, LedgerInv, WaitsInitializing, UnplannedIsUntouched, PublishedIsFinal,
              ErasedIsStopped, FinalIsThere, Writes!CapabilityKnown
<1>4. HeartbeatHoldsSlot /\ PurgedIsQuiet
  BY DEF Writes!Init, HeartbeatHoldsSlot, PurgedIsQuiet, Writes!Heartbeat
<1> QED BY <1>2, <1>3, <1>4 DEF WritesInv
-----------------------------------------------------------------------------
(* Steps that leave the ledger and the provider alone. *)

LEMMA LedgerQuiet ==
  ASSUME WriteTypes, LedgerInv, UNCHANGED <<intent, session, object>>,
         \A j \in Writes!Attempts :
             \/ at'[j] = at[j] /\ file'[j] = file[j]
             \/ at'[j] \notin {"begin", "record", "final"}
  PROVE  LedgerInv'
  BY DEF LedgerInv, WaitsInitializing, UnplannedIsUntouched, PublishedIsFinal, ErasedIsStopped,
         FinalIsThere, Writes!CapabilityKnown

LEMMA SqlKeeps ==
  ASSUME WritesInv,
         \/ Writes!Enqueue
         \/ \E k \in Writes!Attempts : Writes!Lapse(k) \/ Writes!Acknowledge(k)
  PROVE  WritesInv'
<1>1. WriteTypes /\ LedgerInv /\ HeartbeatHoldsSlot /\ PurgedIsQuiet
  BY DEF WritesInv
<1>2. UNCHANGED <<intent, session, object, at, file>>
  BY DEF Writes!Enqueue, Writes!Lapse, Writes!Acknowledge, Writes!remote
<1>3. LedgerInv'
  BY <1>1, <1>2, LedgerQuiet
<1>4. 0 \in 0..MaxAttempts /\ 0 \notin Writes!Attempts
  BY PreviewsAssumption DEF Writes!Attempts
<1>5. /\ preview' \in [state : {"NONE", "QUEUED", "READY", "PURGING", "PURGED"},
                       fence : 0..MaxAttempts, pending : BOOLEAN, manifest : BOOLEAN]
      /\ previewRun' \in [status : {"NONE", "QUEUED", "PROCESSING", "READY", "FAILED", "CANCELLED"},
                          current : 0..MaxAttempts]
      /\ slots' \subseteq Writes!Attempts
  <2> USE DEF WriteTypes, Writes!TypeOK
  <2>1. CASE Writes!Enqueue
    BY <1>1, <1>4, <2>1 DEF Writes!Enqueue
  <2>2. ASSUME NEW k \in Writes!Attempts, Writes!Lapse(k)
        PROVE  /\ UNCHANGED <<preview, slots>>
               /\ previewRun' \in [status : {"NONE", "QUEUED", "PROCESSING", "READY", "FAILED", "CANCELLED"},
                                   current : 0..MaxAttempts]
    BY <1>1, <1>4, <2>2 DEF Writes!Lapse
  <2>3. ASSUME NEW k \in Writes!Attempts, Writes!Acknowledge(k)
        PROVE  /\ preview' = preview /\ slots' \subseteq Writes!Attempts
               /\ previewRun' \in [status : {"NONE", "QUEUED", "PROCESSING", "READY", "FAILED", "CANCELLED"},
                                   current : 0..MaxAttempts]
    BY <1>1, <1>4, <2>3 DEF Writes!Acknowledge
  <2> QED BY <1>1, <2>1, <2>2, <2>3
<1>6. WriteTypes'
  BY <1>1, <1>2, <1>5 DEF WriteTypes, Writes!TypeOK
<1>7. \A j \in Writes!Attempts : Writes!Heartbeat(j)' => Writes!Heartbeat(j) /\ j \in slots'
  <2>1. CASE Writes!Enqueue
    BY <2>1 DEF Writes!Enqueue, Writes!Heartbeat
  <2>2. ASSUME NEW k \in Writes!Attempts, Writes!Lapse(k)
        PROVE  \A j \in Writes!Attempts : ~Writes!Heartbeat(j)'
    <3>1. previewRun' = [previewRun EXCEPT !.current = 0]
      BY <2>2 DEF Writes!Lapse
    <3>2. previewRun'.current = 0
      BY <1>1, <3>1 DEF WriteTypes, Writes!TypeOK
    <3> QED BY <1>4, <3>2 DEF Writes!Heartbeat
  <2>3. ASSUME NEW k \in Writes!Attempts, Writes!Acknowledge(k)
        PROVE  \A j \in Writes!Attempts : ~Writes!Heartbeat(j)'
    BY <2>3 DEF Writes!Acknowledge, Writes!Heartbeat
  <2> QED BY <2>1, <2>2, <2>3
<1>8. preview'.state = "PURGED" => preview' = preview
  BY DEF Writes!Enqueue, Writes!Lapse, Writes!Acknowledge
<1>9. HeartbeatHoldsSlot' /\ PurgedIsQuiet'
  BY <1>1, <1>2, <1>7, <1>8 DEF HeartbeatHoldsSlot, PurgedIsQuiet
<1> QED BY <1>3, <1>6, <1>9 DEF WritesInv

(* A purge finds every intent erased or never planned, so that there is no *)
(* object left to erase, and no open slot, so that no heartbeat succeeds.  *)
LEMMA PurgePreviewKeeps ==
  ASSUME WritesInv, Writes!PurgePreview
  PROVE  WritesInv'
<1>1. WriteTypes /\ LedgerInv /\ HeartbeatHoldsSlot
  BY DEF WritesInv
<1>2. /\ UNCHANGED <<previewRun, slots, intent, session, at, file>>
      /\ slots = {}
      /\ object' = [k \in Writes!Attempts |-> [f \in Files |-> FALSE]]
      /\ \A k \in Writes!Attempts : intent[k].state \in {"NONE", "ERASED"}
      /\ preview' = [preview EXCEPT !.state = "PURGED", !.pending = FALSE, !.manifest = FALSE]
  BY DEF Writes!PurgePreview, Writes!PurgeReady, Writes!Planned
<1>3. \A k \in Writes!Attempts : \A f \in Files :
          ~object[k][f] /\ intent[k].files[f] \in {"PLANNED", "STOPPED"}
  BY <1>1, <1>2 DEF LedgerInv, UnplannedIsUntouched, ErasedIsStopped
<1>4. object' = object
  <2>1. object \in [Writes!Attempts -> [Files -> BOOLEAN]]
    BY <1>1 DEF WriteTypes
  <2>2. ASSUME NEW k \in Writes!Attempts PROVE object[k] = [f \in Files |-> FALSE]
    <3>1. object[k] \in [Files -> BOOLEAN]
      BY <2>1
    <3>2. \A f \in Files : object[k][f] = FALSE
      BY <1>3, <3>1
    <3> QED BY <3>1, <3>2
  <2> QED BY <1>2, <2>1, <2>2
<1>5. LedgerInv'
  BY <1>1, <1>2, <1>4, LedgerQuiet
<1>6. preview' \in [state : {"NONE", "QUEUED", "READY", "PURGING", "PURGED"},
                     fence : 0..MaxAttempts, pending : BOOLEAN, manifest : BOOLEAN]
  <2>1. PICK b \in BOOLEAN : b = FALSE
    OBVIOUS
  <2>2. preview' = [preview EXCEPT !.state = "PURGED", !.pending = b, !.manifest = b]
    BY <1>2, <2>1
  <2> QED BY <1>1, <2>2 DEF WriteTypes, Writes!TypeOK
<1>7. WriteTypes'
  BY <1>1, <1>2, <1>4, <1>6 DEF WriteTypes, Writes!TypeOK
<1>8. \A k \in Writes!Attempts : ~Writes!Heartbeat(k)'
  BY <1>1, <1>2 DEF HeartbeatHoldsSlot, Writes!Heartbeat
<1>9. HeartbeatHoldsSlot' /\ PurgedIsQuiet'
  BY <1>2, <1>3, <1>4, <1>8 DEF HeartbeatHoldsSlot, PurgedIsQuiet
<1> QED BY <1>5, <1>7, <1>9 DEF WritesInv

LEMMA QuietMoveKeeps ==
  ASSUME WritesInv, NEW k \in Writes!Attempts,
         \/ Writes!Claim(k) \/ Writes!Stops(k) \/ Writes!StartPreview(k)
         \/ Writes!MarkPending(k) \/ Writes!FileSaved(k)
  PROVE  WritesInv'
<1>1. WriteTypes /\ LedgerInv /\ HeartbeatHoldsSlot /\ PurgedIsQuiet
  BY DEF WritesInv
<1>2. UNCHANGED <<intent, session, object>>
  BY DEF Writes!Claim, Writes!Stops, Writes!StartPreview, Writes!MarkPending, Writes!FileSaved,
         Writes!remote
<1>4. PICK step \in {"start", "dead", "plan", "init", "mark", "complete"} : Writes!GoTo(k, step)
  BY DEF Writes!Claim, Writes!Stops, Writes!StartPreview, Writes!MarkPending, Writes!FileSaved
<1>5. /\ at' \in [Writes!Attempts -> Writes!Steps]
      /\ at'[k] = step
      /\ \A j \in Writes!Attempts : j # k => at'[j] = at[j]
  <2>1. step \in Writes!Steps
    BY DEF Writes!Steps
  <2> QED BY <1>1, <1>4, <2>1, CoordinatorMoved
<1>6. /\ file' \in [Writes!Attempts -> Files]
      /\ \A j \in Writes!Attempts : j # k => file'[j] = file[j]
  <2>1. file \in [Writes!Attempts -> Files]
    BY <1>1 DEF WriteTypes
  <2>2. file' = file \/ file' = [file EXCEPT ![k] = IF file[k] = Writes!Last THEN file[k] ELSE file[k] + 1]
    BY DEF Writes!Claim, Writes!Stops, Writes!StartPreview, Writes!MarkPending, Writes!FileSaved
  <2>3. (IF file[k] = Writes!Last THEN file[k] ELSE file[k] + 1) \in Files
    BY <2>1, FilesAreNumbered
  <2> QED BY <2>1, <2>2, <2>3
<1>7. LedgerInv'
  BY <1>1, <1>2, <1>4, <1>5, <1>6, LedgerQuiet
<1>9. /\ preview' \in [state : {"NONE", "QUEUED", "READY", "PURGING", "PURGED"},
                       fence : 0..MaxAttempts, pending : BOOLEAN, manifest : BOOLEAN]
      /\ preview'.state = preview.state
  <2>1. k \in 0..MaxAttempts
    BY PreviewsAssumption DEF Writes!Attempts
  <2>2. preview \in [state : {"NONE", "QUEUED", "READY", "PURGING", "PURGED"},
                     fence : 0..MaxAttempts, pending : BOOLEAN, manifest : BOOLEAN]
    BY <1>1 DEF WriteTypes, Writes!TypeOK
  <2>3. CASE preview' = preview
    BY <2>2, <2>3
  <2>4. CASE Writes!StartPreview(k)
    BY <2>1, <2>2, <2>4 DEF Writes!StartPreview
  <2>5. CASE Writes!MarkPending(k)
    <3>1. PICK b \in BOOLEAN : preview' = [preview EXCEPT !.pending = b]
      BY <2>2, <2>5 DEF Writes!MarkPending
    <3> QED BY <2>2, <3>1
  <2>6. CASE Writes!FileSaved(k)
    <3> DEFINE b == IF preview.fence = k THEN FALSE ELSE preview.pending
               c == preview.manifest \/ (file[k] = Writes!Last /\ preview.state = "QUEUED"
                                                              /\ preview.fence = k)
    <3>1. preview' = [preview EXCEPT !.pending = b, !.manifest = c]
      BY <2>6 DEF Writes!FileSaved
    <3>2. b \in BOOLEAN /\ c \in BOOLEAN
      BY <2>2
    <3> HIDE DEF b, c
    <3> QED BY <2>2, <3>1, <3>2
  <2> QED BY <2>3, <2>4, <2>5, <2>6 DEF Writes!Claim, Writes!Stops
<1>10. previewRun' \in [status : {"NONE", "QUEUED", "PROCESSING", "READY", "FAILED", "CANCELLED"},
                        current : 0..MaxAttempts]
  <2>1. 0 \in 0..MaxAttempts /\ k \in 0..MaxAttempts
    BY PreviewsAssumption DEF Writes!Attempts
  <2>2. previewRun \in [status : {"NONE", "QUEUED", "PROCESSING", "READY", "FAILED", "CANCELLED"},
                        current : 0..MaxAttempts]
    BY <1>1 DEF WriteTypes, Writes!TypeOK
  <2>3. \/ previewRun' = previewRun
        \/ previewRun.status = "QUEUED" /\ previewRun' = [status |-> "PROCESSING", current |-> k]
        \/ previewRun' = [previewRun EXCEPT !.status = "FAILED", !.current = 0]
    BY DEF Writes!Claim, Writes!Stops, Writes!StartPreview, Writes!MarkPending, Writes!FileSaved
  <2>4. CASE previewRun' = previewRun
    BY <2>2, <2>4
  <2>5. CASE previewRun.status = "QUEUED" /\ previewRun' = [status |-> "PROCESSING", current |-> k]
    BY <2>1, <2>5
  <2>6. CASE previewRun' = [previewRun EXCEPT !.status = "FAILED", !.current = 0]
    BY <2>1, <2>2, <2>6
  <2> QED BY <2>3, <2>4, <2>5, <2>6
<1>11. slots' \subseteq Writes!Attempts
  BY <1>1 DEF Writes!Claim, Writes!Stops, Writes!StartPreview, Writes!MarkPending,
              Writes!FileSaved, WriteTypes, Writes!TypeOK
<1>12. WriteTypes'
  BY <1>1, <1>2, <1>5, <1>6, <1>9, <1>10, <1>11 DEF WriteTypes, Writes!TypeOK
<1>13. HeartbeatHoldsSlot' /\ PurgedIsQuiet'
  <2>1. CASE Writes!Claim(k)
    <3>1. /\ previewRun' = [status |-> "PROCESSING", current |-> k]
          /\ slots' = slots \cup {k} /\ preview' = preview /\ Writes!GoTo(k, "start")
      BY <2>1 DEF Writes!Claim
    <3>2. at'[k] = "start"
      BY <1>1, <3>1, CoordinatorMoved DEF Writes!Steps
    <3>3. \A j \in Writes!Attempts : Writes!Heartbeat(j)' => j = k
      BY <3>1 DEF Writes!Heartbeat
    <3>4. HeartbeatHoldsSlot'
      BY <3>1, <3>3 DEF HeartbeatHoldsSlot
    <3>5. PurgedIsQuiet'
      BY <1>1, <1>2, <3>1, <3>2, <3>3 DEF PurgedIsQuiet
    <3> QED BY <3>4, <3>5
  <2>2. CASE ~Writes!Claim(k)
    <3>1. slots' = slots /\ \A j \in Writes!Attempts : Writes!Heartbeat(j)' => Writes!Heartbeat(j)
      <4>1. CASE previewRun' = previewRun
        BY <2>2, <4>1 DEF Writes!Stops, Writes!StartPreview, Writes!MarkPending,
                          Writes!FileSaved, Writes!Heartbeat
      <4>2. CASE Writes!Heartbeat(k) /\ previewRun' = [previewRun EXCEPT !.status = "FAILED", !.current = 0]
        <5>1. previewRun'.status = "FAILED"
          BY <1>1, <4>2 DEF WriteTypes, Writes!TypeOK
        <5> QED BY <2>2, <5>1 DEF Writes!Stops, Writes!StartPreview, Writes!MarkPending,
                                  Writes!FileSaved, Writes!Heartbeat
      <4> QED BY <2>2, <4>1, <4>2
                 DEF Writes!Stops, Writes!StartPreview, Writes!MarkPending, Writes!FileSaved
    <3>2. HeartbeatHoldsSlot'
      BY <1>1, <3>1 DEF HeartbeatHoldsSlot
    <3>3. ASSUME preview.state = "PURGED", NEW j \in Writes!Attempts, Writes!Heartbeat(j)'
          PROVE  at'[j] \in {"start", "dead"}
      <4>1. at[j] \in {"start", "dead"}
        BY <1>1, <3>1, <3>3 DEF PurgedIsQuiet
      <4>2. CASE j # k
        BY <1>5, <4>1, <4>2
      <4>3. CASE j = k
        <5>1. Writes!Stops(k)
          BY <2>2, <3>3, <4>1, <4>3 DEF Writes!StartPreview, Writes!MarkPending, Writes!FileSaved
        <5> QED BY <1>1, <5>1, <4>3, CoordinatorMoved DEF Writes!Stops, Writes!Steps
      <4> QED BY <4>2, <4>3
    <3>4. PurgedIsQuiet'
      BY <1>1, <1>2, <1>9, <3>3 DEF PurgedIsQuiet
    <3> QED BY <3>2, <3>4
  <2> QED BY <2>1, <2>2
<1> QED BY <1>7, <1>12, <1>13 DEF WritesInv
-----------------------------------------------------------------------------
(* Steps of one coordinator that write the ledger or reach the provider.   *)

(* Such a step leaves SQL alone; after a purge it can only make a plan.    *)
LEMMA UploadFrame ==
  ASSUME WritesInv, NEW k \in Writes!Attempts, NEW step \in Writes!Steps, Writes!GoTo(k, step),
         at[k] # "start", step # "start",
         UNCHANGED <<preview, previewRun, slots, file>>,
         intent' \in [Writes!Attempts -> [state : Writes!IntentState,
                                          files : [Files -> Writes!FileState]]],
         session' \in [Writes!Attempts -> [Files -> {"none", "open", "closed"}]],
         object' \in [Writes!Attempts -> [Files -> BOOLEAN]],
         preview.state = "PURGED" =>
             /\ at[k] # "dead" \/ step = "dead"
             /\ \A j \in Writes!Attempts : \A f \in Files :
                    ~object'[j][f] /\ intent'[j].files[f] \in {"PLANNED", "STOPPED"},
         LedgerInv'
  PROVE  WritesInv'
<1>1. WriteTypes /\ HeartbeatHoldsSlot /\ PurgedIsQuiet
  BY DEF WritesInv
<1>2. /\ at' \in [Writes!Attempts -> Writes!Steps]
      /\ at'[k] = step
      /\ \A j \in Writes!Attempts : j # k => at'[j] = at[j]
  BY <1>1, CoordinatorMoved
<1>3. WriteTypes'
  BY <1>1, <1>2 DEF WriteTypes, Writes!TypeOK
<1>4. \A j \in Writes!Attempts : Writes!Heartbeat(j)' <=> Writes!Heartbeat(j)
  BY DEF Writes!Heartbeat
<1>5. HeartbeatHoldsSlot'
  BY <1>1, <1>4 DEF HeartbeatHoldsSlot
<1>6. ASSUME preview.state = "PURGED", NEW j \in Writes!Attempts, Writes!Heartbeat(j)'
      PROVE  at'[j] \in {"start", "dead"}
  <2>1. at[j] \in {"start", "dead"}
    BY <1>1, <1>4, <1>6 DEF PurgedIsQuiet
  <2> QED BY <1>2, <1>6, <2>1
<1>7. PurgedIsQuiet'
  BY <1>6 DEF PurgedIsQuiet
<1> QED BY <1>3, <1>5, <1>7 DEF WritesInv

LEMMA PlanWritesKeeps ==
  ASSUME WritesInv, NEW k \in Writes!Attempts, Writes!PlanWrites(k)
  PROVE  WritesInv'
<1>1. WriteTypes /\ LedgerInv
  BY DEF WritesInv
<1>2. /\ UNCHANGED <<preview, previewRun, slots, session, object, file>>
      /\ at[k] = "plan" /\ intent[k].state = "NONE"
      /\ Writes!WithIntent(k, "OPEN") /\ Writes!GoTo(k, "mark")
  BY DEF Writes!PlanWrites, Writes!sql, Writes!remote
<1>3. "OPEN" \in Writes!IntentState /\ "mark" \in Writes!Steps
  BY DEF Writes!IntentState, Writes!Steps
<1>4. /\ intent' \in [Writes!Attempts -> [state : Writes!IntentState,
                                          files : [Files -> Writes!FileState]]]
      /\ \A j \in Writes!Attempts :
             /\ intent'[j].state = IF j = k THEN "OPEN" ELSE intent[j].state
             /\ intent'[j].files = intent[j].files
  BY <1>1, <1>2, <1>3, IntentMarked
<1>5. at'[k] = "mark" /\ \A j \in Writes!Attempts : j # k => at'[j] = at[j]
  BY <1>1, <1>2, <1>3, CoordinatorMoved
<1>6. WaitsInitializing' /\ FinalIsThere' /\ Writes!CapabilityKnown'
  BY <1>1, <1>2, <1>4, <1>5
     DEF LedgerInv, WaitsInitializing, FinalIsThere, Writes!CapabilityKnown
<1>7. UnplannedIsUntouched' /\ PublishedIsFinal' /\ ErasedIsStopped'
  <2>1. UnplannedIsUntouched'
    BY <1>1, <1>2, <1>4 DEF LedgerInv, UnplannedIsUntouched
  <2>2. PublishedIsFinal'
    BY <1>1, <1>2, <1>4 DEF LedgerInv, PublishedIsFinal
  <2>3. ErasedIsStopped'
    BY <1>1, <1>2, <1>4 DEF LedgerInv, ErasedIsStopped
  <2> QED BY <2>1, <2>2, <2>3
<1>8. LedgerInv'
  BY <1>6, <1>7 DEF LedgerInv
<1>9. preview.state = "PURGED" => \A j \in Writes!Attempts : \A f \in Files :
          ~object'[j][f] /\ intent'[j].files[f] \in {"PLANNED", "STOPPED"}
  BY <1>2, <1>4 DEF WritesInv, PurgedIsQuiet
<1> QED BY <1>1, <1>2, <1>3, <1>4, <1>8, <1>9, UploadFrame DEF WriteTypes

(* A step that records the coordinator's file.                             *)
LEMMA RecordKeeps ==
  ASSUME WritesInv, NEW k \in Writes!Attempts, NEW s \in {"INITIALIZING", "SESSION", "FINALIZED"},
         NEW step \in Writes!Steps,
         at[k] \notin {"start", "dead"}, Writes!Accepts(k, file[k], s),
         Writes!WithFile(k, file[k], s), Writes!GoTo(k, step),
         UNCHANGED <<preview, previewRun, slots, session, object, file>>,
         step \in {"begin", "record"} => s = "INITIALIZING",
         step \notin {"start", "final"},
         s = "INITIALIZING" => Writes!Heartbeat(k),
         s = "FINALIZED" => at[k] = "final"
  PROVE  WritesInv'
<1>1. WriteTypes /\ LedgerInv
  BY DEF WritesInv
<1>2. s \in Writes!FileState /\ file[k] \in Files
  BY <1>1, StatesOfFiles DEF Writes!FileState
<1>3. /\ intent' \in [Writes!Attempts -> [state : Writes!IntentState,
                                          files : [Files -> Writes!FileState]]]
      /\ \A j \in Writes!Attempts :
             /\ intent'[j].state = intent[j].state
             /\ \A g \in Files : intent'[j].files[g] =
                    IF j = k /\ g = file[k] THEN s ELSE intent[j].files[g]
  BY <1>1, <1>2, FileRecorded
<1>4. at'[k] = step /\ \A j \in Writes!Attempts : j # k => at'[j] = at[j]
  BY <1>1, CoordinatorMoved
<1>5. /\ s = "INITIALIZING" => intent[k].files[file[k]] = "PLANNED" /\ intent[k].state = "OPEN"
      /\ s = "SESSION" => intent[k].files[file[k]] = "INITIALIZING"
      /\ s = "FINALIZED" => intent[k].files[file[k]] = "SESSION"
  <2>1. intent[k].files[file[k]] \in Writes!FileState
    BY <1>1, <1>2, StatesOfFiles
  <2> QED BY <2>1 DEF Writes!Accepts, Writes!FileMoves, Writes!FileState
<1>6. \A j \in Writes!Attempts : file[j] \in Files
  BY <1>1, StatesOfFiles
<1>7. WaitsInitializing'
  BY <1>1, <1>3, <1>4, <1>6 DEF LedgerInv, WaitsInitializing
<1>8. UnplannedIsUntouched' /\ PublishedIsFinal' /\ ErasedIsStopped'
  <2>1. intent[k].state \notin {"NONE", "PUBLISHED", "ERASED"}
    BY <1>1, <1>2, <1>5 DEF LedgerInv, UnplannedIsUntouched, PublishedIsFinal, ErasedIsStopped
  <2>2. UnplannedIsUntouched'
    BY <1>1, <1>3, <2>1 DEF LedgerInv, UnplannedIsUntouched
  <2>3. PublishedIsFinal'
    BY <1>1, <1>3, <2>1 DEF LedgerInv, PublishedIsFinal
  <2>4. ErasedIsStopped'
    BY <1>1, <1>3, <2>1 DEF LedgerInv, ErasedIsStopped
  <2> QED BY <2>2, <2>3, <2>4
<1>9. FinalIsThere'
  <2>1. s = "FINALIZED" => object[k][file[k]]
    BY <1>1, <1>5 DEF LedgerInv, FinalIsThere
  <2>2. \A j \in Writes!Attempts : \A f \in Files :
            intent'[j].files[f] = "FINALIZED" => object[j][f]
    BY <1>1, <1>3, <2>1 DEF LedgerInv, FinalIsThere
  <2>3. \A j \in Writes!Attempts : at'[j] = "final" =>
            intent'[j].files[file[j]] = "STOPPED" \/ object[j][file[j]]
    BY <1>1, <1>3, <1>4, <1>6 DEF LedgerInv, FinalIsThere
  <2> QED BY <2>2, <2>3 DEF FinalIsThere
<1>10. Writes!CapabilityKnown'
  BY <1>1, <1>3 DEF LedgerInv, Writes!CapabilityKnown
<1>11. LedgerInv'
  BY <1>7, <1>8, <1>9, <1>10 DEF LedgerInv
<1>12. preview.state # "PURGED"
  <2>1. preview.state = "PURGED" => intent[k].files[file[k]] \in {"PLANNED", "STOPPED"}
    BY <1>2 DEF WritesInv, PurgedIsQuiet
  <2>2. preview.state = "PURGED" => ~Writes!Heartbeat(k)
    BY DEF WritesInv, PurgedIsQuiet
  <2> QED BY <1>5, <2>1, <2>2
<1> QED BY <1>1, <1>3, <1>11, <1>12, UploadFrame DEF WriteTypes

LEMMA LedgerWriteKeeps ==
  ASSUME WritesInv, NEW k \in Writes!Attempts,
         Writes!Initialize(k) \/ Writes!RecordSession(k) \/ Writes!Finalize(k)
  PROVE  WritesInv'
<1>1. {"begin", "put", "saved", "dead"} \subseteq Writes!Steps
  BY DEF Writes!Steps
<1>2. UNCHANGED <<preview, previewRun, slots, session, object, file>>
  BY DEF Writes!Initialize, Writes!RecordSession, Writes!Finalize, Writes!sql, Writes!remote
<1>3. CASE Writes!Initialize(k)
  <2>1. /\ at[k] = "init" /\ Writes!Heartbeat(k) /\ Writes!Accepts(k, file[k], "INITIALIZING")
        /\ Writes!WithFile(k, file[k], "INITIALIZING") /\ Writes!GoTo(k, "begin")
    BY <1>3 DEF Writes!Initialize
  <2> QED BY <1>1, <1>2, <2>1, RecordKeeps
<1>4. CASE Writes!RecordSession(k)
  <2>1. PICK step \in {"put", "dead"} : Writes!GoTo(k, step)
    BY <1>4 DEF Writes!RecordSession
  <2>2. /\ at[k] = "record" /\ Writes!Accepts(k, file[k], "SESSION")
        /\ Writes!WithFile(k, file[k], "SESSION")
    BY <1>4 DEF Writes!RecordSession, Writes!RecordAllowed
  <2>3. step \in Writes!Steps /\ step \notin {"start", "begin", "record", "final"}
    BY <1>1
  <2> QED BY <1>2, <2>1, <2>2, <2>3, RecordKeeps
<1>5. CASE Writes!Finalize(k)
  <2>1. PICK step \in {"saved", "dead"} : Writes!GoTo(k, step)
    BY <1>5 DEF Writes!Finalize
  <2>2. /\ at[k] = "final" /\ Writes!Accepts(k, file[k], "FINALIZED")
        /\ Writes!WithFile(k, file[k], "FINALIZED")
    BY <1>5 DEF Writes!Finalize
  <2>3. step \in Writes!Steps /\ step \notin {"start", "begin", "record", "final"}
    BY <1>1
  <2> QED BY <1>2, <2>1, <2>2, <2>3, RecordKeeps
<1> QED BY <1>3, <1>4, <1>5

LEMMA BeginKeeps ==
  ASSUME WritesInv, NEW k \in Writes!Attempts, Writes!Begin(k)
  PROVE  WritesInv'
<1>1. WriteTypes /\ LedgerInv
  BY DEF WritesInv
<1>2. PICK step \in {"record", "dead"} : Writes!GoTo(k, step)
  BY DEF Writes!Begin
<1>3. /\ UNCHANGED <<preview, previewRun, slots, intent, object, file>>
      /\ at[k] = "begin" /\ session' = [session EXCEPT ![k][file[k]] = "open"]
  BY DEF Writes!Begin, Writes!sql
<1>4. step \in Writes!Steps /\ \A j \in Writes!Attempts : file[j] \in Files
  BY <1>1, StatesOfFiles DEF Writes!Steps
<1>5. at'[k] = step /\ \A j \in Writes!Attempts : j # k => at'[j] = at[j]
  BY <1>1, <1>2, <1>4, CoordinatorMoved
<1>6. /\ session' \in [Writes!Attempts -> [Files -> {"none", "open", "closed"}]]
      /\ \A j \in Writes!Attempts : \A g \in Files :
             session'[j][g] = IF j = k /\ g = file[k] THEN "open" ELSE session[j][g]
  <2>1. file[k] \in Files /\ "open" \in {"none", "open", "closed"}
    BY <1>4
  <2>2. SessionWritten(k, file[k], "open")
    BY <1>3 DEF SessionWritten
  <2> QED BY <1>1, <2>1, <2>2, SessionSet
<1>7. intent[k].files[file[k]] = "INITIALIZING"
  BY <1>1, <1>3 DEF LedgerInv, WaitsInitializing
<1>8. Writes!CapabilityKnown'
  BY <1>1, <1>3, <1>6, <1>7 DEF LedgerInv, Writes!CapabilityKnown
<1>9. WaitsInitializing' /\ FinalIsThere'
  BY <1>1, <1>2, <1>3, <1>5, <1>7 DEF LedgerInv, WaitsInitializing, FinalIsThere
<1>10. LedgerInv'
  BY <1>1, <1>3, <1>8, <1>9 DEF LedgerInv, UnplannedIsUntouched, PublishedIsFinal, ErasedIsStopped
<1>11. intent' \in [Writes!Attempts -> [state : Writes!IntentState,
                                        files : [Files -> Writes!FileState]]]
       /\ object' \in [Writes!Attempts -> [Files -> BOOLEAN]]
  BY <1>1, <1>3 DEF WriteTypes, Writes!TypeOK
<1>12. preview.state # "PURGED"
  BY <1>4, <1>7 DEF WritesInv, PurgedIsQuiet
<1> QED BY <1>2, <1>3, <1>4, <1>6, <1>10, <1>11, <1>12, UploadFrame

LEMMA PutKeeps ==
  ASSUME WritesInv, NEW k \in Writes!Attempts, Writes!Put(k)
  PROVE  WritesInv'
<1>1. WriteTypes /\ LedgerInv
  BY DEF WritesInv
<1>2. PICK step \in {"final", "put"} : Writes!GoTo(k, step)
  BY DEF Writes!Put
<1>3. /\ UNCHANGED <<preview, previewRun, slots, intent, session, file>>
      /\ at[k] = "put" /\ session[k][file[k]] = "open"
      /\ object' = [object EXCEPT ![k][file[k]] = TRUE]
  BY DEF Writes!Put, Writes!sql
<1>4. step \in Writes!Steps /\ \A j \in Writes!Attempts : file[j] \in Files
  BY <1>1, StatesOfFiles DEF Writes!Steps
<1>5. at'[k] = step /\ \A j \in Writes!Attempts : j # k => at'[j] = at[j]
  BY <1>1, <1>2, <1>4, CoordinatorMoved
<1>6. /\ object' \in [Writes!Attempts -> [Files -> BOOLEAN]]
      /\ \A j \in Writes!Attempts : \A g \in Files :
             object'[j][g] = IF j = k /\ g = file[k] THEN TRUE ELSE object[j][g]
  <2> DEFINE new == [object[k] EXCEPT ![file[k]] = TRUE]
  <2>1. object \in [Writes!Attempts -> [Files -> BOOLEAN]]
    BY <1>1 DEF WriteTypes
  <2>2. /\ new \in [Files -> BOOLEAN]
        /\ \A g \in Files : new[g] = IF g = file[k] THEN TRUE ELSE object[k][g]
    BY <2>1
  <2>3. object' = [object EXCEPT ![k] = new]
    BY <1>3
  <2> HIDE DEF new
  <2>4. /\ object' \in [Writes!Attempts -> [Files -> BOOLEAN]]
        /\ \A j \in Writes!Attempts : object'[j] = IF j = k THEN new ELSE object[j]
    BY <2>1, <2>2, <2>3
  <2> QED BY <2>2, <2>4
<1>7. intent[k].files[file[k]] \in {"INITIALIZING", "SESSION", "FINALIZED"}
  BY <1>1, <1>3, <1>4 DEF LedgerInv, Writes!CapabilityKnown
<1>8. UnplannedIsUntouched'
  BY <1>1, <1>3, <1>4, <1>6, <1>7 DEF LedgerInv, UnplannedIsUntouched
<1>9. ErasedIsStopped'
  BY <1>1, <1>3, <1>4, <1>6, <1>7 DEF LedgerInv, ErasedIsStopped
<1>10. FinalIsThere'
  BY <1>1, <1>3, <1>4, <1>5, <1>6 DEF LedgerInv, FinalIsThere
<1>11. LedgerInv'
  BY <1>1, <1>2, <1>3, <1>5, <1>8, <1>9, <1>10
     DEF LedgerInv, WaitsInitializing, PublishedIsFinal, Writes!CapabilityKnown
<1>12. intent' \in [Writes!Attempts -> [state : Writes!IntentState,
                                        files : [Files -> Writes!FileState]]]
       /\ session' \in [Writes!Attempts -> [Files -> {"none", "open", "closed"}]]
  BY <1>1, <1>3 DEF WriteTypes, Writes!TypeOK
<1>13. preview.state # "PURGED"
  BY <1>4, <1>7 DEF WritesInv, PurgedIsQuiet
<1> QED BY <1>2, <1>3, <1>4, <1>6, <1>11, <1>12, <1>13, UploadFrame
-----------------------------------------------------------------------------
(* Publication, revocation and cleanup. *)

LEMMA CompleteKeeps ==
  ASSUME WritesInv, NEW k \in Writes!Attempts, Writes!Complete(k)
  PROVE  WritesInv'
<1>1. WriteTypes /\ LedgerInv /\ HeartbeatHoldsSlot
  BY DEF WritesInv
<1>2. /\ UNCHANGED <<slots, session, object, file>>
      /\ preview.state = "QUEUED" /\ intent[k].state = "OPEN"
      /\ \A f \in Files : intent[k].files[f] = "FINALIZED"
      /\ Writes!WithIntent(k, "PUBLISHED") /\ Writes!GoTo(k, "dead")
  BY DEF Writes!Complete, Writes!remote
<1>3. "PUBLISHED" \in Writes!IntentState /\ "dead" \in Writes!Steps
  BY DEF Writes!IntentState, Writes!Steps
<1>4. /\ intent' \in [Writes!Attempts -> [state : Writes!IntentState,
                                          files : [Files -> Writes!FileState]]]
      /\ \A j \in Writes!Attempts :
             /\ intent'[j].state = IF j = k THEN "PUBLISHED" ELSE intent[j].state
             /\ intent'[j].files = intent[j].files
  BY <1>1, <1>2, <1>3, IntentMarked
<1>5. /\ at' \in [Writes!Attempts -> Writes!Steps]
      /\ at'[k] = "dead" /\ \A j \in Writes!Attempts : j # k => at'[j] = at[j]
  BY <1>1, <1>2, <1>3, CoordinatorMoved
<1>6. WaitsInitializing' /\ FinalIsThere' /\ Writes!CapabilityKnown'
  <2>1. WaitsInitializing'
    BY <1>1, <1>2, <1>4, <1>5 DEF LedgerInv, WaitsInitializing
  <2>2. FinalIsThere'
    BY <1>1, <1>2, <1>4, <1>5 DEF LedgerInv, FinalIsThere
  <2>3. Writes!CapabilityKnown'
    BY <1>1, <1>2, <1>4 DEF LedgerInv, Writes!CapabilityKnown
  <2> QED BY <2>1, <2>2, <2>3
<1>7. UnplannedIsUntouched' /\ PublishedIsFinal' /\ ErasedIsStopped'
  <2>1. UnplannedIsUntouched'
    BY <1>1, <1>2, <1>4 DEF LedgerInv, UnplannedIsUntouched
  <2>2. PublishedIsFinal'
    BY <1>1, <1>2, <1>4 DEF LedgerInv, PublishedIsFinal
  <2>3. ErasedIsStopped'
    BY <1>1, <1>2, <1>4 DEF LedgerInv, ErasedIsStopped
  <2> QED BY <2>1, <2>2, <2>3
<1>8. /\ preview' \in [state : {"NONE", "QUEUED", "READY", "PURGING", "PURGED"},
                       fence : 0..MaxAttempts, pending : BOOLEAN, manifest : BOOLEAN]
      /\ previewRun' \in [status : {"NONE", "QUEUED", "PROCESSING", "READY", "FAILED", "CANCELLED"},
                          current : 0..MaxAttempts]
      /\ preview'.state \in {"QUEUED", "READY"}
  <2>1. 0 \in 0..MaxAttempts
    BY PreviewsAssumption
  <2>2. /\ preview \in [state : {"NONE", "QUEUED", "READY", "PURGING", "PURGED"},
                        fence : 0..MaxAttempts, pending : BOOLEAN, manifest : BOOLEAN]
        /\ previewRun \in [status : {"NONE", "QUEUED", "PROCESSING", "READY", "FAILED", "CANCELLED"},
                           current : 0..MaxAttempts]
    BY <1>1 DEF WriteTypes, Writes!TypeOK
  <2>3. CASE UNCHANGED <<previewRun, preview>>
    BY <1>2, <2>2, <2>3
  <2>4. CASE /\ previewRun' = [status |-> "READY", current |-> 0]
             /\ preview' = [preview EXCEPT !.state = "READY"]
    BY <2>1, <2>2, <2>4
  <2> QED BY <2>3, <2>4 DEF Writes!Complete
<1>9. WriteTypes'
  BY <1>1, <1>2, <1>4, <1>5, <1>8 DEF WriteTypes, Writes!TypeOK
<1>10. HeartbeatHoldsSlot'
  <2>1. CASE previewRun' = previewRun
    BY <1>1, <1>2, <2>1 DEF HeartbeatHoldsSlot, Writes!Heartbeat
  <2>2. CASE previewRun' = [status |-> "READY", current |-> 0]
    BY <2>2 DEF HeartbeatHoldsSlot, Writes!Heartbeat
  <2> QED BY <2>1, <2>2 DEF Writes!Complete
<1>11. PurgedIsQuiet'
  BY <1>8 DEF PurgedIsQuiet
<1> QED BY <1>6, <1>7, <1>9, <1>10, <1>11 DEF WritesInv, LedgerInv

(* Marking intents leaves their files, the provider and coordinators alone. *)
LEMMA MarkFrame ==
  ASSUME WritesInv, NEW marked \in SUBSET Writes!Doomed, Writes!Mark(marked),
         UNCHANGED <<session, object, at, file>>
  PROVE  /\ LedgerInv'
         /\ intent' \in [Writes!Attempts -> [state : Writes!IntentState,
                                             files : [Files -> Writes!FileState]]]
         /\ \A k \in Writes!Attempts : intent'[k].files = intent[k].files
<1>1. WriteTypes /\ LedgerInv
  BY DEF WritesInv
<1>2. intent' = [k \in Writes!Attempts |-> IF k \in marked
                                           THEN [intent[k] EXCEPT !.state = "CLEANUP"]
                                           ELSE intent[k]]
  BY DEF Writes!Mark
<1>3. UNCHANGED <<session, object, at, file>>
  OBVIOUS
<1>4. \A k \in Writes!Attempts :
          /\ intent'[k] \in [state : Writes!IntentState, files : [Files -> Writes!FileState]]
          /\ intent'[k].state = IF k \in marked THEN "CLEANUP" ELSE intent[k].state
          /\ intent'[k].files = intent[k].files
  <2> SUFFICES ASSUME NEW k \in Writes!Attempts
               PROVE  /\ intent'[k] \in [state : Writes!IntentState,
                                         files : [Files -> Writes!FileState]]
                      /\ intent'[k].state = IF k \in marked THEN "CLEANUP" ELSE intent[k].state
                      /\ intent'[k].files = intent[k].files
    OBVIOUS
  <2>1. intent[k] \in [state : Writes!IntentState, files : [Files -> Writes!FileState]]
    BY <1>1, StatesOfFiles
  <2>2. intent'[k] = IF k \in marked THEN [intent[k] EXCEPT !.state = "CLEANUP"] ELSE intent[k]
    BY <1>2
  <2>3. "CLEANUP" \in Writes!IntentState
    BY DEF Writes!IntentState
  <2> QED BY <2>1, <2>2, <2>3
<1>5. intent' \in [Writes!Attempts -> [state : Writes!IntentState,
                                       files : [Files -> Writes!FileState]]]
  <2>1. intent' = [k \in Writes!Attempts |-> intent'[k]]
    BY <1>2
  <2> QED BY <1>4, <2>1
<1>6. WaitsInitializing' /\ FinalIsThere' /\ Writes!CapabilityKnown'
  <2>1. WaitsInitializing'
    BY <1>1, <1>3, <1>4 DEF LedgerInv, WaitsInitializing
  <2>2. FinalIsThere'
    BY <1>1, <1>3, <1>4 DEF LedgerInv, FinalIsThere
  <2>3. Writes!CapabilityKnown'
    BY <1>1, <1>3, <1>4 DEF LedgerInv, Writes!CapabilityKnown
  <2> QED BY <2>1, <2>2, <2>3
<1>7. UnplannedIsUntouched' /\ PublishedIsFinal' /\ ErasedIsStopped'
  <2>1. UnplannedIsUntouched'
    BY <1>1, <1>3, <1>4 DEF LedgerInv, UnplannedIsUntouched
  <2>2. PublishedIsFinal'
    BY <1>1, <1>3, <1>4 DEF LedgerInv, PublishedIsFinal
  <2>3. ErasedIsStopped'
    BY <1>1, <1>3, <1>4 DEF LedgerInv, ErasedIsStopped
  <2> QED BY <2>1, <2>2, <2>3
<1> QED BY <1>4, <1>5, <1>6, <1>7 DEF LedgerInv

(* A revocation moves SQL forward: heartbeats end, and nothing is purged.  *)
LEMMA RevocationFrame ==
  ASSUME WritesInv, NEW marked \in SUBSET Writes!Doomed, Writes!Mark(marked),
         UNCHANGED <<session, object, at, file>>,
         preview' \in {preview, Writes!Withdrawn},
         previewRun' \in {previewRun, Writes!Cancelled, [status |-> "FAILED", current |-> 0]},
         slots' \subseteq slots,
         \A k \in Writes!Attempts : Writes!Heartbeat(k)' => k \in slots'
  PROVE  WritesInv'
<1>1. WriteTypes /\ LedgerInv /\ HeartbeatHoldsSlot /\ PurgedIsQuiet
  BY DEF WritesInv
<1>2. /\ LedgerInv'
      /\ intent' \in [Writes!Attempts -> [state : Writes!IntentState,
                                          files : [Files -> Writes!FileState]]]
      /\ \A k \in Writes!Attempts : intent'[k].files = intent[k].files
  BY MarkFrame
<1>3. /\ preview' \in [state : {"NONE", "QUEUED", "READY", "PURGING", "PURGED"},
                       fence : 0..MaxAttempts, pending : BOOLEAN, manifest : BOOLEAN]
      /\ preview'.state = "PURGED" => preview.state = "PURGED"
  <2>1. preview \in [state : {"NONE", "QUEUED", "READY", "PURGING", "PURGED"},
                     fence : 0..MaxAttempts, pending : BOOLEAN, manifest : BOOLEAN]
    BY <1>1 DEF WriteTypes, Writes!TypeOK
  <2>2. PICK s \in {"PURGED", "PURGING"} :
            /\ s = IF preview.state = "PURGED" THEN preview.state ELSE "PURGING"
            /\ Writes!Withdrawn = [preview EXCEPT !.state = s]
    BY DEF Writes!Withdrawn
  <2> QED BY <2>1, <2>2
<1>4. 0 \in 0..MaxAttempts /\ 0 \notin Writes!Attempts
  BY PreviewsAssumption DEF Writes!Attempts
<1>5. /\ previewRun' \in [status : {"NONE", "QUEUED", "PROCESSING", "READY", "FAILED", "CANCELLED"},
                          current : 0..MaxAttempts]
      /\ \A k \in Writes!Attempts : Writes!Heartbeat(k)' => Writes!Heartbeat(k)
  BY <1>1, <1>4 DEF WriteTypes, Writes!TypeOK, Writes!Cancelled, Writes!Heartbeat
<1>6. WriteTypes'
  BY <1>1, <1>2, <1>3, <1>5 DEF WriteTypes, Writes!TypeOK
<1>7. HeartbeatHoldsSlot'
  BY DEF HeartbeatHoldsSlot
<1>8. PurgedIsQuiet'
  BY <1>1, <1>2, <1>3, <1>5 DEF PurgedIsQuiet
<1> QED BY <1>2, <1>6, <1>7, <1>8 DEF WritesInv

LEMMA RevokeKeeps == WritesInv /\ Writes!Revoke => WritesInv'
<1> SUFFICES ASSUME WritesInv, Writes!Revoke PROVE WritesInv'
  OBVIOUS
<1>1. PICK marked \in SUBSET Writes!Doomed : Writes!Mark(marked)
  BY DEF Writes!Revoke
<1>2. /\ UNCHANGED <<slots, session, object, at, file>>
      /\ preview' \in {preview, Writes!Withdrawn}
      /\ previewRun' \in {previewRun, Writes!Cancelled}
  BY DEF Writes!Revoke, Writes!remote
<1>3. \A k \in Writes!Attempts : Writes!Heartbeat(k)' => k \in slots'
  BY <1>2 DEF WritesInv, HeartbeatHoldsSlot, Writes!Heartbeat, Writes!Cancelled
<1> QED BY <1>1, <1>2, <1>3, RevocationFrame

LEMMA ReapKeeps ==
  ASSUME WritesInv, NEW k \in Writes!Attempts, Writes!Reap(k)
  PROVE  WritesInv'
<1>1. PICK marked \in SUBSET Writes!Doomed :
          /\ Writes!Mark(marked)
          /\ \/ UNCHANGED <<preview, previewRun, slots>>
             \/ /\ previewRun' = [status |-> "FAILED", current |-> 0]
                /\ preview' = Writes!Withdrawn
                /\ slots' = slots \ {k}
  BY DEF Writes!Reap, Writes!sql
<1>2. UNCHANGED <<session, object, at, file>>
  BY DEF Writes!Reap, Writes!remote
<1>3. \A j \in Writes!Attempts : Writes!Heartbeat(j)' => j \in slots'
  BY <1>1 DEF WritesInv, HeartbeatHoldsSlot, Writes!Heartbeat
<1> QED BY <1>1, <1>2, <1>3, RevocationFrame

(* Cleanup touches neither SQL nor the coordinators, and adds no object.   *)
LEMMA CleanupFrame ==
  ASSUME WritesInv, UNCHANGED <<preview, previewRun, slots, at, file>>,
         intent' \in [Writes!Attempts -> [state : Writes!IntentState,
                                          files : [Files -> Writes!FileState]]],
         \A j \in Writes!Attempts : \A f \in Files :
             /\ intent'[j].files[f] \in {intent[j].files[f], "STOPPED"}
             /\ object'[j][f] => object[j][f],
         session' \in [Writes!Attempts -> [Files -> {"none", "open", "closed"}]],
         object' \in [Writes!Attempts -> [Files -> BOOLEAN]],
         LedgerInv'
  PROVE  WritesInv'
<1>1. WriteTypes'
  BY DEF WritesInv, WriteTypes, Writes!TypeOK
<1>2. HeartbeatHoldsSlot'
  BY DEF WritesInv, HeartbeatHoldsSlot, Writes!Heartbeat
<1>3. PurgedIsQuiet'
  BY DEF WritesInv, PurgedIsQuiet, Writes!Heartbeat
<1> QED BY <1>1, <1>2, <1>3 DEF WritesInv

LEMMA CleanFileKeeps ==
  ASSUME WritesInv, NEW k \in Writes!Attempts, NEW f \in Files, Writes!CleanFile(k, f)
  PROVE  WritesInv'
<1>1. WriteTypes /\ LedgerInv
  BY DEF WritesInv
<1>2. /\ UNCHANGED <<preview, previewRun, slots, object, at, file>>
      /\ intent[k].state = "CLEANUP"
      /\ \A g \in Files : intent[k].files[g] # "INITIALIZING"
  BY DEF Writes!CleanFile, Writes!sql, Writes!Unknown
<1> DEFINE s == IF session[k][f] = "open" THEN "closed" ELSE session[k][f]
<1>3. s \in {"none", "open", "closed"} /\ s # "open"
  BY <1>1 DEF WriteTypes
<1>4. SessionWritten(k, f, s)
  BY DEF Writes!CleanFile, SessionWritten
<1> HIDE DEF s
<1>5. /\ session' \in [Writes!Attempts -> [Files -> {"none", "open", "closed"}]]
      /\ \A j \in Writes!Attempts : \A g \in Files :
             session'[j][g] = IF j = k /\ g = f THEN s ELSE session[j][g]
  BY <1>1, <1>3, <1>4, SessionSet
<1>6. /\ intent' \in [Writes!Attempts -> [state : Writes!IntentState,
                                          files : [Files -> Writes!FileState]]]
      /\ \A j \in Writes!Attempts :
             /\ intent'[j].state = intent[j].state
             /\ \A g \in Files : \/ intent'[j].files[g] = intent[j].files[g]
                                 \/ j = k /\ g = f /\ intent'[j].files[g] = "STOPPED"
  <2>1. CASE intent' = intent
    BY <1>1, <2>1 DEF WriteTypes, Writes!TypeOK
  <2>2. CASE Writes!WithFile(k, f, "STOPPED")
    <3>1. "STOPPED" \in Writes!FileState
      BY DEF Writes!FileState
    <3> QED BY <1>1, <2>2, <3>1, FileRecorded
  <2> QED BY <2>1, <2>2 DEF Writes!CleanFile
<1>7. \A j \in Writes!Attempts : file[j] \in Files
  BY <1>1, StatesOfFiles
<1>8. WaitsInitializing'
  BY <1>1, <1>2, <1>6, <1>7 DEF LedgerInv, WaitsInitializing
<1>9. UnplannedIsUntouched'
  BY <1>1, <1>2, <1>6 DEF LedgerInv, UnplannedIsUntouched
<1>10. PublishedIsFinal' /\ ErasedIsStopped'
  BY <1>1, <1>2, <1>6 DEF LedgerInv, PublishedIsFinal, ErasedIsStopped
<1>11. FinalIsThere'
  BY <1>1, <1>2, <1>6, <1>7 DEF LedgerInv, FinalIsThere
<1>12. Writes!CapabilityKnown'
  <2> SUFFICES ASSUME NEW j \in Writes!Attempts, NEW g \in Files, session'[j][g] = "open"
               PROVE  intent'[j].files[g] \in {"INITIALIZING", "SESSION", "FINALIZED"}
    BY DEF Writes!CapabilityKnown
  <2>1. ~(j = k /\ g = f)
    BY <1>3, <1>5
  <2>2. session[j][g] = "open"
    BY <1>5, <2>1
  <2>3. intent'[j].files[g] = intent[j].files[g]
    BY <1>6, <2>1
  <2> QED BY <1>1, <2>2, <2>3 DEF LedgerInv, Writes!CapabilityKnown
<1>13. LedgerInv'
  BY <1>8, <1>9, <1>10, <1>11, <1>12 DEF LedgerInv
<1>14. object' \in [Writes!Attempts -> [Files -> BOOLEAN]]
  BY <1>1, <1>2 DEF WriteTypes
<1> QED BY <1>2, <1>5, <1>6, <1>13, <1>14, CleanupFrame

LEMMA CleanDoneKeeps ==
  ASSUME WritesInv, NEW k \in Writes!Attempts, Writes!CleanDone(k)
  PROVE  WritesInv'
<1>1. WriteTypes /\ LedgerInv
  BY DEF WritesInv
<1>2. /\ UNCHANGED <<preview, previewRun, slots, session, at, file>>
      /\ intent[k].state = "CLEANUP" /\ \A f \in Files : intent[k].files[f] = "STOPPED"
      /\ Writes!WithIntent(k, "ERASED")
      /\ object' = [object EXCEPT ![k] = [f \in Files |-> FALSE]]
  BY DEF Writes!CleanDone, Writes!sql, Writes!EraseRequired
<1>3. /\ object' \in [Writes!Attempts -> [Files -> BOOLEAN]]
      /\ \A f \in Files : ~object'[k][f]
      /\ \A j \in Writes!Attempts : j # k => object'[j] = object[j]
  BY <1>1, <1>2 DEF WriteTypes
<1>4. /\ intent' \in [Writes!Attempts -> [state : Writes!IntentState,
                                          files : [Files -> Writes!FileState]]]
      /\ \A j \in Writes!Attempts :
             /\ intent'[j].state = IF j = k THEN "ERASED" ELSE intent[j].state
             /\ intent'[j].files = intent[j].files
  <2>1. "ERASED" \in Writes!IntentState
    BY DEF Writes!IntentState
  <2> QED BY <1>1, <1>2, <2>1, IntentMarked
<1>5. \A j \in Writes!Attempts : file[j] \in Files
  BY <1>1, StatesOfFiles
<1>6. WaitsInitializing' /\ Writes!CapabilityKnown'
  BY <1>1, <1>2, <1>4 DEF LedgerInv, WaitsInitializing, Writes!CapabilityKnown
<1>7. UnplannedIsUntouched'
  BY <1>1, <1>3, <1>4 DEF LedgerInv, UnplannedIsUntouched
<1>8. PublishedIsFinal'
  BY <1>1, <1>4 DEF LedgerInv, PublishedIsFinal
<1>9. ErasedIsStopped'
  BY <1>1, <1>2, <1>3, <1>4 DEF LedgerInv, ErasedIsStopped
<1>10. FinalIsThere'
  <2>1. ASSUME NEW j \in Writes!Attempts, NEW f \in Files, intent'[j].files[f] = "FINALIZED"
        PROVE  object'[j][f]
    <3>1. j # k
      BY <1>2, <1>4, <2>1
    <3> QED BY SMTT(30), <1>1, <1>3, <1>4, <2>1, <3>1 DEF LedgerInv, FinalIsThere
  <2>2. ASSUME NEW j \in Writes!Attempts, at'[j] = "final"
        PROVE  intent'[j].files[file'[j]] = "STOPPED" \/ object'[j][file'[j]]
    <3>1. CASE j = k
      BY <1>2, <1>4, <1>5, <3>1
    <3>2. CASE j # k
      BY <1>1, <1>2, <1>3, <1>4, <2>2, <3>2 DEF LedgerInv, FinalIsThere
    <3> QED BY <3>1, <3>2
  <2> QED BY <2>1, <2>2 DEF FinalIsThere
<1>11. LedgerInv'
  BY <1>6, <1>7, <1>8, <1>9, <1>10 DEF LedgerInv
<1>12. session' \in [Writes!Attempts -> [Files -> {"none", "open", "closed"}]]
  BY <1>1, <1>2 DEF WriteTypes
<1> QED BY <1>2, <1>3, <1>4, <1>11, <1>12, CleanupFrame

LEMMA WritesStep ==
  ASSUME WritesInv, [Writes!Next]_writeVars
  PROVE  WritesInv'
<1>1. ASSUME NEW k \in Writes!Attempts, Writes!Upload(k) PROVE WritesInv'
  BY <1>1, QuietMoveKeeps, PlanWritesKeeps, LedgerWriteKeeps, BeginKeeps, PutKeeps, CompleteKeeps
     DEF Writes!Upload
<1>2. CASE UNCHANGED writeVars
  <2>1. WriteTypes' /\ HeartbeatHoldsSlot' /\ PurgedIsQuiet'
    BY <1>2 DEF WritesInv, WriteTypes, Writes!TypeOK, HeartbeatHoldsSlot, PurgedIsQuiet,
                Writes!Heartbeat, writeVars
  <2>2. LedgerInv'
    BY <1>2, LedgerQuiet DEF WritesInv, writeVars
  <2> QED BY <2>1, <2>2 DEF WritesInv
<1>3. CASE Writes!Next
  BY <1>1, <1>3, SqlKeeps, PurgePreviewKeeps, QuietMoveKeeps, RevokeKeeps, ReapKeeps,
     CleanFileKeeps, CleanDoneKeeps
     DEF Writes!Next
<1> QED BY <1>2, <1>3

LEMMA StepOfWrites == [Next]_vars => [Writes!Next]_writeVars
  BY DEF Next, vars, JournalMoves, LogMoves, ExecutionMoves, WriteMoves, writeVars

(* The ledger, the provider and SQL in every state: what the ledger says   *)
(* of a file covers every session and object of it, a run whose heartbeats *)
(* succeed holds its slot, and after a purge no file leaves its plan.      *)
THEOREM WritesInvHolds == Spec => []WritesInv
<1>1. Init => WritesInv
  BY WritesInit DEF Init
<1>2. WritesInv /\ [Next]_vars => WritesInv'
  BY WritesStep, StepOfWrites
<1> QED BY <1>1, <1>2, PTL DEF Spec

(* preview_writes.py, preview_ledger.py: bytes are refunded only when no   *)
(* session is open and no object is left, every open session is one the    *)
(* ledger knows of, and a purged preview has nothing left and nobody who   *)
(* could still write, although a reaped coordinator may be running.        *)
THEOREM WritesSoundHolds == Spec => []WritesSound
<1>1. WritesInv => WritesSound
  <2> SUFFICES ASSUME WritesInv PROVE WritesSound
    OBVIOUS
  <2>1. WriteTypes /\ Writes!TypeOK /\ LedgerInv /\ PurgedIsQuiet
    BY DEF WritesInv, WriteTypes
  <2>2. Writes!CapabilityKnown
    BY <2>1 DEF LedgerInv
  <2>3. Writes!ErasedMeansGone
    BY <2>1, <2>2 DEF LedgerInv, ErasedIsStopped, Writes!CapabilityKnown, Writes!ErasedMeansGone
  <2>4. Writes!PurgedMeansGone
    <3> SUFFICES ASSUME preview.state = "PURGED", NEW k \in Writes!Attempts
                 PROVE  /\ at[k] \notin {"begin", "record"}
                        /\ \A f \in Files : /\ session[k][f] # "open" /\ ~object[k][f]
                                            /\ intent[k].files[f] \in {"PLANNED", "STOPPED"}
      BY DEF Writes!PurgedMeansGone
    <3>1. \A f \in Files : ~object[k][f] /\ intent[k].files[f] \in {"PLANNED", "STOPPED"}
      BY <2>1 DEF PurgedIsQuiet
    <3>2. \A f \in Files : session[k][f] # "open"
      BY <2>2, <3>1 DEF Writes!CapabilityKnown
    <3>3. file[k] \in Files
      BY <2>1 DEF WriteTypes
    <3>4. at[k] \notin {"begin", "record"}
      BY <2>1, <3>1, <3>3 DEF LedgerInv, WaitsInitializing
    <3> QED BY <3>1, <3>2, <3>4
  <2> QED BY <2>1, <2>2, <2>3, <2>4 DEF WritesSound, Writes!WritesSound
<1> QED BY <1>1, WritesInvHolds, PTL

(* previews.py, is_published: what the owner is shown is whole and final.  *)
THEOREM ServedIsWholeHolds == Spec => []ServedIsWhole
<1>1. WritesInv => ServedIsWhole
  BY DEF WritesInv, LedgerInv, PublishedIsFinal, FinalIsThere, ServedIsWhole,
         Writes!ServedIsWhole, Writes!Served, Writes!IsPublished
<1> QED BY <1>1, WritesInvHolds, PTL
=============================================================================
