------------------------- MODULE CloudDispatchProofs -------------------------
(***************************************************************************)
(* What the hosted delivery keeps for every set of runs, relays and        *)
(* handlers and every limit.  Rows first: every step does one of seven     *)
(* things to the rows of a run, and each keeps what the outbox says of it. *)
(* Then the processes: a handler whose generation is still the row's knows *)
(* the run's only open slot, and no slot is released under an execution    *)
(* the runtime may have or may still create.                               *)
(***************************************************************************)
EXTENDS CloudDispatch, RunJobsProofs

Dispatchable == Undelivered \cup {"ABSENT", "ENQUEUED", "ATTENTION"}
Known(r) == dispatch[r].status # "ABSENT"
LiveState == {"inflight", "created", "entered"}

(* What the rows of one run say.                                            *)
RowInv(r) ==
  /\ ~HasRow(r) => ~Known(r)
  /\ Known(r) => dispatch[r].generation \in Generations
  /\ dispatch[r].generation <= run[r].attempts + 1
  /\ run[r].status = "PROCESSING" =>
       run[r].attempts >= 1 /\ dispatch[r].generation <= run[r].attempts
  /\ run[r].status = "QUEUED" => dispatch[r].status \in Dispatchable
  /\ dispatch[r].status = "ENQUEUED" => <<r, dispatch[r].generation>> \in task
  /\ run[r].status \in {"ABSENT", "QUEUED"} => dispatch[r].operation = 0
  /\ \A f \in Fences : Open(r, f) => dispatch[r].operation \in {0, f}

Busy(h) == handler[h].pc # "idle"

(* What a handler between two transactions can rely on.                     *)
KnowsAttempt(h) ==
  LET r == handler[h].run  f == handler[h].fence  g == handler[h].generation IN
  Busy(h) =>
    /\ r \in Runs /\ f \in Fences /\ g \in Generations
    /\ slot[r][f].state # "none" /\ HasRow(r)
    /\ Known(r) /\ g <= dispatch[r].generation
    /\ SameIntent(r, g) => /\ run[r].status # "QUEUED"
                           /\ \A o \in Fences : Open(r, o) => o = f
KnowsRemote(h) ==
  LET r == handler[h].run  f == handler[h].fence IN
  /\ handler[h].pc = "claimed" => Open(r, f) /\ remote[r][f] = "none"
  /\ handler[h].pc \in {"rejected", "release"} => remote[r][f] = "none"

HandlersDistinct ==
  \A h, k \in Handlers :
    /\ Busy(h) /\ Busy(k)
    /\ handler[h].run = handler[k].run /\ handler[h].fence = handler[k].fence
    => h = k

RelayKnows(d) ==
  relay[d].pc # "idle" =>
    /\ relay[d].run \in Runs /\ relay[d].generation \in Generations
    /\ relay[d].pc = "sent" => <<relay[d].run, relay[d].generation>> \in task

ObserverKnows ==
  observer.pc # "idle" =>
    /\ observer.run \in Runs /\ observer.fence \in Fences
    /\ slot[observer.run][observer.fence].state # "none"
    /\ Open(observer.run, observer.fence) => observer.name \in {0, observer.fence}
    /\ observer.pc # "reading" => observer.name \in Fences

(* The inductive invariant of the hosted delivery.                          *)
CloudInv ==
  /\ TypeOK
  /\ SlotDiscipline
  /\ \A r \in Runs : RowInv(r)
  /\ \A r \in Runs, f \in Fences : execution[r][f] \in {0, f}
  /\ \A r \in Runs, f \in Fences :
       /\ remote[r][f] \in LiveState => Open(r, f)
       /\ remote[r][f] # "none" => slot[r][f].state # "none"
  /\ \A h \in Handlers : KnowsAttempt(h) /\ KnowsRemote(h)
  /\ HandlersDistinct
  /\ \A d \in Relays : RelayKnows(d)
  /\ ObserverKnows
-----------------------------------------------------------------------------
(* What a step does to the rows of one run.                                 *)
Steady(r) ==
  /\ run'[r].attempts = run[r].attempts
  /\ run'[r].status = "ABSENT" <=> run[r].status = "ABSENT"
  /\ run'[r].status = "QUEUED" => run[r].status = "QUEUED"
  /\ run'[r].status = "PROCESSING" => run[r].status = "PROCESSING"
  /\ \A f \in Fences : slot'[r][f].state = slot[r][f].state

SameIdentity(r) ==
  /\ dispatch'[r].generation = dispatch[r].generation
  /\ dispatch'[r].operation = dispatch[r].operation

Keeps(r) == Steady(r) /\ SameIdentity(r) /\ dispatch'[r].status = dispatch[r].status

Marks(r) ==
  /\ Steady(r) /\ SameIdentity(r) /\ Known(r)
  /\ dispatch'[r].status # "ABSENT"
  /\ dispatch'[r].status \notin Dispatchable => run'[r].status # "QUEUED"
  /\ dispatch'[r].status = "ENQUEUED" => <<r, dispatch[r].generation>> \in task
  /\ dispatch[r].status = "STARTED" =>
       dispatch'[r].status \notin Undelivered \cup {"ENQUEUED", "SUBMITTED", "UNCERTAIN"}

Intends(r) == Steady(r) /\ HasRow(r) /\ ~Known(r) /\ dispatch'[r] = NewDispatch

Enqueues(r) ==
  /\ ~HasRow(r) /\ run'[r].status = "QUEUED" /\ run'[r].attempts = run[r].attempts
  /\ \A f \in Fences : slot'[r][f].state = slot[r][f].state
  /\ dispatch'[r] = NewDispatch

Claims(r) ==
  /\ run[r].status = "QUEUED" /\ Known(r) /\ dispatch[r].status # "STARTED"
  /\ run'[r].status = "PROCESSING" /\ run'[r].attempts = run[r].attempts + 1
  /\ run[r].fence + 1 \in Fences /\ slot[r][run[r].fence + 1].state = "none"
  /\ \A f \in Fences :
       slot'[r][f].state = IF f = run[r].fence + 1 THEN "open" ELSE slot[r][f].state
  /\ SameIdentity(r) /\ dispatch'[r].status = "LAUNCHING"

LetsGo(r, f) ==
  /\ Open(r, f)
  /\ \A g \in Fences : slot'[r][g].state = IF g = f THEN "released" ELSE slot[r][g].state
  /\ run'[r].attempts = run[r].attempts
  /\ \/ /\ run[r].status = "PROCESSING" /\ run'[r].status = "QUEUED"
        /\ dispatch'[r] = Reissued(dispatch[r])
     \/ /\ run'[r].status = run[r].status
        /\ dispatch'[r] = Mark(dispatch[r], "DONE")

Receives(r) ==
  \E h \in Handlers :
    /\ Busy(h) /\ handler[h].run = r /\ SameIntent(r, handler[h].generation)
    /\ Steady(r)
    /\ dispatch'[r].generation = dispatch[r].generation
    /\ dispatch'[r].operation = handler[h].fence
    /\ \/ dispatch'[r].status = dispatch[r].status
       \/ dispatch[r].status = "LAUNCHING" /\ dispatch'[r].status = "SUBMITTED"

RowKind(r) ==
  \/ Keeps(r) \/ Marks(r) \/ Intends(r) \/ Enqueues(r) \/ Claims(r) \/ Receives(r)
  \/ \E f \in Fences : LetsGo(r, f)
-----------------------------------------------------------------------------
(* Every step is of these kinds, run by run. *)

LEMMA SteadyWhenQuiet ==
  ASSUME Quiet, NEW r \in Runs, run'[r].attempts = run[r].attempts,
         run'[r].status = "ABSENT" <=> run[r].status = "ABSENT"
  PROVE  Steady(r)
  BY DEF Quiet, Steady

LEMMA SteadyWhenStill ==
  ASSUME NEW r \in Runs, UNCHANGED <<run, slot>>
  PROVE  Steady(r)
  BY DEF Steady

LEMMA KeptRow ==
  ASSUME NEW r \in Runs, Steady(r), dispatch'[r] = dispatch[r]
  PROVE  RowKind(r)
  BY DEF RowKind, Keeps, SameIdentity

LEMMA MarkedRow ==
  ASSUME JobTypeOK, NEW r \in Runs, NEW s \in DispatchStatus, Steady(r),
         dispatch'[r] = Mark(dispatch[r], s), s # "ABSENT",
         s \notin Dispatchable => run'[r].status # "QUEUED",
         s = "ENQUEUED" => <<r, dispatch[r].generation>> \in task,
         dispatch[r].status = "STARTED" =>
           s \notin Undelivered \cup {"ENQUEUED", "SUBMITTED", "UNCERTAIN"}
  PROVE  RowKind(r)
<1>1. CASE dispatch[r].status = "ABSENT"
  BY <1>1, KeptRow DEF Mark
<1>2. CASE dispatch[r].status # "ABSENT"
  <2>1. dispatch[r] \in DispatchRow
    BY DEF JobTypeOK
  <2>2. dispatch'[r].status = s /\ SameIdentity(r)
    BY <1>2, <2>1 DEF Mark, DispatchRow, SameIdentity
  <2> QED BY <1>2, <2>2 DEF RowKind, Marks, Known
<1> QED BY <1>1, <1>2

LEMMA IdleRow ==
  ASSUME NEW r \in Runs, UNCHANGED <<run, slot, dispatch>>
  PROVE  RowKind(r)
  BY SteadyWhenStill, KeptRow

LEMMA ReconcileRow ==
  ASSUME JobTypeOK, NEW r \in Runs, Reconcile
  PROVE  RowKind(r)
<1>1. Steady(r)
  <2>1. UNCHANGED run
    BY DEF Reconcile, ReconcileStale, ReconcileIntent, ReconcileSettle, ReconcileOrphans,
           ReconcileCancelled
  <2> QED BY <2>1, ReconcileStep, SteadyWhenQuiet
<1>2. CASE UNCHANGED dispatch
  BY <1>1, <1>2, KeptRow
<1>3. CASE ReconcileCancelled
  <2>1. /\ run' = run
        /\ dispatch'[r] = IF run[r].status = "CANCELLED" THEN Mark(dispatch[r], "CANCELLED")
                          ELSE dispatch[r]
    BY <1>3 DEF ReconcileCancelled
  <2>2. "CANCELLED" \in DispatchStatus /\ "CANCELLED" \notin Dispatchable
    BY DEF DispatchStatus, Dispatchable, Undelivered
  <2> QED BY <1>1, <2>1, <2>2, KeptRow, MarkedRow DEF Undelivered
<1>4. ASSUME NEW q \in Runs, ReconcileIntent(q)
      PROVE  RowKind(r)
  <2>1. HasRow(q) /\ dispatch' = [dispatch EXCEPT ![q] = WithIntent(@)]
    BY <1>4 DEF ReconcileIntent
  <2>2. dispatch'[r] = IF r = q /\ ~Known(r) THEN NewDispatch ELSE dispatch[r]
    BY <2>1 DEF WithIntent, Known, JobTypeOK
  <2>3. CASE r = q /\ ~Known(r)
    BY <1>1, <2>1, <2>2, <2>3 DEF RowKind, Intends
  <2> QED BY <1>1, <2>2, <2>3, KeptRow
<1> QED BY <1>2, <1>3, <1>4 DEF Reconcile, ReconcileStale, ReconcileSettle, ReconcileOrphans

LEMMA RevokedRow ==
  ASSUME JobTypeOK, NEW r \in Runs, NEW S \in SUBSET Runs, NEW erase \in BOOLEAN,
         \A q \in S : HasRow(q), run' = Revoked(S, erase), Quiet
  PROVE  Steady(r) /\ (r \in S => run'[r].status = "CANCELLED")
<1>1. run[r] \in RunRow
  BY DEF JobTypeOK
<1>2. CASE r \in S
  <2>1. run'[r] = [run[r] EXCEPT !.status = "CANCELLED", !.fence = @ + 1, !.lease = "none",
                                 !.result = IF erase THEN 0 ELSE @]
    BY <1>2 DEF Revoked
  <2>2. run'[r].status = "CANCELLED" /\ run'[r].attempts = run[r].attempts
    BY <1>1, <2>1 DEF RunRow
  <2> QED BY <1>2, <2>2, SteadyWhenQuiet DEF HasRow
<1>3. CASE r \notin S
  <2>1. run'[r] = run[r]
    BY <1>3 DEF Revoked
  <2> QED BY <1>3, <2>1, SteadyWhenQuiet
<1> QED BY <1>2, <1>3

LEMMA OwnerRow ==
  ASSUME JobTypeOK, NEW r \in Runs, OwnerActs(Requests)
  PROVE  RowKind(r)
<1>0. Quiet
  BY OwnerStep
<1>1. ASSUME NEW q \in Runs, EnqueueRun(q) PROVE RowKind(r)
  <2>1. /\ ~HasRow(q) /\ run' = [run EXCEPT ![q].status = "QUEUED"] /\ slot' = slot
        /\ dispatch' = [dispatch EXCEPT ![q] = NewDispatch]
    BY <1>1 DEF EnqueueRun
  <2>2. CASE r = q
    <3>1. Enqueues(r)
      BY <2>1, <2>2 DEF Enqueues, JobTypeOK, RunRow
    <3> QED BY <3>1 DEF RowKind
  <2>3. CASE r # q
    <3>1. run'[r] = run[r] /\ dispatch'[r] = dispatch[r]
      BY <2>1, <2>3 DEF JobTypeOK
    <3> QED BY <1>0, <3>1, SteadyWhenQuiet, KeptRow
  <2> QED BY <2>2, <2>3
<1>2. ASSUME NEW q \in Runs, CancelRun(q) PROVE RowKind(r)
  <2>1. /\ run[q].status \in Pending /\ run' = Revoked({q}, FALSE)
        /\ dispatch' = [dispatch EXCEPT ![q] = Mark(@, "CANCELLED")]
    BY <1>2 DEF CancelRun
  <2>2. {q} \in SUBSET Runs /\ FALSE \in BOOLEAN /\ \A p \in {q} : HasRow(p)
    BY <2>1 DEF HasRow, Pending
  <2>3. Steady(r) /\ (r = q => run'[r].status = "CANCELLED")
    BY <1>0, <2>1, <2>2, RevokedRow
  <2>4. dispatch'[r] = IF r = q THEN Mark(dispatch[r], "CANCELLED") ELSE dispatch[r]
    BY <2>1 DEF JobTypeOK
  <2>5. "CANCELLED" \in DispatchStatus
    BY DEF DispatchStatus
  <2> QED BY <2>3, <2>4, <2>5, KeptRow, MarkedRow DEF Undelivered
<1>3. ASSUME NEW S \in SUBSET Runs, NEW erase \in BOOLEAN, \A q \in S : HasRow(q),
             run' = Revoked(S, erase), UNCHANGED dispatch
      PROVE  RowKind(r)
  BY <1>0, <1>3, RevokedRow, KeptRow
<1>4. ASSUME NEW a \in Assets, DeleteAsset(a) PROVE RowKind(r)
  <2> DEFINE S == RunsOfAsset(a)
  <2>1. S \in SUBSET Runs /\ \A q \in S : HasRow(q)
    BY DEF RunsOfAsset
  <2>2. run' = Revoked(S, TRUE) /\ UNCHANGED dispatch
    BY <1>4 DEF DeleteAsset
  <2> HIDE DEF S
  <2> QED BY <1>3, <2>1, <2>2
<1>5. ASSUME NEW o \in Owners, DeleteAccount(o) PROVE RowKind(r)
  <2> DEFINE S == {q \in Runs : Owner(q) = o /\ HasRow(q)}
  <2>1. S \in SUBSET Runs /\ \A q \in S : HasRow(q)
    OBVIOUS
  <2>2. run' = Revoked(S, TRUE) /\ UNCHANGED dispatch
    BY <1>5 DEF DeleteAccount
  <2> HIDE DEF S
  <2> QED BY <1>3, <2>1, <2>2
<1>6. ASSUME NEW o \in Owners, WithdrawProcessing(o) PROVE RowKind(r)
  <2> DEFINE S == PendingOf(o)
  <2>1. S \in SUBSET Runs /\ \A q \in S : HasRow(q)
    BY DEF PendingOf, HasRow, Pending
  <2>2. run' = Revoked(S, FALSE) /\ UNCHANGED dispatch
    BY <1>6 DEF WithdrawProcessing
  <2> HIDE DEF S
  <2> QED BY <1>3, <2>1, <2>2
<1>7. ASSUME NEW o \in Owners, GrantProcessing(o) PROVE RowKind(r)
  BY <1>7, IdleRow DEF GrantProcessing
<1> QED BY <1>1, <1>2, <1>4, <1>5, <1>6, <1>7 DEF OwnerActs

LEMMA ClockRow ==
  ASSUME JobTypeOK, NEW r \in Runs, ClockTicks(Requests)
  PROVE  RowKind(r)
<1>1. ASSUME NEW q \in Runs, LeaseExpires(q) PROVE RowKind(r)
  <2>1. UNCHANGED <<slot, dispatch>> /\ run' = [run EXCEPT ![q].lease = "expired"]
    BY <1>1 DEF LeaseExpires
  <2>2. run'[r].attempts = run[r].attempts /\ run'[r].status = run[r].status
    BY <2>1 DEF JobTypeOK, RunRow
  <2> QED BY <2>1, <2>2, KeptRow DEF Steady
<1>2. ASSUME NEW a \in Assets, AssetExpires(a) PROVE RowKind(r)
  BY <1>2, IdleRow DEF AssetExpires
<1> QED BY <1>1, <1>2 DEF ClockTicks

LEMMA DeniedRow ==
  ASSUME JobTypeOK, NEW r \in Runs, NEW q \in Runs,
         ClaimUnbudgeted(q) \/ ClaimExhausted(q) \/ ClaimDeferred(q)
  PROVE  RowKind(r)
<1>1. UNCHANGED <<slot, dispatch>> /\ (run' = run \/ run' = [run EXCEPT ![q].status = "FAILED"])
  BY DEF ClaimUnbudgeted, ClaimExhausted, ClaimDeferred
<1>2. run[q].status \in Pending
  BY DEF ClaimUnbudgeted, ClaimExhausted, ClaimDeferred, Claimable
<1>3. /\ run'[r].attempts = run[r].attempts
      /\ run'[r].status = run[r].status \/ (r = q /\ run'[r].status = "FAILED")
  BY <1>1 DEF JobTypeOK, RunRow
<1>4. Steady(r)
  BY <1>1, <1>2, <1>3 DEF Steady, Pending
<1> QED BY <1>1, <1>4, KeptRow

LEMMA BeginRow ==
  ASSUME JobTypeOK, NEW r \in Runs, NEW q \in Runs, NEW f \in Fences, BeginExecution(q, f)
  PROVE  RowKind(r)
<1>1. /\ run[q].status = "PROCESSING"
      /\ run' = [run EXCEPT ![q].lease = "live"]
      /\ slot' = [slot EXCEPT ![q][f].started = TRUE]
      /\ dispatch' = [dispatch EXCEPT ![q] = Mark(@, "STARTED")]
  BY DEF BeginExecution, Current
<1>2. run'[r].attempts = run[r].attempts /\ run'[r].status = run[r].status
  BY <1>1 DEF JobTypeOK, RunRow
<1>3. \A g \in Fences : slot'[r][g].state = slot[r][g].state
  BY <1>1 DEF JobTypeOK, SlotRow
<1>4. Steady(r)
  BY <1>2, <1>3 DEF Steady
<1>5. dispatch'[r] = IF r = q THEN Mark(dispatch[r], "STARTED") ELSE dispatch[r]
  BY <1>1 DEF JobTypeOK
<1>6. "STARTED" \in DispatchStatus
  BY DEF DispatchStatus
<1> QED BY <1>1, <1>2, <1>4, <1>5, <1>6, KeptRow, MarkedRow DEF Undelivered

LEMMA FinishRow ==
  ASSUME JobTypeOK, NEW r \in Runs, NEW q \in Runs, NEW f \in Fences, NEW report \in Published,
         FinishRun(q, f, report)
  PROVE  RowKind(r)
<1>1. /\ run[q].status = "PROCESSING" /\ UNCHANGED <<slot, dispatch>>
      /\ run' = [run EXCEPT ![q] = [run[q] EXCEPT !.status = report, !.result = f, !.lease = "none"]]
  BY DEF FinishRun, Current
<1>2. run'[r].attempts = run[r].attempts
  BY <1>1 DEF JobTypeOK, RunRow
<1>3. run'[r].status = run[r].status \/ (r = q /\ run'[r].status = report)
  BY <1>1 DEF JobTypeOK, RunRow
<1>4. Steady(r)
  BY <1>1, <1>2, <1>3 DEF Steady, Published
<1> QED BY <1>1, <1>4, KeptRow

LEMMA AckRow ==
  ASSUME JobTypeOK, SlotDiscipline, NEW r \in Runs, NEW q \in Runs, NEW f \in Fences,
         AcknowledgeStopped(q, f)
  PROVE  RowKind(r)
<1>1. CASE ~Open(q, f)
  BY <1>1, IdleRow DEF AcknowledgeStopped, jobVars
<1>2. CASE Open(q, f)
  <2>1. /\ \A s \in Runs, g \in Fences :
             slot'[s][g].state = IF s = q /\ g = f THEN "released" ELSE slot[s][g].state
        /\ \A s \in Runs \ {q} : run'[s] = run[s]
        /\ IF GivenUp(q, f) THEN run'[q].status = "QUEUED" ELSE run'[q] = run[q]
    BY <1>2, AckStep
  <2>2. CASE r # q
    <3>1. dispatch'[r] = dispatch[r]
      BY <1>2, <2>2 DEF AcknowledgeStopped, JobTypeOK
    <3>2. Steady(r)
      BY <2>1, <2>2 DEF Steady
    <3> QED BY <3>1, <3>2, KeptRow
  <2>3. CASE r = q
    <3>1. run[r].status # "QUEUED"
      BY <1>2, <2>3 DEF SlotDiscipline, HasOpenSlot
    <3>2. run'[r].attempts = run[r].attempts
      <4>1. CASE GivenUp(q, f)
        <5>1. run' = [run EXCEPT ![q] = [run[q] EXCEPT !.fence = @ + 1, !.status = "QUEUED",
                                                       !.lease = "none"]]
          BY <1>2, <4>1 DEF AcknowledgeStopped
        <5> QED BY <2>3, <5>1 DEF JobTypeOK, RunRow
      <4> QED BY <2>1, <2>3, <4>1
    <3>3. dispatch'[r] = IF GivenUp(r, f) THEN Reissued(dispatch[r])
                         ELSE Mark(dispatch[r], "DONE")
      BY <1>2, <2>3, <3>1 DEF AcknowledgeStopped, JobTypeOK
    <3>4. LetsGo(r, f)
      BY <1>2, <2>1, <2>3, <3>2, <3>3 DEF LetsGo, GivenUp
    <3> QED BY <3>4 DEF RowKind
  <2> QED BY <2>2, <2>3
<1> QED BY <1>1, <1>2

LEMMA RelayRow ==
  ASSUME TypeOK, NEW r \in Runs, NEW d \in Relays, RelayKnows(d), RelaySteps(d)
  PROVE  RowKind(r)
<1>0. JobTypeOK
  BY DEF TypeOK
<1>1. ASSUME NEW q \in Runs, RelayLeases(d, q) PROVE RowKind(r)
  <2>1. /\ UNCHANGED <<run, slot>>
        /\ dispatch' = [dispatch EXCEPT ![q].leased = TRUE,
                          ![q].attempts = IF @ < MaxTries THEN @ + 1 ELSE @]
    BY <1>1 DEF RelayLeases
  <2>2. SameIdentity(r) /\ dispatch'[r].status = dispatch[r].status
    BY <1>0, <2>1 DEF JobTypeOK, DispatchRow, SameIdentity
  <2> QED BY <2>1, <2>2, SteadyWhenStill DEF RowKind, Keeps
<1>2. ASSUME NEW answer \in {"sent", "retry", "failed"}, RelaySends(d, answer) PROVE RowKind(r)
  BY <1>2, IdleRow DEF RelaySends, jobVars
<1>3. CASE RelayRecords(d)
  <2> DEFINE q == relay[d].run
             s == CASE relay[d].pc = "sent" -> "ENQUEUED"
                    [] relay[d].pc = "retry" /\ dispatch[q].attempts < MaxTries -> "RETRY"
                    [] OTHER -> "ATTENTION"
  <2>1. /\ relay[d].pc # "idle" /\ UNCHANGED <<run, slot>>
        /\ dispatch' = IF SameIntent(q, relay[d].generation) /\ dispatch[q].status \in Undelivered
                       THEN [dispatch EXCEPT ![q] = Mark(@, s)] ELSE dispatch
    BY <1>3 DEF RelayRecords
  <2>2. q \in Runs
    BY <2>1 DEF RelayKnows
  <2>3. s \in {"ENQUEUED", "RETRY", "ATTENTION"}
    OBVIOUS
  <2>4. s = "ENQUEUED" => <<q, relay[d].generation>> \in task
    BY DEF RelayKnows
  <2> HIDE DEF s
  <2>5. CASE r = q /\ SameIntent(q, relay[d].generation) /\ dispatch[q].status \in Undelivered
    <3>1. dispatch'[r] = Mark(dispatch[r], s)
      BY <1>0, <2>1, <2>2, <2>5 DEF JobTypeOK
    <3>2. s \in DispatchStatus /\ s # "ABSENT" /\ s \in Dispatchable
      BY <2>3 DEF DispatchStatus, Dispatchable, Undelivered
    <3>3. s = "ENQUEUED" => <<r, dispatch[r].generation>> \in task
      BY <2>4, <2>5 DEF SameIntent
    <3>4. dispatch[r].status # "STARTED"
      BY <2>5 DEF Undelivered
    <3> QED BY <1>0, <2>1, <3>1, <3>2, <3>3, <3>4, SteadyWhenStill, MarkedRow
  <2>6. CASE ~(r = q /\ SameIntent(q, relay[d].generation) /\ dispatch[q].status \in Undelivered)
    <3>1. dispatch'[r] = dispatch[r]
      BY <1>0, <2>1, <2>2, <2>6 DEF JobTypeOK
    <3> QED BY <2>1, <3>1, SteadyWhenStill, KeptRow
  <2> QED BY <2>5, <2>6
<1>4. CASE RelayCrashes(d)
  BY <1>4, IdleRow DEF RelayCrashes, jobVars
<1> QED BY <1>1, <1>2, <1>3, <1>4 DEF RelaySteps

LEMMA LaunchClaimsTyped ==
  ASSUME JobTypeOK, NEW h \in Handlers, NEW q \in Runs, NEW g, LaunchClaims(h, q, g)
  PROVE  dispatch' \in [Runs -> DispatchRow]
<1>1. [dispatch[q] EXCEPT !.status = "LAUNCHING", !.leased = TRUE] \in DispatchRow
  BY ZenonT(40) DEF JobTypeOK, DispatchRow, DispatchStatus
<1> QED BY <1>1 DEF LaunchClaims, JobTypeOK

LEMMA ClaimsRow ==
  ASSUME JobTypeOK, SlotDiscipline, NEW r \in Runs, NEW h \in Handlers, NEW q \in Runs, NEW g,
         LaunchClaims(h, q, g)
  PROVE  RowKind(r) /\ (r = q => Claims(r))
<1>1. /\ ClaimRows(q) /\ run[q].status = "QUEUED"
      /\ dispatch[q].status \in Undelivered \cup {"ENQUEUED"}
      /\ dispatch' = [dispatch EXCEPT ![q].status = "LAUNCHING", ![q].leased = TRUE]
  BY DEF LaunchClaims, Launchable
<1>2. /\ run[q].fence + 1 \in Fences
      /\ \A s \in Runs, o \in Fences :
           slot'[s][o] = IF s = q /\ o = run[q].fence + 1 THEN OpenedSlot ELSE slot[s][o]
      /\ run'[q].status = "PROCESSING"
      /\ \A s \in Runs \ {q} : run'[s] = run[s]
  BY <1>1, LaunchClaimsTyped, ClaimRowsStep
<1>3. run'[q].attempts = run[q].attempts + 1
  BY <1>1 DEF ClaimRows, JobTypeOK, RunRow
<1>4. SameIdentity(q) /\ dispatch'[q].status = "LAUNCHING"
  BY <1>1 DEF SameIdentity, JobTypeOK, DispatchRow
<1>5. slot[q][run[q].fence + 1].state = "none"
  <2>1. run[q].fence \in Nat
    BY LimitAssumption DEF JobTypeOK, RunRow
  <2>2. ~(run[q].fence + 1 <= run[q].fence)
    BY <2>1
  <2> QED BY <1>2, <2>2 DEF SlotDiscipline
<1>6. Claims(q)
  <2>1. Known(q) /\ dispatch[q].status # "STARTED"
    BY <1>1 DEF Known, Undelivered
  <2>2. \A f \in Fences :
          slot'[q][f].state = IF f = run[q].fence + 1 THEN "open" ELSE slot[q][f].state
    BY <1>2 DEF OpenedSlot
  <2> QED BY <1>1, <1>2, <1>3, <1>4, <1>5, <2>1, <2>2 DEF Claims
<1>7. CASE r = q
  BY <1>6, <1>7 DEF RowKind
<1>8. CASE r # q
  <2>1. dispatch'[r] = dispatch[r]
    BY <1>1, <1>8 DEF JobTypeOK
  <2>2. Steady(r)
    BY <1>2, <1>8 DEF Steady
  <2> QED BY <1>8, <2>1, <2>2, KeptRow
<1> QED BY <1>7, <1>8

(* The steps that write the outbox and nothing else of the jobs.            *)
OutboxOnly ==
  \/ \E r \in Runs : LaunchUnqualified(r) \/ IntentLeaseEnds(r)
  \/ ReconcileLaunching
OutboxOf(h) == RecordReceipt(h) \/ RecordFailure(h) \/ MarkRejected(h)

LEMMA OutboxOnlyRow ==
  ASSUME JobTypeOK, NEW r \in Runs, RowInv(r), OutboxOnly
  PROVE  RowKind(r)
<1>0. dispatch[r] \in DispatchRow
  BY DEF JobTypeOK
<1>1. Steady(r)
  BY SteadyWhenStill DEF OutboxOnly, LaunchUnqualified, IntentLeaseEnds, ReconcileLaunching
<1>2. ASSUME NEW q \in Runs, LaunchUnqualified(q) PROVE RowKind(r)
  <2>1. /\ dispatch[q].status \in Undelivered \cup {"ENQUEUED"}
        /\ dispatch' = [dispatch EXCEPT ![q].status = "ATTENTION"]
    BY <1>2 DEF LaunchUnqualified, Launchable
  <2>2. CASE r = q
    <3>1. dispatch'[r].status = "ATTENTION" /\ SameIdentity(r)
      BY <1>0, <2>1, <2>2 DEF JobTypeOK, DispatchRow, SameIdentity
    <3> QED BY <1>1, <2>1, <2>2, <3>1 DEF RowKind, Marks, Known, Dispatchable, Undelivered
  <2>3. CASE r # q
    BY <1>1, <2>1, <2>3, KeptRow DEF JobTypeOK
  <2> QED BY <2>2, <2>3
<1>3. ASSUME NEW q \in Runs, IntentLeaseEnds(q) PROVE RowKind(r)
  <2>1. dispatch' = [dispatch EXCEPT ![q].leased = FALSE]
    BY <1>3 DEF IntentLeaseEnds
  <2>2. SameIdentity(r) /\ dispatch'[r].status = dispatch[r].status
    BY <1>0, <2>1 DEF JobTypeOK, DispatchRow, SameIdentity
  <2> QED BY <1>1, <2>2 DEF RowKind, Keeps
<1>4. CASE ReconcileLaunching
  <2>1. CASE dispatch'[r] = dispatch[r]
    BY <1>1, <2>1, KeptRow
  <2>2. CASE dispatch'[r] = Mark(dispatch[r], "UNCERTAIN") /\ dispatch[r].status = "LAUNCHING"
    <3>1. dispatch'[r].status = "UNCERTAIN" /\ SameIdentity(r)
      BY <1>0, <2>2 DEF Mark, DispatchRow, SameIdentity
    <3>2. run'[r].status # "QUEUED"
      BY <1>1, <2>2 DEF RowInv, Steady, Dispatchable, Undelivered
    <3> QED BY <1>1, <2>2, <3>1, <3>2 DEF RowKind, Marks, Known, Dispatchable, Undelivered
  <2> QED BY <1>4, <2>1, <2>2 DEF ReconcileLaunching
<1> QED BY <1>2, <1>3, <1>4 DEF OutboxOnly

LEMMA OutboxOfRow ==
  ASSUME JobTypeOK, NEW r \in Runs, NEW h \in Handlers, KnowsAttempt(h), OutboxOf(h)
  PROVE  RowKind(r)
<1>0. dispatch[r] \in DispatchRow
  BY DEF JobTypeOK
<1>1. Steady(r)
  BY SteadyWhenStill DEF OutboxOf, RecordReceipt, RecordFailure, MarkRejected
<1> DEFINE q == handler[h].run
<1>2. ASSUME Busy(h) PROVE q \in Runs /\ Known(q)
  BY <1>2 DEF KnowsAttempt
<1>3. CASE RecordReceipt(h)
  <2>1. /\ Busy(h)
        /\ dispatch' =
             IF ~SameIntent(q, handler[h].generation) THEN dispatch
             ELSE [dispatch EXCEPT ![q] =
                    [(IF @.status = "LAUNCHING" THEN Mark(@, "SUBMITTED") ELSE @)
                       EXCEPT !.operation = handler[h].fence]]
    BY <1>3 DEF RecordReceipt, Busy
  <2>2. q \in Runs
    BY <1>2, <2>1
  <2>3. CASE r = q /\ SameIntent(q, handler[h].generation)
    <3> DEFINE row == IF dispatch[r].status = "LAUNCHING" THEN Mark(dispatch[r], "SUBMITTED")
                      ELSE dispatch[r]
    <3>1. dispatch'[r] = [row EXCEPT !.operation = handler[h].fence]
      BY <2>1, <2>2, <2>3 DEF JobTypeOK
    <3>2. /\ row \in DispatchRow /\ row.generation = dispatch[r].generation
          /\ \/ row.status = dispatch[r].status
             \/ dispatch[r].status = "LAUNCHING" /\ row.status = "SUBMITTED"
      BY <1>0 DEF Mark, DispatchRow, DispatchStatus
    <3> HIDE DEF row
    <3>3. /\ dispatch'[r].generation = dispatch[r].generation
          /\ dispatch'[r].operation = handler[h].fence
          /\ \/ dispatch'[r].status = dispatch[r].status
             \/ dispatch[r].status = "LAUNCHING" /\ dispatch'[r].status = "SUBMITTED"
      BY <3>1, <3>2 DEF DispatchRow
    <3> QED BY <1>1, <2>1, <2>3, <3>3 DEF RowKind, Receives
  <2>4. CASE ~(r = q /\ SameIntent(q, handler[h].generation))
    <3>1. dispatch'[r] = dispatch[r]
      BY <2>1, <2>2, <2>4 DEF JobTypeOK
    <3> QED BY <1>1, <3>1, KeptRow
  <2> QED BY <2>3, <2>4
<1>4. CASE RecordFailure(h)
  <2> DEFINE s == IF handler[h].pc = "ambiguous" THEN "UNCERTAIN" ELSE "ATTENTION"
  <2>1. /\ Busy(h)
        /\ dispatch' = IF SameIntent(q, handler[h].generation) /\ dispatch[q].status = "LAUNCHING"
                       THEN [dispatch EXCEPT ![q] = Mark(@, s)] ELSE dispatch
    BY <1>4 DEF RecordFailure, Busy
  <2>2. q \in Runs /\ s \in {"UNCERTAIN", "ATTENTION"}
    BY <1>2, <2>1
  <2> HIDE DEF s
  <2>3. CASE r = q /\ SameIntent(q, handler[h].generation) /\ dispatch[q].status = "LAUNCHING"
    <3>1. dispatch'[r] = Mark(dispatch[r], s)
      BY <2>1, <2>2, <2>3 DEF JobTypeOK
    <3>2. dispatch'[r].status = s /\ SameIdentity(r)
      BY <1>0, <2>3, <3>1 DEF Mark, DispatchRow, SameIdentity
    <3>3. run'[r].status # "QUEUED"
      BY <1>1, <2>1, <2>3 DEF KnowsAttempt, Steady
    <3> QED BY <1>1, <2>2, <2>3, <3>2, <3>3 DEF RowKind, Marks, Known
  <2>4. CASE ~(r = q /\ SameIntent(q, handler[h].generation) /\ dispatch[q].status = "LAUNCHING")
    <3>1. dispatch'[r] = dispatch[r]
      BY <2>1, <2>2, <2>4 DEF JobTypeOK
    <3> QED BY <1>1, <3>1, KeptRow
  <2> QED BY <2>3, <2>4
<1>5. CASE MarkRejected(h)
  <2>1. Busy(h) /\ dispatch' = [dispatch EXCEPT ![q].status = "ATTENTION"]
    BY <1>5 DEF MarkRejected, Busy
  <2>2. q \in Runs /\ Known(q)
    BY <1>2, <2>1
  <2>3. CASE r = q
    <3>1. dispatch'[r].status = "ATTENTION" /\ SameIdentity(r)
      BY <1>0, <2>1, <2>2, <2>3 DEF JobTypeOK, DispatchRow, SameIdentity
    <3> QED BY <1>1, <2>2, <2>3, <3>1 DEF RowKind, Marks, Dispatchable, Undelivered
  <2>4. CASE r # q
    BY <1>1, <2>1, <2>2, <2>4, KeptRow DEF JobTypeOK
  <2> QED BY <2>3, <2>4
<1> QED BY <1>3, <1>4, <1>5 DEF OutboxOf

(* The steps that touch no row of the jobs.                                 *)
Outside ==
  \/ \E h \in Handlers :
       \/ LaunchCalls(h) \/ HandlerCrashes(h)
       \/ \E answer \in {"accepted", "ambiguous", "rejected"} : LaunchAnswered(h, answer)
  \/ \E r \in Runs, f \in Fences :
       ExecutionCreated(r, f) \/ CallLost(r, f) \/ RemoteEnds(r, f) \/ ObserverReads(r, f)
  \/ ObserverLooks \/ ObserverNames \/ ObserverLeaves
  \/ \E r \in Runs, g \in Generations : QueueGivesUp(r, g)
  \/ UNCHANGED vars

LEMMA OutsideJobs == Outside => UNCHANGED jobVars
  BY DEF Outside, QueueGivesUp, LaunchCalls, HandlerCrashes, LaunchAnswered, ExecutionCreated, CallLost,
         RemoteEnds, ObserverReads, ObserverLooks, ObserverNames, ObserverLeaves, vars, jobVars

(* What the steps are.                                                      *)
LEMMA StepsOf ==
  ASSUME [Next]_vars
  PROVE  \/ Outside
         \/ \E d \in Relays : RelaySteps(d)
         \/ \E h \in Handlers, r \in Runs, g \in Generations : LaunchClaims(h, r, g)
         \/ OutboxOnly
         \/ \E h \in Handlers : OutboxOf(h)
         \/ \E h \in Handlers : ReleaseRejected(h)
         \/ ObserverReleases
         \/ \E r \in Runs, f \in Fences : OperatorConfirms(r, f)
         \/ \E r \in Runs : LaunchDenied(r)
         \/ \E r \in Runs, f \in Fences : RemoteEnters(r, f)
         \/ \E r \in Runs, f \in Fences, report \in Published : RemoteReports(r, f, report)
         \/ (Reconcile \/ OwnerActs(Requests) \/ ClockTicks(Requests)) /\ UNCHANGED cloudVars
<1>1. CASE \E h \in Handlers : HandlerSteps(h)
  BY <1>1 DEF HandlerSteps, Outside, OutboxOf
<1>2. CASE \E r \in Runs, f \in Fences : RemoteSteps(r, f) \/ OperatorConfirms(r, f)
  BY <1>2 DEF RemoteSteps, Outside
<1>3. CASE ObserverSteps
  BY <1>3 DEF ObserverSteps, Outside
<1>4. CASE UNCHANGED vars \/ \E r \in Runs, g \in Generations : QueueGivesUp(r, g)
  BY <1>4 DEF Outside
<1> QED BY <1>1, <1>2, <1>3, <1>4 DEF Next, OutboxOnly

LEMMA ReleaseStep ==
  ASSUME CloudInv, NEW h \in Handlers, ReleaseRejected(h)
  PROVE  /\ handler[h].run \in Runs /\ handler[h].fence \in Fences
         /\ AcknowledgeStopped(handler[h].run, handler[h].fence)
         /\ remote[handler[h].run][handler[h].fence] = "none"
  BY DEF CloudInv, KnowsAttempt, KnowsRemote, Busy, ReleaseRejected

LEMMA ObserverStep ==
  ASSUME CloudInv, ObserverReleases
  PROVE  /\ observer.run \in Runs /\ observer.fence \in Fences
         /\ AcknowledgeStopped(observer.run, observer.fence)
         /\ Open(observer.run, observer.fence) => remote[observer.run][observer.fence] = "stopped"
<1>1. /\ observer.run \in Runs /\ observer.fence \in Fences /\ observer.name \in Fences
      /\ Open(observer.run, observer.fence) => observer.name \in {0, observer.fence}
  BY DEF CloudInv, ObserverKnows, ObserverReleases
<1>2. observer.name # 0
  BY <1>1 DEF Fences
<1> QED BY <1>1, <1>2 DEF ObserverReleases

LEMMA AllRows ==
  ASSUME CloudInv, [Next]_vars, NEW r \in Runs
  PROVE  RowKind(r)
<1>0. JobTypeOK /\ SlotDiscipline /\ TypeOK /\ RowInv(r)
  BY DEF CloudInv, TypeOK
<1>1. CASE Outside
  BY <1>1, OutsideJobs, IdleRow DEF jobVars
<1>2. ASSUME NEW d \in Relays, RelaySteps(d) PROVE RowKind(r)
  BY <1>0, <1>2, RelayRow DEF CloudInv
<1>3. ASSUME NEW h \in Handlers, NEW q \in Runs, NEW g \in Generations, LaunchClaims(h, q, g)
      PROVE  RowKind(r)
  BY <1>0, <1>3, ClaimsRow
<1>4. CASE OutboxOnly
  BY <1>0, <1>4, OutboxOnlyRow
<1>5. ASSUME NEW h \in Handlers, OutboxOf(h) PROVE RowKind(r)
  BY <1>0, <1>5, OutboxOfRow DEF CloudInv
<1>6. ASSUME NEW h \in Handlers, ReleaseRejected(h) PROVE RowKind(r)
  BY <1>0, <1>6, ReleaseStep, AckRow
<1>7. CASE ObserverReleases
  BY <1>0, <1>7, ObserverStep, AckRow
<1>8. ASSUME NEW q \in Runs, NEW f \in Fences, OperatorConfirms(q, f) PROVE RowKind(r)
  BY <1>0, <1>8, AckRow DEF OperatorConfirms
<1>9. ASSUME NEW q \in Runs, LaunchDenied(q) PROVE RowKind(r)
  BY <1>0, <1>9, DeniedRow DEF LaunchDenied
<1>10. ASSUME NEW q \in Runs, NEW f \in Fences, RemoteEnters(q, f) PROVE RowKind(r)
  BY <1>0, <1>10, BeginRow DEF RemoteEnters
<1>11. ASSUME NEW q \in Runs, NEW f \in Fences, NEW report \in Published, RemoteReports(q, f, report)
       PROVE  RowKind(r)
  BY <1>0, <1>11, FinishRow DEF RemoteReports
<1>12. CASE Reconcile \/ OwnerActs(Requests) \/ ClockTicks(Requests)
  BY <1>0, <1>12, ReconcileRow, OwnerRow, ClockRow
<1> QED BY <1>1, <1>2, <1>3, <1>4, <1>5, <1>6, <1>7, <1>8, <1>9, <1>10, <1>11, <1>12, StepsOf

LEMMA AckTyped ==
  ASSUME JobTypeOK, SlotDiscipline, NEW r \in Runs, NEW f \in Fences, AcknowledgeStopped(r, f)
  PROVE  JobTypeOK' /\ SlotDiscipline'
<1>1. CASE Open(r, f)
  BY <1>1, AckStep, AckKeepsSlots
<1>2. CASE ~Open(r, f)
  <2>1. UNCHANGED <<run, slot, budget, dispatch, asset, owner>>
    BY <1>2 DEF AcknowledgeStopped, jobVars
  <2> QED BY <2>1 DEF JobTypeOK, SlotDiscipline, OpenSlots, HasOpenSlot, Open
<1> QED BY <1>1, <1>2

LEMMA OutboxTyped ==
  ASSUME JobTypeOK, SlotDiscipline, UNCHANGED <<run, slot, budget, asset, owner>>,
         dispatch' \in [Runs -> DispatchRow]
  PROVE  JobTypeOK' /\ SlotDiscipline'
  BY DEF JobTypeOK, SlotDiscipline, OpenSlots, HasOpenSlot, Open

LEMMA RelayTyped ==
  ASSUME TypeOK, NEW d \in Relays, RelayKnows(d), RelaySteps(d)
  PROVE  dispatch' \in [Runs -> DispatchRow] /\ UNCHANGED <<run, slot, budget, asset, owner>>
<1>0. dispatch \in [Runs -> DispatchRow]
  BY DEF TypeOK, JobTypeOK
<1>1. UNCHANGED <<run, slot, budget, asset, owner>>
  BY DEF RelaySteps, RelayLeases, RelayRecords, RelayCrashes, RelaySends, jobVars
<1>2. ASSUME NEW q \in Runs, RelayLeases(d, q) PROVE dispatch' \in [Runs -> DispatchRow]
  <2> DEFINE tries == IF dispatch[q].attempts < MaxTries THEN dispatch[q].attempts + 1
                      ELSE dispatch[q].attempts
  <2>1. dispatch' = [dispatch EXCEPT ![q] = [dispatch[q] EXCEPT !.leased = TRUE, !.attempts = tries]]
    BY <1>2 DEF RelayLeases
  <2>2. tries \in Nat
    BY <1>0 DEF DispatchRow
  <2> HIDE DEF tries
  <2>3. [dispatch[q] EXCEPT !.leased = TRUE, !.attempts = tries] \in DispatchRow
    BY <1>0, <2>2 DEF DispatchRow
  <2> QED BY <1>0, <2>1, <2>3
<1>3. CASE RelayRecords(d)
  <2> DEFINE q == relay[d].run
             s == CASE relay[d].pc = "sent" -> "ENQUEUED"
                    [] relay[d].pc = "retry" /\ dispatch[q].attempts < MaxTries -> "RETRY"
                    [] OTHER -> "ATTENTION"
  <2>1. q \in Runs
    BY <1>3 DEF RelayKnows, RelayRecords
  <2>2. s \in DispatchStatus
    BY DEF DispatchStatus
  <2>3. dispatch' = dispatch \/ dispatch' = [dispatch EXCEPT ![q] = Mark(@, s)]
    BY <1>3 DEF RelayRecords
  <2> HIDE DEF s
  <2>4. Mark(dispatch[q], s) \in DispatchRow
    BY <1>0, <2>1, <2>2, DispatchLemma
  <2> QED BY <1>0, <1>1, <2>1, <2>3, <2>4
<1>4. CASE RelayCrashes(d) \/ \E answer \in {"sent", "retry", "failed"} : RelaySends(d, answer)
  BY <1>0, <1>1, <1>4 DEF RelayCrashes, RelaySends, jobVars
<1> QED BY <1>1, <1>2, <1>3, <1>4 DEF RelaySteps

LEMMA OutboxOnlyTyped ==
  ASSUME JobTypeOK, OutboxOnly
  PROVE  dispatch' \in [Runs -> DispatchRow] /\ UNCHANGED <<run, slot, budget, asset, owner>>
<1>0. dispatch \in [Runs -> DispatchRow]
  BY DEF JobTypeOK
<1>1. ASSUME NEW q \in Runs, LaunchUnqualified(q) PROVE dispatch' \in [Runs -> DispatchRow]
  BY <1>0, <1>1 DEF LaunchUnqualified, DispatchRow, DispatchStatus
<1>2. ASSUME NEW q \in Runs, IntentLeaseEnds(q) PROVE dispatch' \in [Runs -> DispatchRow]
  BY <1>0, <1>2 DEF IntentLeaseEnds, DispatchRow
<1>3. CASE ReconcileLaunching
  <2>1. \A q \in Runs : Mark(dispatch[q], "UNCERTAIN") \in DispatchRow
    <3>1. "UNCERTAIN" \in DispatchStatus
      BY DEF DispatchStatus
    <3> QED BY <1>0, <3>1, DispatchLemma
  <2> QED BY <1>0, <1>3, <2>1 DEF ReconcileLaunching
<1>4. UNCHANGED <<run, slot, budget, asset, owner>>
  BY DEF OutboxOnly, LaunchUnqualified, IntentLeaseEnds, ReconcileLaunching
<1> QED BY <1>1, <1>2, <1>3, <1>4 DEF OutboxOnly

LEMMA OutboxOfTyped ==
  ASSUME JobTypeOK, NEW h \in Handlers, KnowsAttempt(h), OutboxOf(h)
  PROVE  dispatch' \in [Runs -> DispatchRow] /\ UNCHANGED <<run, slot, budget, asset, owner>>
<1>0. dispatch \in [Runs -> DispatchRow]
  BY DEF JobTypeOK
<1> DEFINE q == handler[h].run
<1>1. q \in Runs /\ handler[h].fence \in Fences
  BY DEF KnowsAttempt, Busy, OutboxOf, RecordReceipt, RecordFailure, MarkRejected
<1>2. /\ Mark(dispatch[q], "SUBMITTED") \in DispatchRow
      /\ Mark(dispatch[q], "UNCERTAIN") \in DispatchRow
      /\ Mark(dispatch[q], "ATTENTION") \in DispatchRow
  <2>1. {"SUBMITTED", "UNCERTAIN", "ATTENTION"} \subseteq DispatchStatus
    BY DEF DispatchStatus
  <2> QED BY <1>0, <1>1, <2>1, DispatchLemma
<1>3. UNCHANGED <<run, slot, budget, asset, owner>>
  BY DEF OutboxOf, RecordReceipt, RecordFailure, MarkRejected
<1>4. CASE RecordReceipt(h)
  <2> DEFINE row == IF dispatch[q].status = "LAUNCHING" THEN Mark(dispatch[q], "SUBMITTED")
                    ELSE dispatch[q]
  <2>1. row \in DispatchRow
    BY <1>0, <1>1, <1>2
  <2>2. \/ dispatch' = dispatch
        \/ dispatch' = [dispatch EXCEPT ![q] = [row EXCEPT !.operation = handler[h].fence]]
    BY <1>4 DEF RecordReceipt
  <2> HIDE DEF row
  <2>3. handler[h].fence \in 0..MaxFence
    BY <1>1, LimitAssumption DEF Fences
  <2>4. [row EXCEPT !.operation = handler[h].fence] \in DispatchRow
    BY <2>1, <2>3 DEF DispatchRow
  <2> QED BY <1>0, <1>1, <1>3, <2>2, <2>4
<1>5. CASE RecordFailure(h)
  <2>1. PICK s \in {"UNCERTAIN", "ATTENTION"} :
          dispatch' = dispatch \/ dispatch' = [dispatch EXCEPT ![q] = Mark(@, s)]
    BY <1>5 DEF RecordFailure
  <2> QED BY <1>0, <1>1, <1>2, <1>3, <2>1
<1>6. CASE MarkRejected(h)
  BY <1>0, <1>1, <1>3, <1>6 DEF MarkRejected, DispatchRow, DispatchStatus
<1> QED BY <1>4, <1>5, <1>6 DEF OutboxOf

(* The tables of the jobs keep their types and the discipline of the slots. *)
LEMMA TypesAndSlots ==
  ASSUME CloudInv, [Next]_vars
  PROVE  JobTypeOK' /\ SlotDiscipline'
<1>0. JobTypeOK /\ SlotDiscipline /\ TypeOK
  BY DEF CloudInv, TypeOK
<1>1. CASE Outside
  <2>1. UNCHANGED <<run, slot, budget, dispatch, asset, owner>>
    BY <1>1, OutsideJobs DEF jobVars
  <2> QED BY <1>0, <2>1 DEF JobTypeOK, SlotDiscipline, OpenSlots, HasOpenSlot, Open
<1>2. ASSUME NEW d \in Relays, RelaySteps(d) PROVE JobTypeOK' /\ SlotDiscipline'
  BY <1>0, <1>2, RelayTyped, OutboxTyped DEF CloudInv
<1>3. ASSUME NEW h \in Handlers, NEW q \in Runs, NEW g \in Generations, LaunchClaims(h, q, g)
      PROVE  JobTypeOK' /\ SlotDiscipline'
  <2>1. ClaimRows(q) /\ dispatch' \in [Runs -> DispatchRow]
    BY <1>0, <1>3, LaunchClaimsTyped DEF LaunchClaims
  <2> QED BY <1>0, <2>1, ClaimRowsStep, ClaimRowsKeepSlots
<1>4. CASE OutboxOnly
  BY <1>0, <1>4, OutboxOnlyTyped, OutboxTyped
<1>5. ASSUME NEW h \in Handlers, OutboxOf(h) PROVE JobTypeOK' /\ SlotDiscipline'
  BY <1>0, <1>5, OutboxOfTyped, OutboxTyped DEF CloudInv
<1>6. ASSUME NEW h \in Handlers, ReleaseRejected(h) PROVE JobTypeOK' /\ SlotDiscipline'
  BY <1>0, <1>6, ReleaseStep, AckTyped
<1>7. CASE ObserverReleases
  BY <1>0, <1>7, ObserverStep, AckTyped
<1>8. ASSUME NEW q \in Runs, NEW f \in Fences, OperatorConfirms(q, f)
      PROVE  JobTypeOK' /\ SlotDiscipline'
  BY <1>0, <1>8, AckTyped DEF OperatorConfirms
<1>9. ASSUME JobTypeOK', Quiet PROVE JobTypeOK' /\ SlotDiscipline'
  BY <1>0, <1>9, QuietKeepsSlots
<1>10. ASSUME NEW q \in Runs, LaunchDenied(q) PROVE JobTypeOK' /\ SlotDiscipline'
  BY <1>0, <1>9, <1>10, UnbudgetedStep, ExhaustedStep, DeferredStep DEF LaunchDenied
<1>11. ASSUME NEW q \in Runs, NEW f \in Fences, RemoteEnters(q, f)
       PROVE  JobTypeOK' /\ SlotDiscipline'
  BY <1>0, <1>11, BeginStep, BeginKeepsSlots DEF RemoteEnters
<1>12. ASSUME NEW q \in Runs, NEW f \in Fences, NEW report \in Published, RemoteReports(q, f, report)
       PROVE  JobTypeOK' /\ SlotDiscipline'
  BY <1>0, <1>9, <1>12, FinishStep DEF RemoteReports
<1>13. CASE Reconcile \/ OwnerActs(Requests) \/ ClockTicks(Requests)
  BY <1>0, <1>9, <1>13, ReconcileStep, OwnerStep, ClockStep
<1> QED BY <1>1, <1>2, <1>3, <1>4, <1>5, <1>6, <1>7, <1>8, <1>10, <1>11, <1>12, <1>13, StepsOf
-----------------------------------------------------------------------------
(* The rows. *)

(* The queue forgets no task. *)
LEMMA TasksStay ==
  ASSUME [Next]_vars
  PROVE  task \subseteq task'
<1>1. ASSUME NEW d \in Relays, RelaySteps(d) PROVE task \subseteq task'
  BY <1>1 DEF RelaySteps, RelayLeases, RelaySends, RelayRecords, RelayCrashes
<1>2. CASE OutboxOnly
  BY <1>2 DEF OutboxOnly, LaunchUnqualified, IntentLeaseEnds, ReconcileLaunching, cloudVars
<1>3. CASE Outside
  BY <1>3 DEF Outside, QueueGivesUp, LaunchCalls, HandlerCrashes, LaunchAnswered, ExecutionCreated, CallLost,
              RemoteEnds, ObserverReads, ObserverLooks, ObserverNames, ObserverLeaves, vars
<1>4. ASSUME NEW h \in Handlers,
             \/ \E r \in Runs, g \in Generations : LaunchClaims(h, r, g)
             \/ OutboxOf(h) \/ ReleaseRejected(h)
      PROVE  task \subseteq task'
  BY <1>4 DEF OutboxOf, LaunchClaims, RecordReceipt, RecordFailure, ReleaseRejected, MarkRejected
<1>5. ASSUME NEW q \in Runs, NEW f \in Fences,
             \/ OperatorConfirms(q, f) \/ RemoteEnters(q, f)
             \/ \E report \in Published : RemoteReports(q, f, report)
      PROVE  task \subseteq task'
  BY <1>5 DEF OperatorConfirms, RemoteEnters, RemoteReports, cloudVars
<1>6. ASSUME NEW q \in Runs, LaunchDenied(q) PROVE task \subseteq task'
  BY <1>6 DEF LaunchDenied, cloudVars
<1>7. CASE ObserverReleases \/ UNCHANGED cloudVars
  BY <1>7 DEF ObserverReleases, cloudVars
<1> QED BY <1>1, <1>2, <1>3, <1>4, <1>5, <1>6, <1>7, StepsOf

(* What the rows of a run say stays true. *)
LEMMA RowKept ==
  ASSUME CloudInv, [Next]_vars, NEW r \in Runs
  PROVE  RowInv(r)'
<1>1. RowKind(r) /\ task \subseteq task'
  BY AllRows, TasksStay
<1>2. /\ RowInv(r) /\ JobTypeOK /\ SlotDiscipline /\ JobTypeOK'
  BY TypesAndSlots DEF CloudInv, TypeOK
<1>3. /\ run[r] \in RunRow /\ run'[r] \in RunRow
      /\ dispatch[r] \in DispatchRow /\ dispatch'[r] \in DispatchRow
  BY <1>2 DEF JobTypeOK
<1>4. /\ run[r].attempts \in Nat /\ run'[r].attempts \in Nat
      /\ run[r].attempts <= MaxAttempts /\ run'[r].attempts <= MaxAttempts
      /\ MaxAttempts \in Nat
      /\ dispatch[r].generation \in Nat /\ dispatch'[r].generation \in Nat
  BY <1>3, LimitAssumption DEF RunRow, DispatchRow
<1>5. CASE Keeps(r)
  BY <1>1, <1>2, <1>5 DEF RowInv, Keeps, Steady, SameIdentity, HasRow, Known, Open
<1>6. CASE Marks(r)
  BY <1>1, <1>2, <1>6 DEF RowInv, Marks, Steady, SameIdentity, HasRow, Known, Open
<1>7. NewDispatch.status = "PENDING" /\ NewDispatch.generation = 1 /\ NewDispatch.operation = 0
  BY DEF NewDispatch, AbsentDispatch
<1>8. 1 \in Generations
  BY <1>4 DEF Generations, MaxGeneration
<1>9. CASE Intends(r)
  BY <1>2, <1>4, <1>7, <1>8, <1>9
     DEF RowInv, Intends, Steady, HasRow, Known, Open, Dispatchable, Undelivered
<1>10. CASE Enqueues(r)
  BY <1>2, <1>4, <1>7, <1>8, <1>10
     DEF RowInv, Enqueues, HasRow, Known, Open, Dispatchable, Undelivered
<1>11. CASE Claims(r)
  BY <1>2, <1>4, <1>11 DEF RowInv, Claims, SameIdentity, HasRow, Known, Open
<1>12. CASE Receives(r)
  <2>1. PICK h \in Handlers :
          /\ Busy(h) /\ handler[h].run = r /\ SameIntent(r, handler[h].generation)
          /\ Steady(r)
          /\ dispatch'[r].generation = dispatch[r].generation
          /\ dispatch'[r].operation = handler[h].fence
          /\ \/ dispatch'[r].status = dispatch[r].status
             \/ dispatch[r].status = "LAUNCHING" /\ dispatch'[r].status = "SUBMITTED"
    BY <1>12 DEF Receives
  <2>2. /\ HasRow(r) /\ Known(r) /\ run[r].status # "QUEUED"
        /\ \A o \in Fences : Open(r, o) => o = handler[h].fence
    BY <2>1 DEF CloudInv, KnowsAttempt
  <2> QED BY <1>1, <1>2, <2>1, <2>2 DEF RowInv, Steady, HasRow, Known, Open
<1>13. ASSUME NEW f \in Fences, LetsGo(r, f) PROVE RowInv(r)'
  <2>1. run[r].status \notin {"ABSENT", "QUEUED"}
    BY <1>2, <1>13 DEF LetsGo, SlotDiscipline, HasOpenSlot
  <2>2. CASE run[r].status = "PROCESSING" /\ run'[r].status = "QUEUED"
             /\ dispatch'[r] = Reissued(dispatch[r])
    <3>1. /\ dispatch'[r].status = "PENDING" /\ dispatch'[r].operation = 0
          /\ dispatch'[r].generation = IF Known(r) THEN dispatch[r].generation + 1 ELSE 2
      BY <1>3, <2>2 DEF Reissued, WithIntent, NewDispatch, AbsentDispatch, DispatchRow, Known
    <3>2. run[r].attempts >= 1 /\ dispatch[r].generation <= run[r].attempts
      BY <1>2, <2>2 DEF RowInv
    <3>3. dispatch'[r].generation <= run'[r].attempts + 1 /\ dispatch'[r].generation >= 1
      BY <1>4, <1>13, <3>1, <3>2 DEF LetsGo
    <3>4. dispatch'[r].generation \in Generations
      BY <1>4, <3>3 DEF Generations, MaxGeneration
    <3> QED BY <2>2, <3>1, <3>3, <3>4
            DEF RowInv, HasRow, Known, Open, Dispatchable, Undelivered
  <2>3. CASE run'[r].status = run[r].status /\ dispatch'[r] = Mark(dispatch[r], "DONE")
    <3>1. /\ SameIdentity(r)
          /\ dispatch'[r].status = IF Known(r) THEN "DONE" ELSE "ABSENT"
      BY <1>3, <2>3 DEF Mark, DispatchRow, SameIdentity, Known
    <3>2. \A g \in Fences : slot'[r][g].state = "open" => Open(r, g)
      BY <1>13 DEF LetsGo, Open
    <3>3. run'[r].attempts = run[r].attempts
      BY <1>13 DEF LetsGo
    <3> QED BY <1>2, <2>1, <2>3, <3>1, <3>2, <3>3
            DEF RowInv, SameIdentity, HasRow, Known, Open
  <2> QED BY <1>13, <2>2, <2>3 DEF LetsGo
<1> QED BY <1>1, <1>5, <1>6, <1>9, <1>10, <1>11, <1>12, <1>13 DEF RowKind
-----------------------------------------------------------------------------
(* The processes. *)

(* A slot is taken or stays as it is, but for the three releases. *)
LEMMA SlotSteps ==
  ASSUME CloudInv, [Next]_vars
  PROVE  \/ \A r \in Runs, f \in Fences : Open(r, f) => slot'[r][f].state = "open"
         \/ \E h \in Handlers : ReleaseRejected(h)
         \/ ObserverReleases
         \/ \E r \in Runs, f \in Fences : OperatorConfirms(r, f)
<1> DEFINE Kept == \A r \in Runs, f \in Fences : Open(r, f) => slot'[r][f].state = "open"
<1>0. JobTypeOK /\ SlotDiscipline /\ TypeOK
  BY DEF CloudInv, TypeOK
<1>1. ASSUME slot' = slot \/ Quiet PROVE Kept
  BY <1>1 DEF Quiet, Open
<1>2. CASE Outside
  BY <1>1, <1>2, OutsideJobs DEF jobVars
<1>3. ASSUME NEW d \in Relays, RelaySteps(d) PROVE Kept
  BY <1>0, <1>1, <1>3, RelayTyped DEF CloudInv
<1>4. ASSUME NEW h \in Handlers, NEW q \in Runs, NEW g \in Generations, LaunchClaims(h, q, g)
      PROVE  Kept
  <2>1. ClaimRows(q) /\ dispatch' \in [Runs -> DispatchRow]
    BY <1>0, <1>4, LaunchClaimsTyped DEF LaunchClaims
  <2>2. \A r \in Runs, f \in Fences :
          slot'[r][f] = IF r = q /\ f = run[q].fence + 1 THEN OpenedSlot ELSE slot[r][f]
    BY <1>0, <2>1, ClaimRowsStep
  <2> QED BY <2>2 DEF OpenedSlot, Open
<1>5. CASE OutboxOnly
  BY <1>0, <1>1, <1>5, OutboxOnlyTyped
<1>6. ASSUME NEW h \in Handlers, OutboxOf(h) PROVE Kept
  BY <1>0, <1>1, <1>6, OutboxOfTyped DEF CloudInv
<1>7. ASSUME NEW q \in Runs, LaunchDenied(q) PROVE Kept
  BY <1>0, <1>1, <1>7, UnbudgetedStep, ExhaustedStep, DeferredStep DEF LaunchDenied
<1>8. ASSUME NEW q \in Runs, NEW f \in Fences, RemoteEnters(q, f) PROVE Kept
  BY <1>0, <1>8, BeginStep DEF RemoteEnters, Open
<1>9. ASSUME NEW q \in Runs, NEW f \in Fences, NEW report \in Published, RemoteReports(q, f, report)
      PROVE  Kept
  BY <1>0, <1>1, <1>9, FinishStep DEF RemoteReports
<1>10. CASE Reconcile \/ OwnerActs(Requests) \/ ClockTicks(Requests)
  BY <1>0, <1>1, <1>10, ReconcileStep, OwnerStep, ClockStep
<1> QED BY <1>2, <1>3, <1>4, <1>5, <1>6, <1>7, <1>8, <1>9, <1>10, StepsOf

(* Nothing runs, or will run, for a slot that is released. *)
LEMMA ReleasedSlot ==
  ASSUME CloudInv, [Next]_vars, NEW r \in Runs, NEW f \in Fences,
         Open(r, f), slot'[r][f].state # "open"
  PROVE  /\ remote' = remote /\ remote[r][f] \in {"none", "stopped"}
         /\ \A h \in Handlers : handler[h].pc = "claimed" =>
              ~(handler[h].run = r /\ handler[h].fence = f)
<1>0. JobTypeOK
  BY DEF CloudInv, TypeOK
<1>1. ASSUME NEW q \in Runs, NEW g \in Fences, AcknowledgeStopped(q, g) PROVE q = r /\ g = f
  <2>1. CASE Open(q, g)
    BY <1>0, <1>1, <2>1, AckStep DEF Open
  <2>2. CASE ~Open(q, g)
    BY <1>1, <2>2 DEF AcknowledgeStopped, jobVars, Open
  <2> QED BY <2>1, <2>2
<1>2. CASE \E h \in Handlers : ReleaseRejected(h)
  <2>1. PICK h \in Handlers : ReleaseRejected(h)
    BY <1>2
  <2>2. handler[h].run = r /\ handler[h].fence = f /\ remote[r][f] = "none"
    BY <1>1, <2>1, ReleaseStep
  <2>3. remote' = remote /\ handler[h].pc = "release"
    BY <2>1 DEF ReleaseRejected
  <2> QED BY <2>2, <2>3 DEF CloudInv, HandlersDistinct, Busy
<1>3. CASE ObserverReleases
  <2>1. observer.run = r /\ observer.fence = f
    BY <1>1, <1>3, ObserverStep
  <2>2. remote[r][f] = "stopped" /\ remote' = remote
    BY <1>3, <2>1, ObserverStep DEF ObserverReleases
  <2> QED BY <2>2 DEF CloudInv, KnowsRemote
<1>4. ASSUME NEW q \in Runs, NEW g \in Fences, OperatorConfirms(q, g)
      PROVE  /\ remote' = remote /\ remote[r][f] \in {"none", "stopped"}
             /\ \A h \in Handlers : handler[h].pc = "claimed" =>
                  ~(handler[h].run = r /\ handler[h].fence = f)
  BY <1>1, <1>4 DEF OperatorConfirms, cloudVars
<1> QED BY <1>2, <1>3, <1>4, SlotSteps DEF Open

(* What a step does to a handler: nothing, or it claims, or it leaves, or   *)
(* it carries its attempt on and knows of every refusal that none runs.     *)
Carries(h) ==
  /\ Busy(h) /\ handler'[h].pc # "idle" /\ handler'[h].pc # "claimed"
  /\ handler'[h].run = handler[h].run
  /\ handler'[h].generation = handler[h].generation
  /\ handler'[h].fence = handler[h].fence
  /\ handler'[h].pc \in {"rejected", "release"} =>
       remote'[handler[h].run][handler[h].fence] = "none"

HandlerKind(h) ==
  \/ handler'[h] = handler[h]
  \/ handler'[h] = HandlerIdle
  \/ Carries(h)
  \/ \E r \in Runs, g \in Generations : LaunchClaims(h, r, g)

HandlerRow == [pc : {"idle", "claimed", "calling", "accepted", "ambiguous", "rejected",
                     "release", "mark"},
               run : Runs \cup {NoRun}, generation : 0..MaxGeneration, fence : 0..MaxFence]
RemoteState == {"none", "inflight", "created", "entered", "stopped"}

LEMMA HandlerMoves ==
  ASSUME CloudInv, [Next]_vars, NEW h \in Handlers
  PROVE  HandlerKind(h)
<1>0. /\ handler \in [Handlers -> HandlerRow]
      /\ remote \in [Runs -> [Fences -> RemoteState]]
  BY DEF CloudInv, TypeOK, HandlerRow, RemoteState
<1>1. ASSUME NEW k \in Handlers,
             \/ \E r \in Runs, g \in Generations : LaunchClaims(k, r, g)
             \/ MarkRejected(k) \/ RecordReceipt(k) \/ HandlerCrashes(k)
      PROVE  HandlerKind(h)
  <2>1. CASE k = h
    BY <1>0, <1>1, <2>1 DEF HandlerKind, MarkRejected, RecordReceipt, HandlerCrashes
  <2>2. CASE k # h
    BY <1>0, <1>1, <2>2
       DEF HandlerKind, LaunchClaims, MarkRejected, RecordReceipt, HandlerCrashes
  <2> QED BY <2>1, <2>2
<1>2. ASSUME NEW k \in Handlers, NEW pc \in {"calling", "accepted", "ambiguous", "mark"},
             handler[k].pc # "idle", handler' = [handler EXCEPT ![k].pc = pc]
      PROVE  HandlerKind(h)
  <2>1. CASE k = h
    <3>1. Carries(h)
      BY <1>0, <1>2, <2>1 DEF Carries, Busy, HandlerRow
    <3> QED BY <3>1 DEF HandlerKind
  <2>2. CASE k # h
    BY <1>0, <1>2, <2>2 DEF HandlerKind
  <2> QED BY <2>1, <2>2
<1>3. ASSUME NEW k \in Handlers, NEW pc \in {"rejected", "release"},
             handler[k].pc # "idle", handler' = [handler EXCEPT ![k].pc = pc],
             remote'[handler[k].run][handler[k].fence] = "none"
      PROVE  HandlerKind(h)
  <2>1. CASE k = h
    <3>1. Carries(h)
      BY <1>0, <1>3, <2>1 DEF Carries, Busy, HandlerRow
    <3> QED BY <3>1 DEF HandlerKind
  <2>2. CASE k # h
    BY <1>0, <1>3, <2>2 DEF HandlerKind
  <2> QED BY <2>1, <2>2
<1>4. ASSUME NEW k \in Handlers, LaunchCalls(k) \/ ReleaseRejected(k)
      PROVE  HandlerKind(h)
  BY <1>2, <1>4 DEF LaunchCalls, ReleaseRejected
<1>5. ASSUME NEW k \in Handlers, NEW answer \in {"accepted", "ambiguous", "rejected"},
             LaunchAnswered(k, answer)
      PROVE  HandlerKind(h)
  <2>1. handler[k].pc = "calling" /\ handler' = [handler EXCEPT ![k].pc = answer]
    BY <1>5 DEF LaunchAnswered
  <2>2. handler[k].run \in Runs /\ handler[k].fence \in Fences
    BY <2>1 DEF CloudInv, KnowsAttempt, Busy
  <2>3. answer = "rejected" => remote'[handler[k].run][handler[k].fence] = "none"
    BY <1>0, <1>5, <2>2 DEF LaunchAnswered
  <2> QED BY <1>2, <1>3, <2>1, <2>3
<1>6. ASSUME NEW k \in Handlers, RecordFailure(k) PROVE HandlerKind(h)
  <2>1. /\ handler[k].pc \in {"ambiguous", "rejected"} /\ remote' = remote
        /\ handler' = [handler EXCEPT ![k] = IF handler[k].pc = "ambiguous" THEN HandlerIdle
                                             ELSE [@ EXCEPT !.pc = "release"]]
    BY <1>6 DEF RecordFailure
  <2>2. CASE handler[k].pc = "ambiguous"
    BY <1>0, <2>1, <2>2 DEF HandlerKind
  <2>3. CASE handler[k].pc = "rejected"
    <3>1. handler' = [handler EXCEPT ![k].pc = "release"]
      BY <2>1, <2>3
    <3>2. remote'[handler[k].run][handler[k].fence] = "none"
      BY <2>1, <2>3 DEF CloudInv, KnowsRemote
    <3> QED BY <1>3, <2>3, <3>1, <3>2
  <2> QED BY <2>1, <2>2, <2>3
<1>7. CASE UNCHANGED handler
  BY <1>7 DEF HandlerKind
<1>8. ASSUME NEW d \in Relays, RelaySteps(d) PROVE UNCHANGED handler
  BY <1>8 DEF RelaySteps, RelayLeases, RelaySends, RelayRecords, RelayCrashes
<1>9. ASSUME NEW q \in Runs, NEW f \in Fences,
             \/ OperatorConfirms(q, f) \/ RemoteEnters(q, f)
             \/ \E report \in Published : RemoteReports(q, f, report)
             \/ ExecutionCreated(q, f) \/ CallLost(q, f) \/ RemoteEnds(q, f) \/ ObserverReads(q, f)
      PROVE  UNCHANGED handler
  BY <1>9 DEF OperatorConfirms, RemoteEnters, RemoteReports, cloudVars,
              ExecutionCreated, CallLost, RemoteEnds, ObserverReads
<1>10. ASSUME NEW q \in Runs, LaunchDenied(q) PROVE UNCHANGED handler
  BY <1>10 DEF LaunchDenied, cloudVars
<1>11. CASE OutboxOnly \/ UNCHANGED cloudVars \/ UNCHANGED vars
  BY <1>7, <1>11 DEF OutboxOnly, LaunchUnqualified, IntentLeaseEnds, ReconcileLaunching,
                     cloudVars, vars
<1>12. CASE ObserverLooks \/ ObserverNames \/ ObserverReleases \/ ObserverLeaves
  BY <1>7, <1>12 DEF ObserverLooks, ObserverNames, ObserverReleases, ObserverLeaves
<1>13. ASSUME NEW q \in Runs, NEW g \in Generations, QueueGivesUp(q, g) PROVE UNCHANGED handler
  BY <1>13 DEF QueueGivesUp
<1> QED BY <1>1, <1>4, <1>5, <1>6, <1>7, <1>8, <1>9, <1>10, <1>11, <1>12, <1>13, StepsOf
        DEF Outside, OutboxOf

(* What a claim gives the handler that made it. *)
LEMMA FreshAttempt ==
  ASSUME CloudInv, NEW h \in Handlers, NEW r \in Runs, NEW g \in Generations,
         LaunchClaims(h, r, g)
  PROVE  /\ run[r].fence + 1 \in Fences
         /\ handler'[h] = [pc |-> "claimed", run |-> r, generation |-> g,
                           fence |-> run[r].fence + 1]
         /\ \A k \in Handlers : k # h => handler'[k] = handler[k]
         /\ Claims(r) /\ SameIntent(r, g) /\ remote' = remote /\ ~Busy(h)
  <1>1. JobTypeOK /\ SlotDiscipline /\ handler \in [Handlers -> HandlerRow]
    BY DEF CloudInv, TypeOK, HandlerRow
  <1>2. Claims(r)
    BY <1>1, ClaimsRow
  <1> QED BY <1>1, <1>2 DEF Claims, LaunchClaims, Launchable, Busy

(* What a handler may rely on stays true of its attempt. *)
LEMMA AttemptKept ==
  ASSUME CloudInv, [Next]_vars, NEW h \in Handlers
  PROVE  KnowsAttempt(h)'
<1>1. CASE handler'[h] = HandlerIdle
  BY <1>1 DEF KnowsAttempt, Busy, HandlerIdle
<1>2. CASE /\ Busy(h)
           /\ handler'[h].run = handler[h].run
           /\ handler'[h].generation = handler[h].generation
           /\ handler'[h].fence = handler[h].fence
  <2> DEFINE r == handler[h].run
             f == handler[h].fence
             g == handler[h].generation
  <2>1. /\ r \in Runs /\ f \in Fences /\ g \in Generations
        /\ slot[r][f].state # "none" /\ HasRow(r)
        /\ Known(r) /\ g <= dispatch[r].generation
        /\ SameIntent(r, g) => /\ run[r].status # "QUEUED"
                               /\ \A o \in Fences : Open(r, o) => o = f
    BY <1>2 DEF CloudInv, KnowsAttempt
  <2> HIDE DEF r, f, g
  <2>2. g \in Nat /\ dispatch[r].generation \in Nat /\ dispatch[r] \in DispatchRow
    BY <2>1 DEF Generations, CloudInv, TypeOK, JobTypeOK, DispatchRow
  <2>3. RowKind(r)
    BY <2>1, AllRows
  <2>4. /\ slot'[r][f].state # "none" /\ run'[r].status # "ABSENT"
        /\ dispatch'[r].status # "ABSENT" /\ g <= dispatch'[r].generation
        /\ dispatch'[r].generation = g =>
             /\ run'[r].status # "QUEUED"
             /\ \A o \in Fences : slot'[r][o].state = "open" => o = f
    <3>1. CASE Keeps(r) \/ Marks(r) \/ Receives(r)
      BY <2>1, <3>1
         DEF Keeps, Marks, Receives, Steady, SameIdentity, SameIntent, HasRow, Known, Open
    <3>2. CASE Intends(r) \/ Enqueues(r)
      BY <2>1, <3>2 DEF Intends, Enqueues, HasRow, Known
    <3>3. CASE Claims(r)
      <4>1. ~SameIntent(r, g)
        BY <2>1, <3>3 DEF Claims
      <4> QED BY <2>1, <3>3, <4>1 DEF Claims, SameIdentity, SameIntent
    <3>4. ASSUME NEW o \in Fences, LetsGo(r, o)
          PROVE  /\ slot'[r][f].state # "none" /\ run'[r].status # "ABSENT"
                 /\ dispatch'[r].status # "ABSENT" /\ g <= dispatch'[r].generation
                 /\ dispatch'[r].generation = g =>
                      /\ run'[r].status # "QUEUED"
                      /\ \A p \in Fences : slot'[r][p].state = "open" => p = f
      <4>1. /\ slot'[r][f].state # "none"
            /\ \A p \in Fences : slot'[r][p].state = "open" => Open(r, p)
        BY <2>1, <3>4 DEF LetsGo, Open
      <4>2. CASE run'[r].status = "QUEUED" /\ dispatch'[r] = Reissued(dispatch[r])
        <5>1. dispatch'[r].status = "PENDING"
              /\ dispatch'[r].generation = dispatch[r].generation + 1
          BY <2>1, <2>2, <4>2
             DEF Reissued, WithIntent, NewDispatch, AbsentDispatch, DispatchRow, Known
        <5> QED BY <2>1, <2>2, <4>1, <4>2, <5>1
      <4>3. CASE run'[r].status = run[r].status /\ dispatch'[r] = Mark(dispatch[r], "DONE")
        <5>1. dispatch'[r].status = "DONE" /\ dispatch'[r].generation = dispatch[r].generation
          BY <2>1, <2>2, <4>3 DEF Mark, DispatchRow, Known
        <5> QED BY <2>1, <4>1, <4>3, <5>1 DEF SameIntent, HasRow
      <4> QED BY <3>4, <4>2, <4>3 DEF LetsGo
    <3> QED BY <2>3, <3>1, <3>2, <3>3, <3>4 DEF RowKind
  <2>5. handler'[h].run = r /\ handler'[h].fence = f /\ handler'[h].generation = g
    BY <1>2 DEF r, f, g
  <2> QED BY <2>1, <2>4, <2>5 DEF KnowsAttempt, HasRow, Known, SameIntent, Open
<1>3. ASSUME NEW r \in Runs, NEW g \in Generations, LaunchClaims(h, r, g)
      PROVE  KnowsAttempt(h)'
  <2> DEFINE f == run[r].fence + 1
  <2>1. /\ f \in Fences /\ Claims(r) /\ SameIntent(r, g)
        /\ handler'[h] = [pc |-> "claimed", run |-> r, generation |-> g, fence |-> f]
    BY <1>3, FreshAttempt
  <2>2. \A o \in Fences : ~Open(r, o)
    BY <2>1 DEF Claims, CloudInv, SlotDiscipline, HasOpenSlot
  <2>3. /\ slot'[r][f].state # "none"
        /\ \A o \in Fences : slot'[r][o].state = "open" => o = f
        /\ run'[r].status = "PROCESSING" /\ dispatch'[r].status = "LAUNCHING"
        /\ dispatch'[r].generation = g
    BY <2>1, <2>2 DEF Claims, SameIdentity, SameIntent, Open
  <2>4. g <= g
    BY DEF Generations
  <2> HIDE DEF f
  <2>5. handler'[h].run = r /\ handler'[h].fence = f /\ handler'[h].generation = g
    BY <2>1
  <2> QED BY <2>1, <2>3, <2>4, <2>5 DEF KnowsAttempt, HasRow, Known, SameIntent, Open
<1>4. CASE handler'[h] = handler[h]
  BY <1>2, <1>4 DEF KnowsAttempt, Busy
<1> QED BY <1>1, <1>2, <1>3, <1>4, HandlerMoves DEF HandlerKind, Carries

(* No two handlers hold one attempt. *)
LEMMA DistinctKept ==
  ASSUME CloudInv, [Next]_vars
  PROVE  HandlersDistinct'
<1> SUFFICES ASSUME NEW h \in Handlers, NEW k \in Handlers, h # k,
                    handler'[h].pc # "idle", handler'[k].pc # "idle",
                    handler'[h].run = handler'[k].run, handler'[h].fence = handler'[k].fence
             PROVE  FALSE
  BY DEF HandlersDistinct, Busy
<1> DEFINE Held(j) == /\ Busy(j) /\ handler'[j].run = handler[j].run
                      /\ handler'[j].fence = handler[j].fence
           New(j) == \E r \in Runs, g \in Generations : LaunchClaims(j, r, g)
<1>1. (Held(h) \/ New(h)) /\ (Held(k) \/ New(k))
  BY HandlerMoves DEF HandlerKind, Carries, HandlerIdle, Busy
<1>2. ASSUME NEW i \in Handlers, NEW j \in Handlers, New(i), i # j, handler'[j].pc # "idle",
             handler'[i].run = handler'[j].run, handler'[i].fence = handler'[j].fence
      PROVE  FALSE
  <2>1. PICK r \in Runs, g \in Generations : LaunchClaims(i, r, g)
    BY <1>2
  <2>2. /\ handler'[i] = [pc |-> "claimed", run |-> r, generation |-> g,
                          fence |-> run[r].fence + 1]
        /\ handler'[j] = handler[j] /\ Claims(r)
    BY <1>2, <2>1, FreshAttempt
  <2>3. Busy(j) /\ handler[j].run = r /\ handler[j].fence = run[r].fence + 1
    BY <1>2, <2>2 DEF Busy
  <2>4. slot[r][run[r].fence + 1].state = "none"
    BY <2>2 DEF Claims
  <2> QED BY <2>3, <2>4 DEF CloudInv, KnowsAttempt
<1>3. CASE New(h) \/ New(k)
  BY <1>2, <1>3
<1>4. CASE Held(h) /\ Held(k)
  BY <1>4 DEF CloudInv, HandlersDistinct
<1> QED BY <1>1, <1>3, <1>4

(* A handler row put in the place of another keeps the type. *)
LEMMA HandlerTyped ==
  ASSUME CloudInv, [Next]_vars
  PROVE  handler' \in [Handlers -> HandlerRow]
<1>0. handler \in [Handlers -> HandlerRow]
  BY DEF CloudInv, TypeOK, HandlerRow
<1>1. HandlerIdle \in HandlerRow
  BY LimitAssumption DEF HandlerIdle, HandlerRow, MaxGeneration
<1>2. ASSUME NEW k \in Handlers,
             NEW pc \in {"calling", "accepted", "ambiguous", "rejected", "release", "mark"}
      PROVE  [handler[k] EXCEPT !.pc = pc] \in HandlerRow
  BY <1>0, <1>2 DEF HandlerRow
<1>3. ASSUME NEW k \in Handlers,
             \/ MarkRejected(k) \/ RecordReceipt(k) \/ HandlerCrashes(k) \/ LaunchCalls(k)
             \/ ReleaseRejected(k) \/ RecordFailure(k)
             \/ \E answer \in {"accepted", "ambiguous", "rejected"} : LaunchAnswered(k, answer)
      PROVE  handler' \in [Handlers -> HandlerRow]
  <2>1. CASE MarkRejected(k) \/ RecordReceipt(k) \/ HandlerCrashes(k)
    BY <1>0, <1>1, <2>1 DEF MarkRejected, RecordReceipt, HandlerCrashes
  <2>2. ASSUME NEW pc \in {"calling", "accepted", "ambiguous", "rejected", "release", "mark"},
               handler' = [handler EXCEPT ![k].pc = pc]
        PROVE  handler' \in [Handlers -> HandlerRow]
    BY <1>0, <1>2, <2>2
  <2>3. CASE LaunchCalls(k) \/ ReleaseRejected(k)
    BY <2>2, <2>3 DEF LaunchCalls, ReleaseRejected
  <2>4. ASSUME NEW answer \in {"accepted", "ambiguous", "rejected"}, LaunchAnswered(k, answer)
        PROVE  handler' \in [Handlers -> HandlerRow]
    BY <2>2, <2>4 DEF LaunchAnswered
  <2>5. CASE RecordFailure(k)
    <3>1. \/ handler' = [handler EXCEPT ![k] = HandlerIdle]
          \/ handler' = [handler EXCEPT ![k].pc = "release"]
      BY <2>5 DEF RecordFailure
    <3> QED BY <1>0, <1>1, <2>2, <3>1
  <2> QED BY <1>3, <2>1, <2>3, <2>4, <2>5
<1>4. ASSUME NEW k \in Handlers, NEW r \in Runs, NEW g \in Generations, LaunchClaims(k, r, g)
      PROVE  handler' \in [Handlers -> HandlerRow]
  <2> DEFINE row == [pc |-> "claimed", run |-> r, generation |-> g, fence |-> run[r].fence + 1]
  <2>1. run[r].fence + 1 \in Fences
    BY <1>4, FreshAttempt
  <2>2. g \in 0..MaxGeneration /\ run[r].fence + 1 \in 0..MaxFence
    BY <2>1, LimitAssumption DEF Fences, Generations, MaxGeneration
  <2>3. row \in HandlerRow
    BY <2>2 DEF HandlerRow
  <2>4. handler' = [handler EXCEPT ![k] = row]
    BY <1>4 DEF LaunchClaims
  <2> HIDE DEF row
  <2> QED BY <1>0, <2>3, <2>4
<1>5. ASSUME UNCHANGED handler PROVE handler' \in [Handlers -> HandlerRow]
  BY <1>0, <1>5
<1>6. ASSUME NEW d \in Relays, RelaySteps(d) PROVE UNCHANGED handler
  BY <1>6 DEF RelaySteps, RelayLeases, RelaySends, RelayRecords, RelayCrashes
<1>7. ASSUME NEW q \in Runs, NEW f \in Fences,
             \/ OperatorConfirms(q, f) \/ RemoteEnters(q, f)
             \/ \E report \in Published : RemoteReports(q, f, report)
             \/ ExecutionCreated(q, f) \/ CallLost(q, f) \/ RemoteEnds(q, f) \/ ObserverReads(q, f)
      PROVE  UNCHANGED handler
  BY <1>7 DEF OperatorConfirms, RemoteEnters, RemoteReports, cloudVars,
              ExecutionCreated, CallLost, RemoteEnds, ObserverReads
<1>8. ASSUME NEW q \in Runs, LaunchDenied(q) PROVE UNCHANGED handler
  BY <1>8 DEF LaunchDenied, cloudVars
<1>9. CASE OutboxOnly \/ UNCHANGED cloudVars \/ UNCHANGED vars
  BY <1>5, <1>9 DEF OutboxOnly, LaunchUnqualified, IntentLeaseEnds, ReconcileLaunching,
                    cloudVars, vars
<1>10. CASE ObserverLooks \/ ObserverNames \/ ObserverReleases \/ ObserverLeaves
  BY <1>5, <1>10 DEF ObserverLooks, ObserverNames, ObserverReleases, ObserverLeaves
<1>11. ASSUME NEW q \in Runs, NEW g \in Generations, QueueGivesUp(q, g) PROVE UNCHANGED handler
  BY <1>11 DEF QueueGivesUp
<1> QED BY <1>3, <1>4, <1>5, <1>6, <1>7, <1>8, <1>9, <1>10, <1>11, StepsOf DEF Outside, OutboxOf

(* What a step does to the runtime: a call adds an execution for the attempt *)
(* that makes it, and otherwise only what may be alive changes.             *)
RemoteKind(r, f) ==
  \/ remote'[r][f] = remote[r][f]
  \/ remote[r][f] \in LiveState
  \/ \E h \in Handlers : LaunchCalls(h) /\ handler[h].run = r /\ handler[h].fence = f

LEMMA RemoteMoves ==
  ASSUME CloudInv, [Next]_vars
  PROVE  /\ remote' \in [Runs -> [Fences -> RemoteState]]
         /\ \A r \in Runs, f \in Fences : RemoteKind(r, f)
<1> DEFINE Goal == /\ remote' \in [Runs -> [Fences -> RemoteState]]
                   /\ \A r \in Runs, f \in Fences : RemoteKind(r, f)
<1>0. remote \in [Runs -> [Fences -> RemoteState]]
  BY DEF CloudInv, TypeOK, RemoteState
<1>1. ASSUME UNCHANGED remote PROVE Goal
  BY <1>0, <1>1 DEF RemoteKind
<1>2. ASSUME NEW q \in Runs, NEW g \in Fences, NEW s \in RemoteState,
             remote' = [remote EXCEPT ![q][g] = s]
      PROVE  /\ remote' \in [Runs -> [Fences -> RemoteState]]
             /\ \A r \in Runs, f \in Fences :
                  remote'[r][f] = IF r = q /\ f = g THEN s ELSE remote[r][f]
  BY <1>0, <1>2
<1>3. ASSUME NEW q \in Runs, NEW g \in Fences, NEW s \in RemoteState,
             remote' = [remote EXCEPT ![q][g] = s], remote[q][g] \in LiveState
      PROVE  Goal
  <2>1. /\ remote' \in [Runs -> [Fences -> RemoteState]]
        /\ \A r \in Runs, f \in Fences :
             remote'[r][f] = IF r = q /\ f = g THEN s ELSE remote[r][f]
    BY ZenonT(40), <1>2, <1>3
  <2> QED BY <1>3, <2>1 DEF RemoteKind
<1>4. ASSUME NEW h \in Handlers, LaunchCalls(h) PROVE Goal
  <2>1. handler[h].run \in Runs /\ handler[h].fence \in Fences /\ "inflight" \in RemoteState
    BY <1>4 DEF LaunchCalls, CloudInv, KnowsAttempt, Busy, RemoteState
  <2>2. remote' = [remote EXCEPT ![handler[h].run][handler[h].fence] = "inflight"]
    BY <1>4 DEF LaunchCalls
  <2>3. /\ remote' \in [Runs -> [Fences -> RemoteState]]
        /\ \A r \in Runs, f \in Fences :
             remote'[r][f] = IF r = handler[h].run /\ f = handler[h].fence THEN "inflight"
                             ELSE remote[r][f]
    BY ZenonT(40), <1>2, <2>1, <2>2
  <2> QED BY <1>4, <2>3 DEF RemoteKind
<1>5. ASSUME NEW h \in Handlers, NEW answer \in {"accepted", "ambiguous", "rejected"},
             LaunchAnswered(h, answer)
      PROVE  Goal
  <2>1. handler[h].run \in Runs /\ handler[h].fence \in Fences /\ "none" \in RemoteState
    BY <1>5 DEF LaunchAnswered, CloudInv, KnowsAttempt, Busy, RemoteState
  <2>2. CASE answer = "rejected"
    <3>1. /\ remote' = [remote EXCEPT ![handler[h].run][handler[h].fence] = "none"]
          /\ remote[handler[h].run][handler[h].fence] \in LiveState
      BY <1>5, <2>2 DEF LaunchAnswered, LiveState
    <3> QED BY <1>3, <2>1, <3>1
  <2>3. CASE answer # "rejected"
    BY <1>1, <1>5, <2>3 DEF LaunchAnswered
  <2> QED BY <2>2, <2>3
<1>6. ASSUME NEW q \in Runs, NEW g \in Fences,
             ExecutionCreated(q, g) \/ CallLost(q, g) \/ RemoteEnters(q, g) \/ RemoteEnds(q, g)
      PROVE  Goal
  <2>1. PICK s \in RemoteState : remote' = [remote EXCEPT ![q][g] = s]
    BY <1>6 DEF ExecutionCreated, CallLost, RemoteEnters, RemoteEnds, RemoteState
  <2>2. remote[q][g] \in LiveState
    BY <1>6 DEF ExecutionCreated, CallLost, RemoteEnters, RemoteEnds, LiveState
  <2> QED BY <1>3, <2>1, <2>2
<1>7. ASSUME NEW d \in Relays, RelaySteps(d) PROVE UNCHANGED remote
  BY <1>7 DEF RelaySteps, RelayLeases, RelaySends, RelayRecords, RelayCrashes
<1>8. ASSUME NEW q \in Runs, NEW f \in Fences,
             \/ OperatorConfirms(q, f) \/ ObserverReads(q, f)
             \/ \E report \in Published : RemoteReports(q, f, report)
      PROVE  UNCHANGED remote
  BY <1>8 DEF OperatorConfirms, RemoteReports, cloudVars, ObserverReads
<1>9. ASSUME NEW q \in Runs, LaunchDenied(q) PROVE UNCHANGED remote
  BY <1>9 DEF LaunchDenied, cloudVars
<1>10. ASSUME NEW h \in Handlers,
             \/ OutboxOf(h) \/ ReleaseRejected(h) \/ HandlerCrashes(h)
             \/ \E r \in Runs, g \in Generations : LaunchClaims(h, r, g)
       PROVE UNCHANGED remote
  BY <1>10 DEF OutboxOf, MarkRejected, RecordReceipt, RecordFailure, ReleaseRejected,
               HandlerCrashes, LaunchClaims
<1>11. ASSUME OutboxOnly \/ UNCHANGED cloudVars \/ UNCHANGED vars PROVE UNCHANGED remote
  BY <1>11 DEF OutboxOnly, LaunchUnqualified, IntentLeaseEnds, ReconcileLaunching,
                 cloudVars, vars
<1>12. ASSUME ObserverLooks \/ ObserverNames \/ ObserverReleases \/ ObserverLeaves
       PROVE  UNCHANGED remote
  BY <1>12 DEF ObserverLooks, ObserverNames, ObserverReleases, ObserverLeaves
<1>13. ASSUME NEW q \in Runs, NEW g \in Generations, QueueGivesUp(q, g) PROVE UNCHANGED remote
  BY <1>13 DEF QueueGivesUp
<1> HIDE DEF Goal
<1>14. Goal
  BY <1>1, <1>4, <1>5, <1>6, <1>7, <1>8, <1>9, <1>10, <1>11, <1>12, <1>13, StepsOf DEF Outside
<1> QED BY <1>14 DEF Goal

(* No slot is forgotten. *)
LEMMA SlotsStay ==
  ASSUME CloudInv, [Next]_vars, NEW r \in Runs, NEW f \in Fences, slot[r][f].state # "none"
  PROVE  slot'[r][f].state # "none"
<1>1. RowKind(r)
  BY AllRows
<1> QED BY <1>1 DEF RowKind, Keeps, Marks, Intends, Enqueues, Claims, Receives, LetsGo, Steady, Open

(* A released slot is not opened again. *)
LEMMA ReleasedStays ==
  ASSUME CloudInv, [Next]_vars, NEW r \in Runs, NEW f \in Fences,
         slot[r][f].state # "none", slot'[r][f].state = "open"
  PROVE  Open(r, f)
<1>1. RowKind(r)
  BY AllRows
<1> QED BY <1>1 DEF RowKind, Keeps, Marks, Intends, Enqueues, Claims, Receives, LetsGo, Steady, Open

(* Whatever the runtime may have holds its slot. *)
LEMMA RemoteKept ==
  ASSUME CloudInv, [Next]_vars, NEW r \in Runs, NEW f \in Fences
  PROVE  /\ remote'[r][f] \in LiveState => slot'[r][f].state = "open"
         /\ remote'[r][f] # "none" => slot'[r][f].state # "none"
<1>1. RemoteKind(r, f)
  BY RemoteMoves
<1>2. /\ remote[r][f] \in LiveState => Open(r, f)
      /\ remote[r][f] # "none" => slot[r][f].state # "none"
  BY DEF CloudInv
<1>3. CASE \E h \in Handlers : LaunchCalls(h) /\ handler[h].run = r /\ handler[h].fence = f
  <2>1. PICK h \in Handlers : LaunchCalls(h) /\ handler[h].run = r /\ handler[h].fence = f
    BY <1>3
  <2>2. Open(r, f) /\ slot' = slot
    BY <2>1 DEF LaunchCalls, CloudInv, KnowsRemote, jobVars
  <2> QED BY <2>2 DEF Open
<1>4. CASE remote[r][f] \in LiveState
  <2>1. Open(r, f) /\ remote[r][f] \notin {"none", "stopped"}
    BY <1>2, <1>4 DEF LiveState
  <2>2. slot'[r][f].state = "open"
    BY <2>1, ReleasedSlot
  <2> QED BY <2>2
<1>5. CASE remote'[r][f] = remote[r][f]
  <2>1. remote'[r][f] # "none" => slot'[r][f].state # "none"
    BY <1>2, <1>5, SlotsStay
  <2>2. CASE remote[r][f] \notin LiveState
    BY <1>5, <2>1, <2>2
  <2> QED BY <1>4, <2>2
<1> QED BY <1>1, <1>3, <1>4, <1>5 DEF RemoteKind

(* What a handler may rely on of the runtime stays true. *)
LEMMA KnowsRemoteKept ==
  ASSUME CloudInv, [Next]_vars, NEW h \in Handlers
  PROVE  KnowsRemote(h)'
<1>1. CASE handler'[h] = HandlerIdle \/ Carries(h)
  BY <1>1 DEF KnowsRemote, Carries, HandlerIdle
<1>2. ASSUME NEW r \in Runs, NEW g \in Generations, LaunchClaims(h, r, g)
      PROVE  KnowsRemote(h)'
  <2> DEFINE f == run[r].fence + 1
  <2>1. /\ f \in Fences /\ Claims(r) /\ remote' = remote
        /\ handler'[h] = [pc |-> "claimed", run |-> r, generation |-> g, fence |-> f]
    BY <1>2, FreshAttempt
  <2>2. slot[r][f].state = "none" /\ slot'[r][f].state = "open"
    BY <2>1 DEF Claims
  <2>3. remote[r][f] = "none"
    BY <2>1, <2>2 DEF CloudInv
  <2> HIDE DEF f
  <2> QED BY <2>1, <2>2, <2>3 DEF KnowsRemote, Open
<1>3. CASE handler'[h] = handler[h] /\ handler[h].pc \in {"claimed", "rejected", "release"}
  <2> DEFINE r == handler[h].run
             f == handler[h].fence
  <2>1. r \in Runs /\ f \in Fences
    BY <1>3 DEF CloudInv, KnowsAttempt, Busy
  <2>2. remote[r][f] = "none"
    BY <1>3 DEF CloudInv, KnowsRemote
  <2>3. ASSUME NEW k \in Handlers, LaunchCalls(k), handler[k].run = r, handler[k].fence = f
        PROVE  FALSE
    <3>1. k = h
      BY <1>3, <2>3 DEF CloudInv, HandlersDistinct, Busy, LaunchCalls
    <3>2. handler'[h].pc = "calling"
      BY <2>3, <3>1 DEF LaunchCalls, CloudInv, TypeOK
    <3> QED BY <1>3, <3>2
  <2>4. remote'[r][f] = "none"
    BY <2>1, <2>2, <2>3, RemoteMoves DEF RemoteKind, LiveState
  <2>5. handler[h].pc = "claimed" => Open(r, f)
    BY DEF CloudInv, KnowsRemote
  <2>6. handler[h].pc = "claimed" => slot'[r][f].state = "open"
    BY <2>1, <2>5, ReleasedSlot
  <2> QED BY <1>3, <2>4, <2>6 DEF KnowsRemote, Open
<1>4. CASE handler'[h] = handler[h] /\ handler[h].pc \notin {"claimed", "rejected", "release"}
  BY <1>4 DEF KnowsRemote
<1> QED BY <1>1, <1>2, <1>3, <1>4, HandlerMoves DEF HandlerKind

(* A slot names no execution but its own. *)
LEMMA ExecutionKept ==
  ASSUME CloudInv, [Next]_vars
  PROVE  /\ execution' \in [Runs -> [Fences -> 0..MaxFence]]
         /\ \A r \in Runs, f \in Fences : execution'[r][f] \in {0, f}
<1>0. /\ execution \in [Runs -> [Fences -> 0..MaxFence]]
      /\ \A r \in Runs, f \in Fences : execution[r][f] \in {0, f}
  BY DEF CloudInv, TypeOK
<1>1. CASE ObserverNames
  <2> DEFINE q == observer.run
             g == observer.fence
  <2>1. q \in Runs /\ g \in Fences /\ observer.name \in Fences
        /\ (Open(q, g) => observer.name \in {0, g})
    BY <1>1 DEF ObserverNames, CloudInv, ObserverKnows
  <2>2. observer.name # 0
    BY <2>1 DEF Fences
  <2>3. execution' = execution \/ execution' = [execution EXCEPT ![q][g] = g]
    BY <1>1, <2>1, <2>2 DEF ObserverNames
  <2>4. g \in 0..MaxFence
    BY <2>1, LimitAssumption DEF Fences
  <2> HIDE DEF q, g
  <2> QED BY <1>0, <2>1, <2>3, <2>4
<1>2. CASE UNCHANGED execution
  BY <1>0, <1>2
<1>3. ASSUME NEW d \in Relays, RelaySteps(d) PROVE UNCHANGED execution
  BY <1>3 DEF RelaySteps, RelayLeases, RelaySends, RelayRecords, RelayCrashes
<1>4. ASSUME NEW h \in Handlers, HandlerSteps(h) PROVE UNCHANGED execution
  BY <1>4 DEF HandlerSteps, LaunchClaims, LaunchCalls, LaunchAnswered, RecordReceipt,
              RecordFailure, ReleaseRejected, MarkRejected, HandlerCrashes
<1>5. ASSUME NEW r \in Runs, NEW f \in Fences, RemoteSteps(r, f) \/ OperatorConfirms(r, f)
      PROVE  UNCHANGED execution
  BY <1>5 DEF RemoteSteps, ExecutionCreated, CallLost, RemoteEnters, RemoteEnds, RemoteReports,
              OperatorConfirms, cloudVars
<1>6. ASSUME NEW r \in Runs, LaunchDenied(r) \/ LaunchUnqualified(r) \/ IntentLeaseEnds(r)
      PROVE  UNCHANGED execution
  BY <1>6 DEF LaunchDenied, LaunchUnqualified, IntentLeaseEnds, cloudVars
<1>7. CASE ObserverSteps
  BY <1>1, <1>2, <1>7 DEF ObserverSteps, ObserverReads, ObserverLooks, ObserverReleases,
                          ObserverLeaves
<1>8. CASE ReconcileLaunching \/ UNCHANGED cloudVars \/ UNCHANGED vars
  BY <1>2, <1>8 DEF ReconcileLaunching, cloudVars, vars
<1>9. ASSUME NEW r \in Runs, NEW g \in Generations, QueueGivesUp(r, g) PROVE UNCHANGED execution
  BY <1>9 DEF QueueGivesUp
<1> QED BY <1>2, <1>3, <1>4, <1>5, <1>6, <1>7, <1>8, <1>9 DEF Next

RelayAt == [pc : {"idle", "sending", "sent", "retry", "failed"},
             run : Runs \cup {NoRun}, generation : 0..MaxGeneration]
ObserverRow == [pc : {"idle", "reading", "looking", "named"}, run : Runs \cup {NoRun},
                fence : 0..MaxFence, name : 0..MaxFence]

(* Who moves the relays and the queue: only a relay. *)
LEMMA OnlyRelays ==
  ASSUME [Next]_vars
  PROVE  (\E d \in Relays : RelaySteps(d)) \/ UNCHANGED <<relay, task>>
<1>1. ASSUME NEW h \in Handlers, HandlerSteps(h) PROVE UNCHANGED <<relay, task>>
  BY <1>1 DEF HandlerSteps, LaunchClaims, LaunchCalls, LaunchAnswered, RecordReceipt,
              RecordFailure, ReleaseRejected, MarkRejected, HandlerCrashes
<1>2. ASSUME NEW r \in Runs, NEW f \in Fences, RemoteSteps(r, f) \/ OperatorConfirms(r, f)
      PROVE  UNCHANGED <<relay, task>>
  BY <1>2 DEF RemoteSteps, ExecutionCreated, CallLost, RemoteEnters, RemoteEnds, RemoteReports,
              OperatorConfirms, cloudVars
<1>3. ASSUME NEW r \in Runs, LaunchDenied(r) \/ LaunchUnqualified(r) \/ IntentLeaseEnds(r)
      PROVE  UNCHANGED <<relay, task>>
  BY <1>3 DEF LaunchDenied, LaunchUnqualified, IntentLeaseEnds, cloudVars
<1>4. CASE ObserverSteps
  BY <1>4 DEF ObserverSteps, ObserverReads, ObserverLooks, ObserverNames, ObserverReleases,
              ObserverLeaves
<1>5. CASE ReconcileLaunching \/ UNCHANGED cloudVars \/ UNCHANGED vars
  BY <1>5 DEF ReconcileLaunching, cloudVars, vars
<1>6. ASSUME NEW r \in Runs, NEW g \in Generations, QueueGivesUp(r, g)
      PROVE  UNCHANGED <<relay, task>>
  BY <1>6 DEF QueueGivesUp
<1> QED BY <1>1, <1>2, <1>3, <1>4, <1>5, <1>6 DEF Next

(* A relay that was told "sent" has its task in the queue. *)
LEMMA RelayKept ==
  ASSUME CloudInv, [Next]_vars
  PROVE  /\ task' \subseteq Runs \X Generations
         /\ relay' \in [Relays -> RelayAt]
         /\ \A d \in Relays : RelayKnows(d)'
<1> DEFINE Tasks == task' \subseteq Runs \X Generations
           Rows == relay' \in [Relays -> RelayAt]
           Sound(d) == relay'[d].pc # "idle" =>
             /\ relay'[d].run \in Runs /\ relay'[d].generation \in Generations
             /\ relay'[d].pc = "sent" => <<relay'[d].run, relay'[d].generation>> \in task'
           Goal == Tasks /\ Rows /\ \A d \in Relays : Sound(d)
<1>0. /\ task \subseteq Runs \X Generations /\ relay \in [Relays -> RelayAt]
      /\ \A d \in Relays : RelayKnows(d)
      /\ JobTypeOK /\ \A r \in Runs : RowInv(r)
  BY DEF CloudInv, TypeOK, RelayAt
<1>1. task \subseteq task'
  BY TasksStay
<1>2. \A d \in Relays : relay'[d] = relay[d] => Sound(d)
  BY <1>0, <1>1 DEF RelayKnows
<1>3. RelayIdle \in RelayAt
  BY LimitAssumption DEF RelayIdle, RelayAt, MaxGeneration
<1>4. CASE UNCHANGED <<relay, task>>
  <2>1. Goal
    BY <1>0, <1>2, <1>4
  <2> QED BY <2>1 DEF RelayKnows
<1>5. ASSUME NEW d \in Relays, NEW row \in RelayAt, relay' = [relay EXCEPT ![d] = row],
             Tasks,
             row.pc # "idle" => /\ row.run \in Runs /\ row.generation \in Generations
                                /\ row.pc = "sent" => <<row.run, row.generation>> \in task'
      PROVE  Goal
  <2>1. relay'[d] = row /\ Rows
    BY <1>0, <1>5
  <2>2. \A e \in Relays : e # d => relay'[e] = relay[e]
    BY <1>0, <1>5
  <2> QED BY <1>2, <1>5, <2>1, <2>2
<1>6. ASSUME NEW d \in Relays, RelayRecords(d) \/ RelayCrashes(d) PROVE Goal
  <2>1. Tasks /\ relay' = [relay EXCEPT ![d] = RelayIdle]
    BY <1>0, <1>6 DEF RelayRecords, RelayCrashes
  <2>2. RelayIdle.pc = "idle"
    BY DEF RelayIdle
  <2> HIDE DEF Tasks, Goal
  <2> QED BY <1>3, <1>5, <2>1, <2>2
<1>7. ASSUME NEW d \in Relays, NEW r \in Runs, RelayLeases(d, r) PROVE Goal
  <2> DEFINE row == [pc |-> "sending", run |-> r, generation |-> dispatch[r].generation]
  <2>1. Tasks /\ relay' = [relay EXCEPT ![d] = row]
    BY <1>0, <1>7 DEF RelayLeases
  <2>2. dispatch[r].generation \in Generations
    BY <1>0, <1>7 DEF RelayLeases, RowInv, Known, Undelivered
  <2>3. dispatch[r].generation \in 0..MaxGeneration
    BY <2>2, LimitAssumption DEF Generations, MaxGeneration
  <2>4. row \in RelayAt /\ row.run = r /\ row.generation = dispatch[r].generation
        /\ row.pc # "sent"
    BY <2>3 DEF RelayAt
  <2> HIDE DEF row, Tasks, Goal
  <2> QED BY <1>5, <2>1, <2>2, <2>4
<1>8. ASSUME NEW d \in Relays, NEW answer \in {"sent", "retry", "failed"}, RelaySends(d, answer)
      PROVE  Goal
  <2> DEFINE row == [relay[d] EXCEPT !.pc = answer]
             t == <<relay[d].run, relay[d].generation>>
  <2>1. relay' = [relay EXCEPT ![d] = row]
    BY <1>8 DEF RelaySends
  <2>2. relay[d].run \in Runs /\ relay[d].generation \in Generations
    BY <1>0, <1>8 DEF RelaySends, RelayKnows
  <2>3. (task' = task \cup {t} \/ task' = task) /\ (answer = "sent" => task' = task \cup {t})
    BY <1>8 DEF RelaySends
  <2>4. Tasks
    BY <1>0, <2>2, <2>3
  <2>5. row \in RelayAt /\ row.run = relay[d].run /\ row.generation = relay[d].generation
        /\ row.pc = answer
    BY <1>0 DEF RelayAt
  <2>6. answer = "sent" => <<row.run, row.generation>> \in task'
    BY <2>3, <2>5
  <2> HIDE DEF row, t, Tasks, Goal
  <2> QED BY <1>5, <2>1, <2>2, <2>4, <2>5, <2>6
<1>9. CASE \E d \in Relays : RelaySteps(d)
  <2> HIDE DEF Goal
  <2>1. Goal
    BY <1>6, <1>7, <1>8, <1>9 DEF RelaySteps
  <2> QED BY <2>1 DEF Goal, RelayKnows
<1> QED BY <1>4, <1>9, OnlyRelays

(* Who moves the observer: only the observer. *)
LEMMA OnlyObserver ==
  ASSUME [Next]_vars
  PROVE  ObserverSteps \/ UNCHANGED observer
<1>1. ASSUME NEW h \in Handlers, HandlerSteps(h) PROVE UNCHANGED observer
  BY <1>1 DEF HandlerSteps, LaunchClaims, LaunchCalls, LaunchAnswered, RecordReceipt,
              RecordFailure, ReleaseRejected, MarkRejected, HandlerCrashes
<1>2. ASSUME NEW r \in Runs, NEW f \in Fences, RemoteSteps(r, f) \/ OperatorConfirms(r, f)
      PROVE  UNCHANGED observer
  BY <1>2 DEF RemoteSteps, ExecutionCreated, CallLost, RemoteEnters, RemoteEnds, RemoteReports,
              OperatorConfirms, cloudVars
<1>3. ASSUME NEW r \in Runs, LaunchDenied(r) \/ LaunchUnqualified(r) \/ IntentLeaseEnds(r)
      PROVE  UNCHANGED observer
  BY <1>3 DEF LaunchDenied, LaunchUnqualified, IntentLeaseEnds, cloudVars
<1>4. ASSUME NEW d \in Relays, RelaySteps(d) PROVE UNCHANGED observer
  BY <1>4 DEF RelaySteps, RelayLeases, RelaySends, RelayRecords, RelayCrashes
<1>5. CASE ReconcileLaunching \/ UNCHANGED cloudVars \/ UNCHANGED vars
  BY <1>5 DEF ReconcileLaunching, cloudVars, vars
<1>6. ASSUME NEW r \in Runs, NEW g \in Generations, QueueGivesUp(r, g) PROVE UNCHANGED observer
  BY <1>6 DEF QueueGivesUp
<1> QED BY <1>1, <1>2, <1>3, <1>4, <1>5, <1>6 DEF Next

(* The name the observer carries is that of its slot's own execution. *)
LEMMA ObserverKept ==
  ASSUME CloudInv, [Next]_vars
  PROVE  observer' \in ObserverRow /\ ObserverKnows'
<1>0. /\ observer \in ObserverRow /\ ObserverKnows /\ JobTypeOK /\ SlotDiscipline
      /\ \A r \in Runs : RowInv(r)
      /\ execution \in [Runs -> [Fences -> 0..MaxFence]]
      /\ \A r \in Runs, f \in Fences : execution[r][f] \in {0, f}
  BY DEF CloudInv, TypeOK, ObserverRow
<1>1. CASE observer' = ObserverIdle
  <2>1. ObserverIdle \in ObserverRow
    BY LimitAssumption DEF ObserverIdle, ObserverRow
  <2> QED BY <1>1, <2>1 DEF ObserverKnows, ObserverIdle
<1>2. CASE UNCHANGED observer
  <2>1. ASSUME observer.pc # "idle"
        PROVE  /\ slot'[observer.run][observer.fence].state # "none"
               /\ slot'[observer.run][observer.fence].state = "open" =>
                    Open(observer.run, observer.fence)
    BY <1>0, <2>1, SlotsStay, ReleasedStays DEF ObserverKnows
  <2> QED BY <1>0, <1>2, <2>1 DEF ObserverKnows, Open
<1>3. ASSUME NEW r \in Runs, NEW f \in Fences, ObserverReads(r, f)
      PROVE  observer' \in ObserverRow /\ ObserverKnows'
  <2>1. /\ Open(r, f) /\ slot' = slot
        /\ observer' = [pc |-> "reading", run |-> r, fence |-> f, name |-> execution[r][f]]
    BY <1>3 DEF ObserverReads, jobVars
  <2>2. f \in 0..MaxFence /\ execution[r][f] \in 0..MaxFence /\ execution[r][f] \in {0, f}
    BY <1>0, LimitAssumption DEF Fences
  <2>3. observer' \in ObserverRow
    BY <2>1, <2>2 DEF ObserverRow
  <2> QED BY <2>1, <2>2, <2>3 DEF ObserverKnows, Open
<1>4. ASSUME NEW pc \in {"looking", "named"}, NEW name \in Fences,
             observer.pc # "idle", slot' = slot,
             observer' = [pc |-> pc, run |-> observer.run, fence |-> observer.fence,
                          name |-> name],
             Open(observer.run, observer.fence) => name = observer.fence
      PROVE  observer' \in ObserverRow /\ ObserverKnows'
  <2>1. name \in 0..MaxFence
    BY LimitAssumption DEF Fences
  <2>2. observer' \in ObserverRow
    BY <1>0, <1>4, <2>1 DEF ObserverRow
  <2>3. /\ observer'.run = observer.run /\ observer'.fence = observer.fence
        /\ observer'.name = name
    BY <1>0, <1>4 DEF ObserverRow
  <2> QED BY <1>0, <1>4, <2>2, <2>3 DEF ObserverKnows, Open
<1>5. CASE ObserverLooks
  <2> DEFINE name == IF observer.name # 0 THEN observer.name ELSE dispatch[observer.run].operation
  <2>1. /\ observer.pc = "reading" /\ name # 0 /\ slot' = slot
        /\ observer' = [observer EXCEPT !.pc = "looking", !.name = name]
    BY <1>5 DEF ObserverLooks, jobVars
  <2>2. observer.run \in Runs /\ observer.fence \in Fences
        /\ (Open(observer.run, observer.fence) => observer.name \in {0, observer.fence})
    BY <1>0, <2>1 DEF ObserverKnows
  <2>3. observer.name \in 0..MaxFence /\ dispatch[observer.run].operation \in 0..MaxFence
    BY <1>0, <2>2 DEF ObserverRow, JobTypeOK, DispatchRow
  <2>4. name \in Fences
    BY <2>1, <2>3, LimitAssumption DEF Fences
  <2>5. Open(observer.run, observer.fence) =>
          dispatch[observer.run].operation \in {0, observer.fence}
    BY <1>0, <2>2 DEF RowInv
  <2>6. Open(observer.run, observer.fence) => name = observer.fence
    BY <2>1, <2>2, <2>5
  <2>7. observer' = [pc |-> "looking", run |-> observer.run, fence |-> observer.fence,
                     name |-> name]
    BY <1>0, <2>1 DEF ObserverRow
  <2> HIDE DEF name
  <2> QED BY <1>4, <2>1, <2>4, <2>6, <2>7
<1>6. CASE ObserverNames
  <2>1. /\ observer.pc = "looking" /\ slot' = slot
        /\ observer' = [observer EXCEPT !.pc = "named"]
    BY <1>6 DEF ObserverNames, jobVars
  <2>2. /\ observer.name \in Fences
        /\ Open(observer.run, observer.fence) => observer.name \in {0, observer.fence}
    BY <1>0, <2>1 DEF ObserverKnows
  <2>3. observer.name # 0
    BY <2>2 DEF Fences
  <2>4. observer' = [pc |-> "named", run |-> observer.run, fence |-> observer.fence,
                     name |-> observer.name]
    BY <1>0, <2>1 DEF ObserverRow
  <2> QED BY <1>4, <2>1, <2>2, <2>3, <2>4
<1>7. CASE ObserverReleases \/ ObserverLeaves
  BY <1>1, <1>7 DEF ObserverReleases, ObserverLeaves
<1> QED BY <1>2, <1>3, <1>5, <1>6, <1>7, OnlyObserver DEF ObserverSteps

(* The queue gives up only what it has taken. *)
LEMMA SpentKept ==
  ASSUME CloudInv, [Next]_vars
  PROVE  spent' \subseteq task'
<1>0. spent \subseteq task
  BY DEF CloudInv, TypeOK
<1>1. ASSUME NEW h \in Handlers, HandlerSteps(h) PROVE UNCHANGED spent
  BY <1>1 DEF HandlerSteps, LaunchClaims, LaunchCalls, LaunchAnswered, RecordReceipt,
              RecordFailure, ReleaseRejected, MarkRejected, HandlerCrashes
<1>2. ASSUME NEW r \in Runs, NEW f \in Fences, RemoteSteps(r, f) \/ OperatorConfirms(r, f)
      PROVE  UNCHANGED spent
  BY <1>2 DEF RemoteSteps, ExecutionCreated, CallLost, RemoteEnters, RemoteEnds, RemoteReports,
              OperatorConfirms, cloudVars
<1>3. ASSUME NEW r \in Runs, LaunchDenied(r) \/ LaunchUnqualified(r) \/ IntentLeaseEnds(r)
      PROVE  UNCHANGED spent
  BY <1>3 DEF LaunchDenied, LaunchUnqualified, IntentLeaseEnds, cloudVars
<1>4. ASSUME ObserverSteps PROVE UNCHANGED spent
  BY <1>4 DEF ObserverSteps, ObserverReads, ObserverLooks, ObserverNames, ObserverReleases,
              ObserverLeaves
<1>5. ASSUME ReconcileLaunching \/ UNCHANGED cloudVars \/ UNCHANGED vars PROVE UNCHANGED spent
  BY <1>5 DEF ReconcileLaunching, cloudVars, vars
<1>6. ASSUME NEW d \in Relays, RelaySteps(d) PROVE spent' \subseteq task'
  <2>1. spent' = spent
    BY <1>6 DEF RelaySteps, RelayLeases, RelaySends, RelayRecords, RelayCrashes
  <2>2. task \subseteq task'
    BY <1>6 DEF RelaySteps, RelayLeases, RelaySends, RelayRecords, RelayCrashes
  <2> QED BY <1>0, <2>1, <2>2
<1>7. ASSUME NEW r \in Runs, NEW g \in Generations, QueueGivesUp(r, g)
      PROVE  spent' \subseteq task'
  BY <1>0, <1>7 DEF QueueGivesUp, Launchable
<1>8. (\E d \in Relays : RelaySteps(d)) \/ UNCHANGED task
  BY OnlyRelays
<1>9. CASE UNCHANGED spent
  <2>1. CASE UNCHANGED task
    BY <1>0, <1>9, <2>1
  <2> QED BY <1>6, <1>8, <2>1
<1> QED BY <1>1, <1>2, <1>3, <1>4, <1>5, <1>6, <1>7, <1>9 DEF Next
-----------------------------------------------------------------------------
(* The theorems. *)

LEMMA CloudInit == Init => CloudInv
<1> SUFFICES ASSUME Init PROVE CloudInv
  OBVIOUS
<1>1. /\ JobTypeOK /\ SlotDiscipline
      /\ \A r \in Runs : /\ run[r].status \in {"ABSENT", "QUEUED"} /\ run[r].attempts = 0
                         /\ dispatch[r] = AbsentDispatch
      /\ \A r \in Runs, f \in Fences : slot[r][f].state = "none"
  BY JobsAtFirst DEF Init
<1>2. /\ task = {} /\ spent = {} /\ relay = [d \in Relays |-> RelayIdle]
      /\ handler = [h \in Handlers |-> HandlerIdle]
      /\ remote = [r \in Runs |-> [f \in Fences |-> "none"]]
      /\ execution = [r \in Runs |-> [f \in Fences |-> 0]]
      /\ observer = ObserverIdle
  BY DEF Init
<1>3. MaxGeneration \in Nat /\ MaxFence \in Nat
  BY LimitAssumption DEF MaxGeneration
<1>4. TypeOK
  <2>1. RelayIdle \in RelayAt /\ HandlerIdle \in HandlerRow /\ ObserverIdle \in ObserverRow
    BY <1>3 DEF RelayIdle, RelayAt, HandlerIdle, HandlerRow, ObserverIdle, ObserverRow
  <2>2. relay \in [Relays -> RelayAt] /\ handler \in [Handlers -> HandlerRow]
        /\ observer \in ObserverRow
    BY <1>2, <2>1
  <2>3. /\ remote \in [Runs -> [Fences -> {"none", "inflight", "created", "entered", "stopped"}]]
        /\ execution \in [Runs -> [Fences -> 0..MaxFence]]
    BY <1>2, <1>3
  <2>4. \A r \in Runs : dispatch[r].generation <= MaxGeneration
    BY <1>1, <1>3 DEF AbsentDispatch
  <2> QED BY <1>1, <1>2, <2>2, <2>3, <2>4 DEF TypeOK, RelayAt, HandlerRow, ObserverRow
<1>5. \A r \in Runs : RowInv(r)
  BY <1>1 DEF RowInv, AbsentDispatch, Known, Dispatchable, Open
<1>6. \A h \in Handlers : handler[h].pc = "idle"
  BY <1>2 DEF HandlerIdle
<1>7. (\A h \in Handlers : KnowsAttempt(h) /\ KnowsRemote(h)) /\ HandlersDistinct
  BY <1>6 DEF KnowsAttempt, KnowsRemote, HandlersDistinct, Busy
<1>8. (\A d \in Relays : RelayKnows(d)) /\ ObserverKnows
  BY <1>2 DEF RelayKnows, RelayIdle, ObserverKnows, ObserverIdle
<1> QED BY <1>1, <1>2, <1>4, <1>5, <1>7, <1>8 DEF CloudInv, LiveState

LEMMA CloudStep == CloudInv /\ [Next]_vars => CloudInv'
<1> SUFFICES ASSUME CloudInv, [Next]_vars PROVE CloudInv'
  OBVIOUS
<1>1. JobTypeOK' /\ SlotDiscipline'
  BY TypesAndSlots
<1>2. \A r \in Runs : RowInv(r)'
  BY RowKept
<1>3. \A r \in Runs : dispatch'[r].generation <= MaxGeneration
  <2> SUFFICES ASSUME NEW r \in Runs PROVE dispatch'[r].generation <= MaxGeneration
    OBVIOUS
  <2>1. dispatch'[r].generation <= run'[r].attempts + 1
    BY <1>2 DEF RowInv
  <2>2. /\ run'[r].attempts \in Nat /\ run'[r].attempts <= MaxAttempts
        /\ MaxAttempts \in Nat /\ dispatch'[r].generation \in Nat
    BY <1>1, LimitAssumption DEF JobTypeOK, RunRow, DispatchRow
  <2> QED BY <2>1, <2>2 DEF MaxGeneration
<1>4. TypeOK'
  BY <1>1, <1>3, RelayKept, SpentKept, HandlerTyped, RemoteMoves, ExecutionKept,
     ObserverKept
     DEF TypeOK, RelayAt, HandlerRow, RemoteState, ObserverRow
<1>5. \A r \in Runs, f \in Fences : execution'[r][f] \in {0, f}
  BY ExecutionKept
<1>6. \A r \in Runs, f \in Fences :
        /\ remote'[r][f] \in LiveState => slot'[r][f].state = "open"
        /\ remote'[r][f] # "none" => slot'[r][f].state # "none"
  BY RemoteKept
<1>7. \A h \in Handlers : KnowsAttempt(h)' /\ KnowsRemote(h)'
  BY AttemptKept, KnowsRemoteKept
<1>8. (\A d \in Relays : RelayKnows(d)') /\ ObserverKnows' /\ HandlersDistinct'
  BY RelayKept, ObserverKept, DistinctKept
<1> QED BY <1>1, <1>2, <1>4, <1>5, <1>6, <1>7, <1>8 DEF CloudInv, LiveState, Open

(* The inductive invariant holds in every reachable state: whatever relays, *)
(* handlers, executions, the reconciler and the operator do, and wherever   *)
(* one of them dies.                                                        *)
THEOREM CloudInvHolds == Spec => []CloudInv
BY CloudInit, CloudStep, PTL DEF Spec

(* What the runtime may execute is covered by slots, so never more than     *)
(* GLOBAL_ACTIVE_RUNS of it, and the reconciler looks at no other attempt's *)
(* execution.                                                               *)
THEOREM RemoteSoundHolds == Spec => []RemoteSound
<1>1. CloudInv => RemoteSound
  <2> SUFFICES ASSUME CloudInv PROVE RemoteSound
    OBVIOUS
  <2>1. \A e \in Live : Open(e[1], e[2])
    BY DEF Live, CloudInv, LiveState
  <2>2. Live \subseteq OpenSlots
    BY <2>1 DEF Live, OpenSlots
  <2>3. Cardinality(Live) \in Nat /\ Cardinality(Live) <= Cardinality(OpenSlots)
    BY <2>2, OpenSlotsFinite, FS_Subset, FS_CardinalityType
  <2>4. Cardinality(OpenSlots) <= ActiveLimit
    BY DEF CloudInv, SlotDiscipline
  <2>5. RemoteCap
    BY <2>3, <2>4, OpenSlotsFinite, LimitAssumption DEF RemoteCap
  <2>6. ReceiptNamesOwnExecution
    BY DEF CloudInv, RowInv, ReceiptNamesOwnExecution
  <2> QED BY <2>1, <2>5, <2>6 DEF RemoteSound, LiveHoldsSlot
<1> QED BY <1>1, CloudInvHolds, PTL

(* No queued run is forgotten by the outbox, and no row claims a task that  *)
(* the queue never took.                                                    *)
THEOREM OutboxSoundHolds == Spec => []OutboxSound
<1>1. CloudInv => OutboxSound
  BY DEF CloudInv, RowInv, OutboxSound, QueuedIsDispatchable, EnqueuedHasTask, Dispatchable
<1> QED BY <1>1, CloudInvHolds, PTL

(* A worker that has started keeps its row: no answer to enqueue or launch  *)
(* that comes late takes it back.                                           *)
THEOREM ReceiptLeavesStartedHolds == Spec => ReceiptLeavesStarted
<1> DEFINE Left(r) == dispatch[r].status = "STARTED" /\ dispatch[r].generation = dispatch'[r].generation =>
                        dispatch'[r].status \notin Undelivered \cup {"ENQUEUED", "SUBMITTED", "UNCERTAIN"}
<1>1. CloudInv /\ [Next]_vars => [\A r \in Runs : Left(r)]_vars
  <2> SUFFICES ASSUME CloudInv, [Next]_vars, NEW r \in Runs, dispatch[r].status = "STARTED",
                      dispatch[r].generation = dispatch'[r].generation
               PROVE  dispatch'[r].status \notin Undelivered \cup {"ENQUEUED", "SUBMITTED", "UNCERTAIN"}
    OBVIOUS
  <2>1. RowKind(r) /\ Known(r)
    BY AllRows DEF Known
  <2>2. dispatch[r] \in DispatchRow /\ dispatch[r].generation \in Nat /\ RowInv(r)
    BY DEF CloudInv, TypeOK, JobTypeOK, DispatchRow
  <2>3. CASE Keeps(r) \/ Marks(r) \/ Claims(r) \/ Receives(r)
    BY <2>3 DEF Keeps, Marks, Claims, Receives, Undelivered
  <2>4. CASE Intends(r) \/ Enqueues(r)
    BY <2>1, <2>2, <2>4 DEF Intends, Enqueues, RowInv
  <2>5. ASSUME NEW f \in Fences, LetsGo(r, f)
        PROVE  dispatch'[r].status \notin Undelivered \cup {"ENQUEUED", "SUBMITTED", "UNCERTAIN"}
    <3>1. CASE dispatch'[r] = Reissued(dispatch[r])
      <4>1. dispatch'[r].generation = dispatch[r].generation + 1
        BY <2>1, <2>2, <3>1 DEF Reissued, WithIntent, NewDispatch, AbsentDispatch, DispatchRow, Known
      <4> QED BY <2>2, <4>1
    <3>2. CASE dispatch'[r] = Mark(dispatch[r], "DONE")
      <4>1. dispatch'[r].status = "DONE"
        BY <2>1, <2>2, <3>2 DEF Mark, DispatchRow, Known
      <4> QED BY <4>1 DEF Undelivered
    <3> QED BY <2>5, <3>1, <3>2 DEF LetsGo
  <2> QED BY <2>1, <2>3, <2>4, <2>5 DEF RowKind
<1>2. CloudInv /\ [Next]_vars =>
        [\A r \in Runs :
           dispatch[r].status = "STARTED" /\ SameIntent(r, dispatch'[r].generation) =>
             dispatch'[r].status \notin Undelivered \cup {"ENQUEUED", "SUBMITTED", "UNCERTAIN"}]_vars
  BY <1>1 DEF SameIntent
<1> QED BY <1>2, CloudInvHolds, PTL DEF Spec, ReceiptLeavesStarted
=============================================================================
