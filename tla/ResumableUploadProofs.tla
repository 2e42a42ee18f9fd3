------------------------ MODULE ResumableUploadProofs ------------------------
(***************************************************************************)
(* What the upload sessions keep, for every set of sessions, owners and    *)
(* processes and every limit.  Every step is one of eighteen turns in the  *)
(* life of each session; some facts about a session, once true, stay true  *)
(* through all of them, and those are what a process may remember while it *)
(* is outside a transaction.                                               *)
(***************************************************************************)
EXTENDS ResumableUpload, FiniteSetTheorems, TLAPS

Openers == {"opening", "opened"}
Beginners == Openers \cup {"aborting"}
Erasers == {"revoking", "sweeping", "closing"}
Unstarted == {"INITIALIZING", "PURGING", "CANCELLED"}
Over == {"PURGING", "CANCELLED"}

(* A call of begin for the session is on its way to the store or back.      *)
Opening(s) == \E w \in Workers : worker[w].s = s /\ worker[w].pc \in Openers
(* The client can still make an object of what it uploaded.                 *)
CanFinalize(s) == store[s].capability = "handed" /\ ~clock[s].ended

SessionInv(s) ==
  /\ session[s].state = "NONE" =>
       /\ ~session[s].link /\ ~session[s].deadline /\ ~session[s].deleted /\ ~session[s].purged
       /\ session[s].run = "none"
       /\ store[s].object = "absent" /\ store[s].capability = "none"
       /\ ~clock[s].expired
  /\ clock[s].ended => clock[s].expired
  /\ session[s].purged => session[s].deleted /\ ~HasBytes(s) /\ ~UploadPossible(s)
  /\ session[s].state = "CANCELLED" => session[s].purged
  /\ session[s].run = "queued" => ~session[s].deleted /\ store[s].object = "good"
  /\ Evidence(s) => store[s].object = "good"
  /\ store[s].capability \in {"minted", "handed"} => Provider = "GCS"
  /\ Provider = "GCS" /\ HasBytes(s) => store[s].capability = "closed"
  /\ CanFinalize(s) => session[s].link
  /\ UploadPossible(s) => session[s].link \/ session[s].deadline
  /\ Opening(s) =>
       /\ session[s].state \in Unstarted
       /\ ~HasBytes(s) /\ ~clock[s].ended /\ ~session[s].link
       /\ Provider = "GCS" => session[s].deadline /\ ~session[s].purged

(* What a process may remember of the session it works on.                  *)
SweepKnows(w) ==
  LET s == worker[w].s IN
  worker[w].pc = "listed" =>
    /\ worker[w].seen \in Pending
    /\ worker[w].seen = "PURGING" => session[s].state \in Over
    /\ worker[w].gone => session[s].deleted \/ ~Owner(s).active
    /\ ~worker[w].gone /\ worker[w].seen \in {"INITIALIZING", "UPLOADING"} =>
         clock[s].expired /\ session[s].state \notin {"VERIFYING", "COMPLETE"}
EraserKnows(w) ==
  LET s == worker[w].s  row == worker[w] IN
  row.pc \in Erasers =>
    /\ session[s].deleted
    /\ Provider = "GCS" /\ (row.link \/ ~row.deadline) => ~Opening(s)
    /\ (IF row.link THEN row.pc # "revoking" ELSE ~row.deadline) => ~UploadPossible(s)
    /\ row.pc # "revoking" \/ ~row.link => ~CanFinalize(s)
    /\ row.pc = "closing" => ~HasBytes(s)
WorkerKnows(w) ==
  LET s == worker[w].s IN
  worker[w].pc # "idle" =>
    /\ s \in Sessions /\ session[s].state # "NONE"
    /\ worker[w].pc = "aborting" => session[s].state \in Unstarted
    /\ worker[w].pc = "matched" => session[s].deleted \/ store[s].object = "good"
    /\ worker[w].pc = "deleting" =>
         s \in asked \/ session[s].state \in Over \/ session[s].deleted
    /\ worker[w].pc = "closed" => session[s].purged
    /\ SweepKnows(w) /\ EraserKnows(w)

BeginnersDistinct ==
  \A v, w \in Workers :
    /\ worker[v].pc \in Beginners /\ worker[w].pc \in Beginners
    /\ worker[v].s = worker[w].s
    => v = w
DeletedOwnersAsked == \A o \in Owners : ~owner[o].active => SessionsOf(o) \subseteq asked
QuotaReserved == \A o \in Owners : Cardinality(Unpurged(o)) <= OwnerAssets

(* The inductive invariant of the upload sessions.                          *)
UploadInv ==
  /\ TypeOK
  /\ \A s \in Sessions : SessionInv(s)
  /\ \A w \in Workers : WorkerKnows(w)
  /\ BeginnersDistinct
  /\ DeletedOwnersAsked
  /\ SlotsRespected
  /\ QuotaReserved
-----------------------------------------------------------------------------
(* The turns in the life of a session. *)

RestKept(s) ==
  /\ session'[s].link = session[s].link /\ session'[s].deadline = session[s].deadline
  /\ session'[s].purged = session[s].purged
RowKept(s) ==
  /\ RestKept(s)
  /\ session'[s].state = session[s].state /\ session'[s].deleted = session[s].deleted
  /\ session'[s].run = session[s].run
StillOpening(s) ==
  (\E w \in Workers : worker'[w].s = s /\ worker'[w].pc \in Openers) => Opening(s)
WorldKept(s) == store'[s] = store[s] /\ clock'[s] = clock[s] /\ StillOpening(s)

Rests(s) == RowKept(s) /\ WorldKept(s)
Reserves(s) ==
  /\ session[s].state = "NONE" /\ Admitted(s)
  /\ session'[s].state = "INITIALIZING" /\ session'[s].deadline = (Provider = "GCS")
  /\ session'[s].link = session[s].link /\ session'[s].purged = session[s].purged
  /\ session'[s].deleted = session[s].deleted /\ session'[s].run = session[s].run
  /\ store'[s] = store[s] /\ clock'[s] = clock[s]
Opens(s) ==
  /\ Opening(s) /\ RowKept(s) /\ clock'[s] = clock[s] /\ StillOpening(s)
  /\ IF Provider = "LOCAL"
     THEN store'[s].object = "empty" /\ store'[s].capability = store[s].capability
     ELSE store'[s].object = store[s].object /\ store'[s].capability = "minted"
Receives(s) ==
  /\ Opening(s) /\ clock'[s] = clock[s]
  /\ ~\E w \in Workers : worker'[w].s = s /\ worker'[w].pc \in Openers
  /\ session'[s].link = (Provider = "GCS") /\ session'[s].deadline = session[s].deadline
  /\ session'[s].purged = session[s].purged /\ session'[s].deleted = session[s].deleted
  /\ session'[s].run = session[s].run /\ store'[s].object = store[s].object
  /\ \/ session'[s].state = session[s].state /\ store'[s].capability = store[s].capability
     \/ /\ session[s].state = "INITIALIZING" /\ ~session[s].deleted
        /\ session'[s].state = "UPLOADING"
        /\ store'[s].capability = IF Provider = "GCS" THEN "handed" ELSE store[s].capability
Purges(s) ==
  /\ session[s].state # "NONE" /\ session'[s].state = "PURGING" /\ RestKept(s)
  /\ session'[s].deleted = session[s].deleted /\ session'[s].run = session[s].run
  /\ WorldKept(s)
  /\ Evidence(s) => \/ s \in asked
                    \/ \E w \in Workers : /\ worker[w].s = s /\ worker[w].pc = "listed"
                                          /\ worker[w].seen = "VERIFYING" /\ clock[s].expired
Writes(s) ==
  /\ Provider = "LOCAL" /\ session[s].state = "UPLOADING" /\ ~session[s].deleted
  /\ store[s].object \in {"empty", "part"} /\ store'[s].capability = store[s].capability
  /\ RowKept(s) /\ clock'[s] = clock[s] /\ StillOpening(s)
Finalizes(s) ==
  /\ CanFinalize(s) /\ store'[s].capability = "closed"
  /\ RowKept(s) /\ clock'[s] = clock[s] /\ StillOpening(s)
Completes(s) ==
  /\ session[s].state = "UPLOADING" /\ ~session[s].deleted /\ ~clock[s].expired
  /\ session'[s].state = "VERIFYING" /\ RestKept(s)
  /\ session'[s].deleted = session[s].deleted /\ session'[s].run = session[s].run
  /\ WorldKept(s)
Publishes(s) ==
  /\ session[s].state \in {"UPLOADING", "VERIFYING"} /\ ~session[s].deleted
  /\ ~clock[s].expired /\ store[s].object = "good"
  /\ session'[s].state = "COMPLETE" /\ ~session'[s].link /\ ~session'[s].deadline
  /\ session'[s].run = "queued" /\ session'[s].deleted = session[s].deleted
  /\ session'[s].purged = session[s].purged
  /\ WorldKept(s)
Deletes(s) ==
  /\ session[s].state # "NONE" /\ session'[s].state = "PURGING" /\ session'[s].deleted
  /\ session'[s].run # "queued" /\ RestKept(s) /\ WorldKept(s)
  /\ Evidence(s) => s \in asked
Closes(s) ==
  /\ session[s].deleted
  /\ store'[s].capability = "closed" /\ store'[s].object = store[s].object
  /\ RowKept(s) /\ clock'[s] = clock[s] /\ StillOpening(s)
Sweeps(s) ==
  /\ session[s].deleted
  /\ store'[s].object = "absent" /\ store'[s].capability = store[s].capability
  /\ RowKept(s) /\ clock'[s] = clock[s] /\ StillOpening(s)
Erases(s) ==
  /\ session[s].deleted /\ ~HasBytes(s) /\ ~UploadPossible(s)
  /\ Provider = "GCS" => ~Opening(s)
  /\ ~session'[s].link /\ ~session'[s].deadline /\ session'[s].purged
  /\ session'[s].state = session[s].state /\ session'[s].deleted = session[s].deleted
  /\ session'[s].run = session[s].run /\ WorldKept(s)
Cancels(s) ==
  /\ session[s].purged /\ session'[s].state = "CANCELLED" /\ RestKept(s)
  /\ session'[s].deleted = session[s].deleted /\ session'[s].run = session[s].run
  /\ WorldKept(s)
Tombs(s) ==
  /\ session[s].state # "NONE" /\ session'[s].deleted /\ session'[s].run # "queued"
  /\ session'[s].state = session[s].state /\ RestKept(s) /\ WorldKept(s) /\ s \in asked'
Withdraws(s) ==
  /\ session'[s].run # "queued" /\ RestKept(s) /\ WorldKept(s)
  /\ session[s].run = "none" => session'[s].run = "none"
  /\ IF session[s].state \in Pending
     THEN session'[s].state = "PURGING" /\ session'[s].deleted
     ELSE session'[s].state = session[s].state /\ session'[s].deleted = session[s].deleted
Expires(s) ==
  /\ session[s].state # "NONE" /\ RowKept(s) /\ store'[s] = store[s] /\ StillOpening(s)
  /\ clock'[s].expired /\ clock'[s].ended = clock[s].ended
Ends(s) ==
  /\ clock[s].expired /\ ~Opening(s) /\ RowKept(s) /\ store'[s] = store[s] /\ StillOpening(s)
  /\ clock'[s].expired /\ clock'[s].ended

OtherTurn(s) ==
  \/ Rests(s) \/ Opens(s) \/ Receives(s) \/ Purges(s) \/ Writes(s)
  \/ Finalizes(s) \/ Completes(s) \/ Publishes(s) \/ Deletes(s) \/ Closes(s) \/ Sweeps(s)
  \/ Erases(s) \/ Cancels(s) \/ Tombs(s) \/ Withdraws(s) \/ Expires(s) \/ Ends(s)
Turn(s) == Reserves(s) \/ OtherTurn(s)
-----------------------------------------------------------------------------
(* Every step is a turn of every session. *)

(* A step that does not send a process to begin opens no session.           *)
LEMMA StillOpens ==
  ASSUME TypeOK, NEW w \in Workers, NEW row, NEW s \in Sessions, Step(w, row),
         row.pc \in Openers /\ row.s = s => worker[w].pc \in Openers /\ worker[w].s = s
  PROVE StillOpening(s)
BY DEF TypeOK, Step, StillOpening, Opening

LEMMA StillMoves ==
  ASSUME TypeOK, NEW w \in Workers, NEW pc, NEW s \in Sessions, Moves(w, pc),
         pc \in Openers => worker[w].pc \in Openers
  PROVE StillOpening(s)
BY DEF TypeOK, WorkerRow, Moves, StillOpening, Opening

LEMMA StillResting ==
  ASSUME UNCHANGED worker, NEW s \in Sessions
  PROVE StillOpening(s)
BY DEF StillOpening, Opening

LEMMA StutterTurns ==
  ASSUME UNCHANGED vars, NEW s \in Sessions PROVE Rests(s)
BY DEF vars, Rests, RowKept, RestKept, WorldKept, StillOpening, Opening

LEMMA RowTypes ==
  ASSUME TypeOK
  PROVE /\ \A w \in Workers : worker[w] \in WorkerRow
        /\ \A s \in Sessions : session[s] \in SessionRow
BY DEF TypeOK
-----------------------------------------------------------------------------
LEMMA BeginTurns ==
  ASSUME UploadInv, NEW w \in Workers, NEW x \in Sessions, NEW s \in Sessions, Begin(w, x)
  PROVE Rests(s) \/ (s = x /\ Reserves(s))
<1>1. session \in [Sessions -> SessionRow]
  BY DEF UploadInv, TypeOK
<1>2. CASE s # x
  <2>1. StillOpening(s)
    BY <1>2, StillOpens DEF UploadInv, Begin, At, Idle
  <2> QED BY <1>1, <1>2, <2>1 DEF Begin, Rests, RowKept, RestKept, WorldKept
<1>3. CASE s = x
  BY <1>1, <1>3 DEF Begin, Reserves, SessionRow
<1> QED BY <1>2, <1>3

LEMMA OpenTurns ==
  ASSUME UploadInv, NEW w \in Workers, NEW s \in Sessions, Open(w) \/ OpenFails(w)
  PROVE Rests(s) \/ Opens(s)
<1>1. /\ session \in [Sessions -> SessionRow] /\ worker \in [Workers -> WorkerRow]
      /\ store \in [Sessions -> [object : {"absent", "empty", "part", "good", "bad"},
                                 capability : {"none", "minted", "handed", "closed"}]]
  BY DEF UploadInv, TypeOK
<1>2. StillOpening(s) /\ worker[w].pc = "opening"
  BY StillMoves DEF UploadInv, Open, OpenFails, Openers
<1>3. RowKept(s) /\ clock'[s] = clock[s]
  BY DEF Open, OpenFails, RowKept, RestKept
<1>4. CASE OpenFails(w) \/ s # worker[w].s
  BY <1>1, <1>2, <1>3, <1>4 DEF Open, OpenFails, Rests, WorldKept
<1>5. CASE Open(w) /\ s = worker[w].s
  <2>1. Opening(s)
    BY <1>2, <1>5 DEF Opening, Openers
  <2> QED BY <1>1, <1>2, <1>3, <1>5, <2>1 DEF Open, Opens
<1> QED BY <1>4, <1>5

(* The receipt is the end of the only call of begin for its session.        *)
LEMMA ReceiptTurns ==
  ASSUME UploadInv, NEW w \in Workers, NEW s \in Sessions, RecordOpened(w)
  PROVE Rests(s) \/ Receives(s)
<1>1. /\ session \in [Sessions -> SessionRow] /\ worker \in [Workers -> WorkerRow]
      /\ store \in [Sessions -> [object : {"absent", "empty", "part", "good", "bad"},
                                 capability : {"none", "minted", "handed", "closed"}]]
  BY DEF UploadInv, TypeOK
<1>2. worker[w].pc = "opened" /\ clock'[s] = clock[s]
  BY DEF RecordOpened
<1>3. worker[w].s \in Sessions
  BY <1>2 DEF UploadInv, WorkerKnows
<1>4. \A v \in Workers : v # w => worker'[v] = worker[v]
  BY <1>1 DEF RecordOpened, Step, Moves
<1>5. worker'[w].pc \notin Openers
  <2>1. CASE Moves(w, "aborting")
    BY <1>1, <2>1 DEF Moves, Openers, WorkerRow
  <2>2. CASE Step(w, Idle)
    BY <1>1, <2>2 DEF Step, Idle, Openers
  <2> QED BY <2>1, <2>2 DEF RecordOpened
<1>6. CASE s # worker[w].s
  <2>1. StillOpening(s)
    BY <1>4, <1>5 DEF StillOpening, Opening
  <2> QED BY <1>1, <1>2, <1>6, <2>1 DEF RecordOpened, Rests, RowKept, RestKept, WorldKept
<1>7. CASE s = worker[w].s
  <2>1. Opening(s)
    BY <1>2, <1>7 DEF Opening, Openers
  <2>2. \A v \in Workers : v # w /\ worker[v].s = s => worker[v].pc \notin Openers
    BY <1>2, <1>7 DEF UploadInv, BeginnersDistinct, Beginners, Openers
  <2>3. ~\E v \in Workers : worker'[v].s = s /\ worker'[v].pc \in Openers
    BY <1>4, <1>5, <2>2
  <2> DEFINE linked == [session[s] EXCEPT !.link = (Provider = "GCS")]
  <2>4. /\ linked \in SessionRow /\ linked.link = (Provider = "GCS")
        /\ linked.deadline = session[s].deadline /\ linked.purged = session[s].purged
        /\ linked.deleted = session[s].deleted /\ linked.run = session[s].run
        /\ linked.state = session[s].state
    BY ZenonT(40), <1>1 DEF SessionRow
  <2>5. \/ session' = [session EXCEPT ![s] = linked] /\ UNCHANGED store
        \/ /\ session[s].state = "INITIALIZING" /\ ~session[s].deleted
           /\ session' = [session EXCEPT ![s] = [linked EXCEPT !.state = "UPLOADING"]]
           /\ store' = IF Provider = "GCS" THEN [store EXCEPT ![s].capability = "handed"]
                                           ELSE store
    BY <1>7 DEF RecordOpened
  <2> HIDE DEF linked
  <2>6. /\ session'[s].link = (Provider = "GCS") /\ session'[s].deadline = session[s].deadline
        /\ session'[s].purged = session[s].purged /\ session'[s].deleted = session[s].deleted
        /\ session'[s].run = session[s].run
    BY <1>1, <2>4, <2>5 DEF SessionRow
  <2>7. /\ store'[s].object = store[s].object
        /\ \/ session'[s].state = session[s].state /\ store'[s].capability = store[s].capability
           \/ /\ session[s].state = "INITIALIZING" /\ ~session[s].deleted
              /\ session'[s].state = "UPLOADING"
              /\ store'[s].capability = IF Provider = "GCS" THEN "handed" ELSE store[s].capability
    BY <1>1, <2>4, <2>5 DEF SessionRow
  <2> QED BY <1>2, <2>1, <2>3, <2>6, <2>7 DEF Receives
<1> QED BY <1>6, <1>7

(* Deletion was asked for, or the session is over, or a sweep goes by an    *)
(* old list: nobody else takes completed evidence away.                     *)
LEMMA MarkingTurns ==
  ASSUME UploadInv, NEW w \in Workers, NEW x \in Sessions, NEW s \in Sessions,
         session' = [session EXCEPT ![x] = Purging(@)],
         NEW row, Step(w, row), row.pc \notin Openers,
         UNCHANGED <<owner, store, clock>>,
         session[x].state # "NONE",
         Evidence(x) => \/ x \in asked
                        \/ \E v \in Workers : /\ worker[v].s = x /\ worker[v].pc = "listed"
                                              /\ worker[v].seen = "VERIFYING" /\ clock[x].expired
  PROVE Rests(s) \/ Purges(s)
<1>1. session \in [Sessions -> SessionRow]
  BY DEF UploadInv, TypeOK
<1>2. StillOpening(s)
  BY StillOpens DEF UploadInv
<1>3. CASE s # x
  BY <1>1, <1>2, <1>3 DEF Rests, RowKept, RestKept, WorldKept
<1>4. CASE s = x
  BY <1>1, <1>2, <1>4 DEF Purges, Purging, RestKept, WorldKept, SessionRow
<1> QED BY <1>3, <1>4
LEMMA WorkingOn ==
  ASSUME UploadInv, NEW w \in Workers, worker[w].pc # "idle"
  PROVE worker[w].s \in Sessions /\ session[worker[w].s].state # "NONE"
BY DEF UploadInv, WorkerKnows

LEMMA RevokingTurns ==
  ASSUME UploadInv, NEW w \in Workers, NEW s \in Sessions,
         \/ Abort(w) \/ SweepRevokes(w) \/ ClaimExhausted(w)
         \/ \E x \in Sessions : Cancel(w, x)
  PROVE Rests(s) \/ Purges(s)
<1>1. CASE Abort(w)
  <2>1. session[worker[w].s].state \in Unstarted
    BY <1>1 DEF Abort, UploadInv, WorkerKnows
  <2> QED
    BY <1>1, <2>1, WorkingOn, MarkingTurns
       DEF Abort, Deleting, At, Idle, Openers, Unstarted, Evidence
<1>2. CASE SweepRevokes(w)
  <2> DEFINE x == worker[w].s
  <2>1. x \in Sessions /\ session[x].state # "NONE"
    BY <1>2, WorkingOn DEF SweepRevokes
  <2>2. SweepKnows(w) /\ worker[w].pc = "listed"
    BY <1>2 DEF SweepRevokes, UploadInv, WorkerKnows
  <2>3. ASSUME Evidence(x)
        PROVE x \in asked \/ (worker[w].seen = "VERIFYING" /\ clock[x].expired)
    <3>1. worker[w].gone => ~Owner(x).active
      BY <2>2, <2>3 DEF SweepKnows, Evidence
    <3>2. ~Owner(x).active => x \in asked
      BY <2>1, UploadAssumption DEF UploadInv, DeletedOwnersAsked, SessionsOf, Owner
    <3>3. ~worker[w].gone => worker[w].seen = "VERIFYING" /\ clock[x].expired
      BY <1>2, <2>2, <2>3 DEF SweepRevokes, Revocable, SweepKnows, Evidence, Over, Pending
    <3> QED BY <3>1, <3>2, <3>3
  <2>4. Step(w, Deleting(x, TRUE)) /\ Deleting(x, TRUE).pc \notin Openers
    BY <1>2 DEF SweepRevokes, Deleting, At, Idle, Openers
  <2>5. session' = [session EXCEPT ![x] = Purging(@)] /\ UNCHANGED <<owner, store, clock>>
    BY <1>2 DEF SweepRevokes
  <2> HIDE DEF x
  <2> QED BY <2>1, <2>2, <2>3, <2>4, <2>5, MarkingTurns DEF x
<1>3. CASE ClaimExhausted(w)
  BY <1>3, WorkingOn, MarkingTurns
     DEF ClaimExhausted, Verifying, ClaimFree, Idle, Openers, Evidence
<1>4. CASE \E x \in Sessions : Cancel(w, x)
  BY <1>4, MarkingTurns DEF Cancel, Cancellable, Deleting, At, Idle, Openers, Evidence
<1> QED BY <1>1, <1>2, <1>3, <1>4

LEMMA SettleTurns ==
  ASSUME UploadInv, NEW w \in Workers, NEW s \in Sessions, Settle(w)
  PROVE Rests(s) \/ Purges(s)
<1>1. session \in [Sessions -> SessionRow]
  BY DEF UploadInv, TypeOK
<1>2. worker[w].s \in Sessions /\ session[worker[w].s].state # "NONE"
  BY WorkingOn DEF Settle
<1>3. CASE session' = [session EXCEPT ![worker[w].s] = Purging(@)]
           /\ Step(w, Deleting(worker[w].s, FALSE))
           /\ session[worker[w].s].state = "VERIFYING"
  BY <1>2, <1>3, MarkingTurns DEF Settle, Deleting, At, Idle, Openers, Evidence
<1>4. CASE Step(w, Idle) /\ session[worker[w].s].state = "VERIFYING"
           /\ session' = [session EXCEPT ![worker[w].s].lease = "none",
                                         ![worker[w].s].waiting = TRUE]
  <2>1. RowKept(s)
    <3>1. \/ session'[s] = session[s]
          \/ session'[s] = [session[s] EXCEPT !.lease = "none", !.waiting = TRUE]
      BY <1>1, <1>4
    <3> QED BY <1>1, <3>1 DEF RowKept, RestKept, SessionRow
  <2>2. store'[s] = store[s] /\ clock'[s] = clock[s]
    BY DEF Settle
  <2>3. StillOpening(s)
    BY <1>4, StillOpens DEF UploadInv, Idle, Openers
  <2> QED BY <2>1, <2>2, <2>3 DEF Rests, WorldKept
<1>5. CASE Step(w, Idle) /\ UNCHANGED session
  BY <1>5, StillOpens
     DEF UploadInv, Settle, Idle, Openers, Rests, WorldKept, RowKept, RestKept
<1> QED BY <1>3, <1>4, <1>5 DEF Settle

(* Steps that only move a process, or change of a row what the facts about  *)
(* a session do not name.                                                   *)
LEMMA RestingTurns ==
  ASSUME UploadInv, NEW w \in Workers, NEW s \in Sessions,
         \/ SweepPurges(w) \/ Claim(w) \/ ClaimRefused(w) \/ Read(w) \/ PublishRefused(w)
         \/ DeletePends(w) \/ DeleteFails(w) \/ Crash(w)
         \/ \E x \in Sessions : List(w, x) \/ DeleteEvidence(w, x) \/ PurgeTombstone(w, x)
  PROVE Rests(s)
<1>1. session \in [Sessions -> SessionRow] /\ TypeOK
  BY DEF UploadInv, TypeOK
<1>2. RowKept(s)
  <2>1. CASE Claim(w)
    <3>1. PICK t : t = worker[w].s
      OBVIOUS
    <3>2. session' = [session EXCEPT ![t].fence = w, ![t].lease = "live", ![t].attempts = @ + 1]
      BY <2>1, <3>1 DEF Claim
    <3>3. \/ session'[s] = session[s]
          \/ session'[s] = [session[s] EXCEPT !.fence = w, !.lease = "live", !.attempts = @ + 1]
      BY <1>1, <3>2
    <3> QED BY <1>1, <3>3 DEF RowKept, RestKept, SessionRow
  <2>2. CASE ClaimRefused(w)
    BY <1>1, <2>2 DEF ClaimRefused, RowKept, RestKept, SessionRow
  <2>3. CASE DeletePends(w) \/ DeleteFails(w)
    BY <1>1, <2>3 DEF DeletePends, DeleteFails, FailedDelete, RowKept, RestKept, SessionRow
  <2>4. CASE UNCHANGED session
    BY <2>4 DEF RowKept, RestKept
  <2> QED
    BY <2>1, <2>2, <2>3, <2>4
       DEF SweepPurges, Read, PublishRefused, Crash, List, DeleteEvidence, PurgeTombstone
<1>3. store'[s] = store[s] /\ clock'[s] = clock[s]
  BY DEF SweepPurges, Claim, ClaimRefused, Read, PublishRefused, DeletePends, DeleteFails,
       Crash, List, DeleteEvidence, PurgeTombstone
<1>4. StillOpening(s)
  <2>1. CASE SweepPurges(w)
    BY <1>1, <2>1, StillOpens DEF SweepPurges, Deleting, At, Idle, Openers
  <2>2. CASE Claim(w)
    BY <1>1, <2>2, StillOpens DEF Claim, At, Idle, Openers
  <2>3. CASE ClaimRefused(w) \/ DeletePends(w) \/ DeleteFails(w) \/ Crash(w)
    BY <1>1, <2>3, StillOpens
       DEF ClaimRefused, DeletePends, DeleteFails, FailedDelete, Crash, Idle, Openers
  <2>4. CASE Read(w)
    BY <1>1, <2>4, StillMoves DEF Read, Openers
  <2>5. CASE PublishRefused(w)
    BY <1>1, <2>5, StillMoves DEF PublishRefused, Openers
  <2>6. CASE \E x \in Sessions : List(w, x)
    BY <1>1, <2>6, StillOpens DEF List, At, Idle, Openers
  <2>7. CASE \E x \in Sessions : DeleteEvidence(w, x) \/ PurgeTombstone(w, x)
    BY <1>1, <2>7, StillOpens DEF DeleteEvidence, PurgeTombstone, Deleting, At, Idle, Openers
  <2> QED BY <2>1, <2>2, <2>3, <2>4, <2>5, <2>6, <2>7
<1> QED BY <1>2, <1>3, <1>4 DEF Rests, WorldKept
LEMMA PublishTurns ==
  ASSUME UploadInv, NEW w \in Workers, NEW s \in Sessions, Publish(w)
  PROVE Rests(s) \/ Publishes(s)
<1> DEFINE x == worker[w].s
<1>1. session \in [Sessions -> SessionRow] /\ x \in Sessions /\ session[x] \in SessionRow
  BY WorkingOn DEF UploadInv, TypeOK, Publish
<1>2. StillOpening(s) /\ store'[s] = store[s] /\ clock'[s] = clock[s]
  BY StillOpens DEF UploadInv, Publish, Idle, Openers
<1>3. Usable(x) /\ session[x].state \in {"UPLOADING", "VERIFYING"}
  BY DEF Publish, Publishable, Usable
<1>4. store[x].object = "good"
  BY <1>3 DEF UploadInv, WorkerKnows, Publish, Usable
<1>5. session' = [session EXCEPT ![x].state = "COMPLETE", ![x].lease = "none",
                    ![x].link = FALSE, ![x].deadline = FALSE, ![x].run = "queued"]
  BY DEF Publish
<1> HIDE DEF x
<1>6. CASE s # x
  BY <1>1, <1>2, <1>5, <1>6 DEF Rests, RowKept, RestKept, WorldKept
<1>7. CASE s = x
  BY <1>1, <1>2, <1>3, <1>4, <1>5, <1>7 DEF Publishes, WorldKept, Usable, SessionRow
<1> QED BY <1>6, <1>7

LEMMA DeletionTurns ==
  ASSUME UploadInv, NEW w \in Workers, NEW s \in Sessions, DeleteCommits(w)
  PROVE Rests(s) \/ Deletes(s)
<1> DEFINE x == worker[w].s
<1>1. session \in [Sessions -> SessionRow] /\ x \in Sessions /\ session[x].state # "NONE"
  BY WorkingOn DEF UploadInv, TypeOK, DeleteCommits
<1>2. store'[s] = store[s] /\ clock'[s] = clock[s] /\ session' = [session EXCEPT ![x] = Deleted(@)]
  BY DEF DeleteCommits
<1>3. StillOpening(s)
  <2>1. worker[w] \in WorkerRow
    BY RowTypes DEF UploadInv
  <2>2. [worker[w] EXCEPT !.pc = "revoking", !.link = session[x].link,
                          !.deadline = session[x].deadline].pc \notin Openers
    BY <2>1 DEF WorkerRow, Openers
  <2> QED BY <2>2, StillOpens DEF UploadInv, DeleteCommits
<1>4. Evidence(x) => x \in asked
  BY DEF UploadInv, WorkerKnows, DeleteCommits, Evidence, Over
<1> HIDE DEF x
<1>5. CASE s # x
  BY <1>1, <1>2, <1>3, <1>5 DEF Rests, RowKept, RestKept, WorldKept
<1>6. CASE s = x
  BY <1>1, <1>2, <1>3, <1>4, <1>6 DEF Deletes, Deleted, RestKept, WorldKept, SessionRow
<1> QED BY <1>5, <1>6

(* An eraser works on a deleted session; what it ends cannot come back.     *)
LEMMA ErasureTurns ==
  ASSUME UploadInv, NEW w \in Workers, NEW s \in Sessions,
         CancelUpload(w) \/ SweepPrefix(w)
  PROVE Rests(s) \/ Closes(s) \/ Sweeps(s)
<1>1. /\ session \in [Sessions -> SessionRow]
      /\ store \in [Sessions -> [object : {"absent", "empty", "part", "good", "bad"},
                                 capability : {"none", "minted", "handed", "closed"}]]
  BY DEF UploadInv, TypeOK
<1>2. StillOpening(s) /\ RowKept(s) /\ clock'[s] = clock[s]
  BY StillMoves DEF UploadInv, CancelUpload, SweepPrefix, RowKept, RestKept, Openers
<1>3. worker[w].s \in Sessions /\ session[worker[w].s].deleted
  BY WorkingOn DEF UploadInv, WorkerKnows, EraserKnows, CancelUpload, SweepPrefix, Erasers
<1>4. CASE s # worker[w].s \/ UNCHANGED store
  BY <1>1, <1>2, <1>4 DEF CancelUpload, SweepPrefix, Rests, WorldKept
<1>5. CASE CancelUpload(w) /\ s = worker[w].s /\ ~UNCHANGED store
  BY <1>1, <1>2, <1>3, <1>5 DEF CancelUpload, Closes
<1>6. CASE SweepPrefix(w) /\ s = worker[w].s
  BY <1>1, <1>2, <1>3, <1>6 DEF SweepPrefix, Sweeps
<1> QED BY <1>4, <1>5, <1>6

LEMMA RecordTurns ==
  ASSUME UploadInv, NEW w \in Workers, NEW s \in Sessions,
         RecordPurge(w) \/ RecordCancelled(w)
  PROVE Rests(s) \/ Erases(s) \/ Cancels(s)
<1> DEFINE x == worker[w].s
<1>1. session \in [Sessions -> SessionRow] /\ x \in Sessions
  BY WorkingOn DEF UploadInv, TypeOK, RecordPurge, RecordCancelled
<1>2. /\ StillOpening(s) /\ store'[s] = store[s] /\ clock'[s] = clock[s]
  <2>1. CASE RecordPurge(w)
    BY <2>1, StillMoves DEF UploadInv, RecordPurge, Openers
  <2>2. CASE RecordCancelled(w)
    BY <2>2, StillOpens DEF UploadInv, RecordCancelled, Idle, Openers
  <2> QED BY <2>1, <2>2
<1>3. CASE s # x
  BY <1>1, <1>2, <1>3 DEF RecordPurge, RecordCancelled, Rests, RowKept, RestKept, WorldKept
<1>4. CASE s = x /\ RecordPurge(w)
  <2>1. EraserKnows(w) /\ worker[w].pc = "closing" /\ ~CapabilityMayLive(w)
    BY <1>4 DEF UploadInv, WorkerKnows, RecordPurge
  <2>2. session[x].deleted /\ ~HasBytes(x)
    BY <2>1 DEF EraserKnows, Erasers
  <2>3. ~UploadPossible(x)
    BY <2>1 DEF EraserKnows, Erasers, CapabilityMayLive, UploadPossible
  <2>4. Provider = "GCS" => ~Opening(x)
    <3>1. ASSUME clock[x].ended PROVE ~Opening(x)
      BY <1>1, <3>1 DEF UploadInv, SessionInv
    <3> QED BY <2>1, <3>1 DEF EraserKnows, Erasers, CapabilityMayLive
  <2>5. session' = [session EXCEPT ![x].link = FALSE, ![x].deadline = FALSE, ![x].purged = TRUE]
    BY <1>4 DEF RecordPurge
  <2> HIDE DEF x
  <2> QED BY <1>1, <1>2, <1>4, <2>2, <2>3, <2>4, <2>5 DEF Erases, WorldKept, SessionRow
<1>5. CASE s = x /\ RecordCancelled(w)
  <2>1. session[x].purged /\ session' = [session EXCEPT ![x].state = "CANCELLED"]
    BY <1>5 DEF UploadInv, WorkerKnows, RecordCancelled
  <2> HIDE DEF x
  <2> QED BY <1>1, <1>2, <1>5, <2>1 DEF Cancels, RestKept, WorldKept, SessionRow
<1> QED BY <1>3, <1>4, <1>5
LEMMA ClientTurns ==
  ASSUME UploadInv, NEW x \in Sessions, NEW s \in Sessions,
         \/ \E object \in {"part", "good", "bad"} : WriteChunk(x, object)
         \/ \E object \in {"good", "bad"} : ClientFinalizes(x, object)
         \/ RequestCompletion(x)
  PROVE Rests(s) \/ Writes(s) \/ Finalizes(s) \/ Completes(s)
<1>1. /\ session \in [Sessions -> SessionRow]
      /\ store \in [Sessions -> [object : {"absent", "empty", "part", "good", "bad"},
                                 capability : {"none", "minted", "handed", "closed"}]]
  BY DEF UploadInv, TypeOK
<1>2. StillOpening(s) /\ clock'[s] = clock[s]
  BY StillResting DEF WriteChunk, ClientFinalizes, RequestCompletion
<1>3. CASE s # x
  BY <1>1, <1>2, <1>3
     DEF WriteChunk, ClientFinalizes, RequestCompletion, Rests, RowKept, RestKept, WorldKept
<1>4. CASE s = x /\ \E object \in {"part", "good", "bad"} : WriteChunk(x, object)
  BY <1>1, <1>2, <1>4 DEF WriteChunk, Writes, RowKept, RestKept, Usable
<1>5. CASE s = x /\ \E object \in {"good", "bad"} : ClientFinalizes(x, object)
  BY <1>1, <1>2, <1>5 DEF ClientFinalizes, Finalizes, CanFinalize, RowKept, RestKept
<1>6. CASE s = x /\ RequestCompletion(x)
  BY <1>1, <1>2, <1>6 DEF RequestCompletion, Completes, RestKept, WorldKept, Usable, SessionRow
<1> QED BY <1>3, <1>4, <1>5, <1>6

LEMMA TimeTurns ==
  ASSUME UploadInv, NEW x \in Sessions, NEW s \in Sessions, Elapse(x)
  PROVE Rests(s) \/ Expires(s) \/ Ends(s)
<1>1. /\ session \in [Sessions -> SessionRow]
      /\ clock \in [Sessions -> [expired : BOOLEAN, ended : BOOLEAN]]
  BY DEF UploadInv, TypeOK
<1>2. StillOpening(s) /\ store'[s] = store[s]
  BY StillResting DEF Elapse, SessionExpires, CapabilityEnds, LeaseLapses, DelayEnds
<1>3. RowKept(s)
  BY SMTT(30), <1>1 DEF Elapse, SessionExpires, CapabilityEnds, LeaseLapses, DelayEnds, RowKept, RestKept,
       SessionRow
<1>4. CASE s # x \/ LeaseLapses(x) \/ DelayEnds(x)
  BY <1>1, <1>2, <1>3, <1>4
     DEF Elapse, SessionExpires, CapabilityEnds, LeaseLapses, DelayEnds, Rests, WorldKept
<1>5. CASE s = x /\ SessionExpires(x)
  BY <1>1, <1>2, <1>3, <1>5 DEF SessionExpires, Expires
<1>6. CASE s = x /\ CapabilityEnds(x)
  <2>1. ~Opening(x)
    BY <1>6 DEF CapabilityEnds, Opening, Openers
  <2> QED BY <1>1, <1>2, <1>3, <1>6, <2>1 DEF CapabilityEnds, Ends
<1> QED BY <1>4, <1>5, <1>6 DEF Elapse

LEMMA OwnerTurns ==
  ASSUME UploadInv, NEW o \in Owners, NEW s \in Sessions,
         DeleteAccount(o) \/ WithdrawProcessing(o) \/ GrantProcessing(o)
  PROVE Rests(s) \/ Tombs(s) \/ Withdraws(s)
<1>1. /\ session \in [Sessions -> SessionRow] /\ session[s] \in SessionRow
  BY DEF UploadInv, TypeOK
<1>2. WorldKept(s)
  BY StillResting DEF DeleteAccount, WithdrawProcessing, GrantProcessing, WorldKept
<1>3. CASE DeleteAccount(o)
  <2>1. CASE s \in SessionsOf(o) /\ session[s].state # "NONE"
    <3>1. session'[s] = [session[s] EXCEPT !.deleted = TRUE,
                           !.run = IF @ = "none" THEN @ ELSE "cancelled"]
      BY <1>3, <2>1 DEF DeleteAccount
    <3>2. s \in asked'
      BY <1>3, <2>1 DEF DeleteAccount
    <3> QED BY <1>1, <1>2, <2>1, <3>1, <3>2 DEF Tombs, RestKept, SessionRow
  <2>2. CASE ~(s \in SessionsOf(o) /\ session[s].state # "NONE")
    <3>1. session'[s] = session[s]
      BY <1>3, <2>2 DEF DeleteAccount
    <3> QED BY <1>2, <3>1 DEF Rests, RowKept, RestKept
  <2> QED BY <2>1, <2>2
<1>4. CASE WithdrawProcessing(o)
  <2>1. CASE s \notin SessionsOf(o)
    <3>1. session'[s] = session[s]
      BY <1>4, <2>1 DEF WithdrawProcessing
    <3> QED BY <1>2, <3>1 DEF Rests, RowKept, RestKept
  <2>2. CASE s \in SessionsOf(o) /\ session[s].state \in Pending
    <3>1. session'[s] = Withdrawn(session[s])
      BY <1>4, <2>2 DEF WithdrawProcessing
    <3> QED
      BY <1>1, <1>2, <2>2, <3>1 DEF Withdraws, Withdrawn, StopQueued, RestKept, SessionRow
  <2>3. CASE s \in SessionsOf(o) /\ session[s].state \notin Pending
    <3>1. session'[s] = StopQueued(session[s])
      BY <1>4, <2>3 DEF WithdrawProcessing
    <3> QED
      BY <1>1, <1>2, <2>3, <3>1 DEF Withdraws, StopQueued, RestKept, SessionRow
  <2> QED BY <2>1, <2>2, <2>3
<1>5. CASE GrantProcessing(o)
  BY <1>2, <1>5 DEF GrantProcessing, Rests, RowKept, RestKept
<1> QED BY <1>3, <1>4, <1>5

(* Every step is one of the eighteen turns of every session, and only the   *)
(* session that begin is called for is reserved.                            *)
LEMMA StepTurns ==
  ASSUME UploadInv, [Next]_vars, NEW s \in Sessions
  PROVE OtherTurn(s) \/ (Reserves(s) /\ \E w \in Workers : Begin(w, s))
<1> DEFINE Turned == OtherTurn(s) \/ (Reserves(s) /\ \E w \in Workers : Begin(w, s))
<1>1. CASE UNCHANGED vars
  BY <1>1, StutterTurns DEF OtherTurn
<1>2. ASSUME NEW w \in Workers, Proceed(w) \/ OpenFails(w) \/ DeleteFails(w) \/ Crash(w)
      PROVE Turned
  BY <1>2, OpenTurns, ReceiptTurns, RevokingTurns, SettleTurns, RestingTurns, PublishTurns,
     DeletionTurns, ErasureTurns, RecordTurns DEF OtherTurn, Proceed
<1>3. ASSUME NEW w \in Workers, NEW x \in Sessions,
             \/ Begin(w, x) \/ List(w, x) \/ Cancel(w, x)
             \/ DeleteEvidence(w, x) \/ PurgeTombstone(w, x)
      PROVE Turned
  BY <1>3, BeginTurns, RevokingTurns, RestingTurns DEF OtherTurn
<1>4. ASSUME NEW x \in Sessions,
             \/ \E object \in {"part", "good", "bad"} : WriteChunk(x, object)
             \/ \E object \in {"good", "bad"} : ClientFinalizes(x, object)
             \/ RequestCompletion(x) \/ Elapse(x)
      PROVE Turned
  BY <1>4, ClientTurns, TimeTurns DEF OtherTurn
<1>5. ASSUME NEW o \in Owners, DeleteAccount(o) \/ WithdrawProcessing(o) \/ GrantProcessing(o)
      PROVE Turned
  BY <1>5, OwnerTurns DEF OtherTurn
<1> QED BY <1>1, <1>2, <1>3, <1>4, <1>5 DEF Next

LEMMA EveryTurn ==
  ASSUME UploadInv, [Next]_vars, NEW s \in Sessions PROVE Turn(s)
BY StepTurns DEF Turn
-----------------------------------------------------------------------------
(* What stays true of a session. *)

(* A row that exists goes on existing; deletion, purge and deadlines are    *)
(* for good, and a session that is over stays over.                         *)
LEMMA Lasting ==
  ASSUME NEW s \in Sessions, SessionInv(s), Turn(s)
  PROVE /\ session[s].state # "NONE" => session'[s].state # "NONE"
        /\ session[s].deleted => session'[s].deleted
        /\ session[s].purged => session'[s].purged
        /\ clock[s].expired => clock'[s].expired
        /\ clock[s].ended => clock'[s].ended
        /\ session[s].state \in Over => session'[s].state \in Over
BY DEF Turn, OtherTurn, SessionInv, Over, Pending, Rests, Reserves, Opens, Receives, Purges, Writes,
       Finalizes, Completes, Publishes, Deletes, Closes, Sweeps, Erases, Cancels, Tombs,
       Withdraws, Expires, Ends, RowKept, RestKept, WorldKept

(* Begin is called once for a session.                                      *)
LEMMA OpeningLasts ==
  ASSUME NEW s \in Sessions, SessionInv(s), Turn(s), session[s].state # "NONE", ~Opening(s)
  PROVE ~Opening(s)'
BY DEF Turn, OtherTurn, SessionInv, Opening, StillOpening, Rests, Reserves, Opens, Receives, Purges, Writes,
       Finalizes, Completes, Publishes, Deletes, Closes, Sweeps, Erases, Cancels, Tombs,
       Withdraws, Expires, Ends, WorldKept
(* A capability that is closed or has ended is not minted again.            *)
LEMMA ClosedLasts ==
  ASSUME NEW s \in Sessions, SessionInv(s), Turn(s), session[s].state # "NONE",
         ~Opening(s), ~UploadPossible(s)
  PROVE ~UploadPossible(s)'
BY DEF Turn, OtherTurn, SessionInv, UploadPossible, Rests, Reserves, Opens, Receives, Purges, Writes,
       Finalizes, Completes, Publishes, Deletes, Closes, Sweeps, Erases, Cancels, Tombs,
       Withdraws, Expires, Ends, WorldKept, RowKept, RestKept

(* No capability of a deleted session is handed out, and nothing is written *)
(* to it, so erased bytes do not come back.                                 *)
LEMMA ErasedLasts ==
  ASSUME NEW s \in Sessions, SessionInv(s), Turn(s), session[s].deleted, ~CanFinalize(s)
  PROVE /\ ~CanFinalize(s)'
        /\ ~HasBytes(s) => ~HasBytes(s)'
BY UploadAssumption
   DEF Turn, OtherTurn, SessionInv, CanFinalize, HasBytes, Rests, Reserves, Opens, Receives, Purges, Writes,
       Finalizes, Completes, Publishes, Deletes, Closes, Sweeps, Erases, Cancels, Tombs,
       Withdraws, Expires, Ends, WorldKept, RowKept, RestKept

(* The declared bytes stay as they are until the session is deleted.        *)
LEMMA GoodLasts ==
  ASSUME NEW s \in Sessions, SessionInv(s), Turn(s), store[s].object = "good",
         ~session'[s].deleted
  PROVE store'[s].object = "good"
BY UploadAssumption
   DEF Turn, OtherTurn, SessionInv, CanFinalize, HasBytes, Rests, Reserves, Opens, Receives, Purges, Writes,
       Finalizes, Completes, Publishes, Deletes, Closes, Sweeps, Erases, Cancels, Tombs,
       Withdraws, Expires, Ends, WorldKept, RowKept, RestKept

(* An expired session that is not being verified will not be.               *)
LEMMA MissedLasts ==
  ASSUME NEW s \in Sessions, SessionInv(s), Turn(s), session[s].state # "NONE",
         clock[s].expired, session[s].state \notin {"VERIFYING", "COMPLETE"}
  PROVE session'[s].state \notin {"VERIFYING", "COMPLETE"}
BY DEF Turn, OtherTurn, SessionInv, Rests, Reserves, Opens, Receives, Purges, Writes,
       Finalizes, Completes, Publishes, Deletes, Closes, Sweeps, Erases, Cancels, Tombs,
       Withdraws, Expires, Ends, RowKept, RestKept

(* A session whose begin has failed never starts.                           *)
LEMMA UnstartedLasts ==
  ASSUME NEW s \in Sessions, SessionInv(s), Turn(s), session[s].state \in Unstarted, ~Opening(s)
  PROVE session'[s].state \in Unstarted
BY DEF Turn, OtherTurn, SessionInv, Unstarted, Pending, Rests, Reserves, Opens, Receives, Purges, Writes,
       Finalizes, Completes, Publishes, Deletes, Closes, Sweeps, Erases, Cancels, Tombs,
       Withdraws, Expires, Ends, RowKept, RestKept

LEMMA AskedLasts ==
  ASSUME [Next]_vars PROVE asked \subseteq asked'
<1>1. CASE UNCHANGED vars
  BY <1>1 DEF vars
<1>2. ASSUME NEW w \in Workers, Proceed(w) \/ OpenFails(w) \/ DeleteFails(w) \/ Crash(w)
      PROVE asked' = asked
  BY <1>2 DEF Proceed, Open, OpenFails, RecordOpened, Abort, SweepRevokes, SweepPurges, Claim,
       ClaimExhausted, ClaimRefused, Read, Publish, PublishRefused, Settle, DeleteCommits,
       CancelUpload, SweepPrefix, DeletePends, DeleteFails, RecordPurge, RecordCancelled, Crash
<1>3. ASSUME NEW w \in Workers, NEW x \in Sessions,
             \/ Begin(w, x) \/ List(w, x) \/ Cancel(w, x)
             \/ DeleteEvidence(w, x) \/ PurgeTombstone(w, x)
      PROVE asked \subseteq asked'
  BY <1>3 DEF Begin, List, Cancel, DeleteEvidence, PurgeTombstone
<1>4. ASSUME NEW x \in Sessions,
             \/ \E object \in {"part", "good", "bad"} : WriteChunk(x, object)
             \/ \E object \in {"good", "bad"} : ClientFinalizes(x, object)
             \/ RequestCompletion(x) \/ Elapse(x)
      PROVE asked' = asked
  BY <1>4 DEF WriteChunk, ClientFinalizes, RequestCompletion, Elapse, SessionExpires,
       CapabilityEnds, LeaseLapses, DelayEnds
<1>5. ASSUME NEW o \in Owners, DeleteAccount(o) \/ WithdrawProcessing(o) \/ GrantProcessing(o)
      PROVE asked \subseteq asked'
  BY <1>5 DEF DeleteAccount, WithdrawProcessing, GrantProcessing
<1> QED BY <1>1, <1>2, <1>3, <1>4, <1>5 DEF Next
-----------------------------------------------------------------------------
(* Each turn keeps the facts about its session. *)

LEMMA SessionKept ==
  ASSUME TypeOK, NEW s \in Sessions, SessionInv(s), Turn(s)
  PROVE SessionInv(s)'
<1> USE UploadAssumption DEF SessionInv, HasBytes, UploadPossible, CanFinalize, Evidence
<1>1. Opening(s)' <=> \E w \in Workers : worker'[w].s = s /\ worker'[w].pc \in Openers
  BY DEF Opening
<1>2. CASE Rests(s)
  BY <1>1, <1>2 DEF Rests, RowKept, RestKept, WorldKept, StillOpening
<1>3. CASE Reserves(s)
  <2>1. /\ session'[s].state = "INITIALIZING" /\ store'[s] = store[s] /\ clock'[s] = clock[s]
        /\ ~session'[s].link /\ ~session'[s].purged /\ ~session'[s].deleted
        /\ session'[s].run = "none"
    BY <1>3 DEF Reserves
  <2>2. /\ store[s].object = "absent" /\ store[s].capability = "none"
        /\ ~clock[s].expired /\ ~clock[s].ended
    BY <1>3 DEF Reserves
  <2>3. Provider = "GCS" => session'[s].deadline
    <3>1. session'[s].deadline = (Provider = "GCS")
      BY <1>3 DEF Reserves
    <3> QED BY <3>1
  <2> QED BY <1>1, <2>1, <2>2, <2>3 DEF Unstarted
<1>4. CASE Opens(s)
  BY <1>1, <1>4 DEF Opens, RowKept, RestKept, StillOpening, Unstarted
<1>5. CASE Receives(s)
  BY <1>1, <1>5 DEF Receives, Unstarted
<1>6. CASE Purges(s)
  BY <1>1, <1>6 DEF Purges, RestKept, WorldKept, StillOpening, Unstarted
<1>7. CASE Writes(s)
  BY <1>1, <1>7 DEF Writes, RowKept, RestKept, StillOpening, Unstarted
<1>8. CASE Finalizes(s)
  BY <1>1, <1>8 DEF Finalizes, RowKept, RestKept, StillOpening, Unstarted
<1>9. CASE Completes(s)
  BY <1>1, <1>9 DEF Completes, RestKept, WorldKept, StillOpening, Unstarted
<1>10. CASE Publishes(s)
  BY <1>1, <1>10 DEF Publishes, WorldKept, StillOpening, Unstarted
<1>11. CASE Deletes(s)
  BY <1>1, <1>11 DEF Deletes, RestKept, WorldKept, StillOpening, Unstarted
<1>12. CASE Closes(s)
  BY <1>1, <1>12 DEF Closes, RowKept, RestKept, StillOpening
<1>13. CASE Sweeps(s)
  BY <1>1, <1>13 DEF Sweeps, RowKept, RestKept, StillOpening
<1>14. CASE Erases(s)
  BY <1>1, <1>14 DEF Erases, WorldKept, StillOpening
<1>15. CASE Cancels(s)
  BY <1>1, <1>15 DEF Cancels, RestKept, WorldKept, StillOpening, Unstarted
<1>16. CASE Tombs(s)
  BY <1>1, <1>16 DEF Tombs, RestKept, WorldKept, StillOpening
<1>17. CASE Withdraws(s)
  BY <1>1, <1>17 DEF Withdraws, Pending, RestKept, WorldKept, StillOpening, Unstarted
<1>18. CASE Expires(s)
  BY <1>1, <1>18 DEF Expires, RowKept, RestKept, StillOpening
<1>19. CASE Ends(s)
  BY <1>1, <1>19 DEF Ends, RowKept, RestKept, StillOpening
<1> QED
  BY <1>2, <1>3, <1>4, <1>5, <1>6, <1>7, <1>8, <1>9, <1>10, <1>11, <1>12, <1>13, <1>14, <1>15,
     <1>16, <1>17, <1>18, <1>19 DEF Turn, OtherTurn
-----------------------------------------------------------------------------
(* What a process remembers stays true while others act. *)

Acts(w) ==
  \/ Proceed(w) \/ OpenFails(w) \/ DeleteFails(w) \/ Crash(w)
  \/ \E s \in Sessions :
       \/ Begin(w, s) \/ List(w, s) \/ Cancel(w, s)
       \/ DeleteEvidence(w, s) \/ PurgeTombstone(w, s)

LEMMA ActsAlone ==
  ASSUME TypeOK, NEW v \in Workers, Acts(v), NEW w \in Workers, w # v
  PROVE worker'[w] = worker[w]
<1>1. worker \in [Workers -> WorkerRow]
  BY DEF TypeOK
<1>2. (\E row : Step(v, row)) \/ (\E pc : Moves(v, pc))
  <2>1. ASSUME Proceed(v) PROVE (\E row : Step(v, row)) \/ (\E pc : Moves(v, pc))
    BY <2>1 DEF Proceed, Open, RecordOpened, Abort, SweepRevokes, SweepPurges, Claim,
         ClaimExhausted, ClaimRefused, Read, Publish, PublishRefused, Settle, DeleteCommits,
         CancelUpload, SweepPrefix, DeletePends, FailedDelete, RecordPurge, RecordCancelled
  <2>2. ASSUME OpenFails(v) \/ DeleteFails(v) \/ Crash(v)
        PROVE (\E row : Step(v, row)) \/ (\E pc : Moves(v, pc))
    BY <2>2 DEF OpenFails, DeleteFails, FailedDelete, Crash
  <2>3. ASSUME NEW s \in Sessions, \/ Begin(v, s) \/ List(v, s) \/ Cancel(v, s)
                                   \/ DeleteEvidence(v, s) \/ PurgeTombstone(v, s)
        PROVE (\E row : Step(v, row)) \/ (\E pc : Moves(v, pc))
    BY <2>3 DEF Begin, List, Cancel, DeleteEvidence, PurgeTombstone
  <2> QED BY <2>1, <2>2, <2>3 DEF Acts
<1> QED BY <1>1, <1>2 DEF Step, Moves

LEMMA Movers ==
  ASSUME TypeOK, [Next]_vars, NEW w \in Workers
  PROVE worker'[w] = worker[w] \/ Acts(w)
<1>1. CASE UNCHANGED vars
  BY <1>1 DEF vars
<1>2. CASE \E v \in Workers : Acts(v)
  BY <1>2, ActsAlone
<1>3. ASSUME NEW s \in Sessions,
             \/ \E object \in {"part", "good", "bad"} : WriteChunk(s, object)
             \/ \E object \in {"good", "bad"} : ClientFinalizes(s, object)
             \/ RequestCompletion(s) \/ Elapse(s)
      PROVE worker' = worker
  BY <1>3 DEF WriteChunk, ClientFinalizes, RequestCompletion, Elapse, SessionExpires,
       CapabilityEnds, LeaseLapses, DelayEnds
<1>4. ASSUME NEW o \in Owners, DeleteAccount(o) \/ WithdrawProcessing(o) \/ GrantProcessing(o)
      PROVE worker' = worker
  BY <1>4 DEF DeleteAccount, WithdrawProcessing, GrantProcessing
<1> QED BY <1>1, <1>2, <1>3, <1>4 DEF Next, Acts

LEMMA OwnerSteps ==
  ASSUME [Next]_vars
  PROVE \/ owner' = owner
        \/ \E o \in Owners : DeleteAccount(o) \/ WithdrawProcessing(o) \/ GrantProcessing(o)
<1>1. CASE UNCHANGED vars
  BY <1>1 DEF vars
<1>2. ASSUME NEW v \in Workers, Acts(v)
      PROVE owner' = owner
  BY <1>2 DEF Acts, Proceed, Open, OpenFails, RecordOpened, Abort, SweepRevokes, SweepPurges, Claim,
       ClaimExhausted, ClaimRefused, Read, Publish, PublishRefused, Settle, DeleteCommits,
       CancelUpload, SweepPrefix, DeletePends, DeleteFails, RecordPurge, RecordCancelled, Crash,
       Begin, List, Cancel, DeleteEvidence, PurgeTombstone
<1>3. ASSUME NEW s \in Sessions,
             \/ \E object \in {"part", "good", "bad"} : WriteChunk(s, object)
             \/ \E object \in {"good", "bad"} : ClientFinalizes(s, object)
             \/ RequestCompletion(s) \/ Elapse(s)
      PROVE owner' = owner
  BY <1>3 DEF WriteChunk, ClientFinalizes, RequestCompletion, Elapse, SessionExpires,
       CapabilityEnds, LeaseLapses, DelayEnds
<1> QED BY <1>1, <1>2, <1>3 DEF Next, Acts

(* An account that is closed stays closed.                                  *)
LEMMA OwnerLasts ==
  ASSUME TypeOK, [Next]_vars, NEW o \in Owners, ~owner[o].active
  PROVE ~owner'[o].active
<1>1. ASSUME NEW p \in Owners, DeleteAccount(p) \/ WithdrawProcessing(p) \/ GrantProcessing(p)
      PROVE ~owner'[o].active
  BY <1>1 DEF TypeOK, DeleteAccount, WithdrawProcessing, GrantProcessing
<1> QED BY <1>1, OwnerSteps

LEMMA RemembersStill ==
  ASSUME UploadInv, [Next]_vars, NEW w \in Workers, worker'[w] = worker[w]
  PROVE WorkerKnows(w)'
<1> SUFFICES ASSUME worker[w].pc # "idle" PROVE WorkerKnows(w)'
  BY DEF WorkerKnows
<1>0. PICK row : row = worker[w]
  OBVIOUS
<1> DEFINE s == row.s
<1>1. s \in Sessions /\ WorkerKnows(w) /\ SessionInv(s) /\ session[s].state # "NONE"
  BY <1>0, WorkingOn DEF UploadInv
<1>2. Turn(s) /\ SessionInv(s)'
  BY <1>1, EveryTurn, SessionKept DEF UploadInv
<1>3. /\ session'[s].state # "NONE" /\ (session[s].deleted => session'[s].deleted)
      /\ session[s].purged => session'[s].purged
      /\ clock[s].expired => clock'[s].expired
      /\ session[s].state \in Over => session'[s].state \in Over
  BY <1>1, <1>2, Lasting
<1>4. row.pc = "aborting" => session'[s].state \in Unstarted
  <2>1. ASSUME row.pc = "aborting" PROVE ~Opening(s)
    <3>1. \A v \in Workers : worker[v].s = s /\ worker[v].pc \in Openers => v = w
      BY <1>0, <2>1 DEF UploadInv, BeginnersDistinct, Beginners, Openers
    <3> QED BY <1>0, <2>1, <3>1 DEF Opening, Openers
  <2>2. row.pc = "aborting" => session[s].state \in Unstarted
    BY <1>0, <1>1 DEF WorkerKnows
  <2> QED BY <1>1, <1>2, <2>1, <2>2, UnstartedLasts
<1>5. row.pc = "matched" => session'[s].deleted \/ store'[s].object = "good"
  BY <1>0, <1>1, <1>2, <1>3, GoodLasts DEF WorkerKnows
<1>6. row.pc = "deleting" =>
        s \in asked' \/ session'[s].state \in Over \/ session'[s].deleted
  BY <1>0, <1>1, <1>3, AskedLasts DEF WorkerKnows
<1>7. row.pc = "closed" => session'[s].purged
  BY <1>0, <1>1, <1>3 DEF WorkerKnows
<1>8. SweepKnows(w)'
  <2>1. CASE row.pc # "listed"
    BY <1>0, <2>1 DEF SweepKnows
  <2>2. CASE row.pc = "listed"
    <3>1. /\ row.seen \in Pending
          /\ row.seen = "PURGING" => session[s].state \in Over
          /\ row.gone => session[s].deleted \/ ~Owner(s).active
          /\ ~row.gone /\ row.seen \in {"INITIALIZING", "UPLOADING"} =>
               clock[s].expired /\ session[s].state \notin {"VERIFYING", "COMPLETE"}
      BY <1>0, <1>1, <2>2 DEF WorkerKnows, SweepKnows
    <3>2. ~owner[OwnerOf[s]].active => ~owner'[OwnerOf[s]].active
      <4>1. OwnerOf[s] \in Owners
        BY <1>1, UploadAssumption
      <4> QED BY <4>1, OwnerLasts DEF UploadInv
    <3>3. ~row.gone /\ row.seen \in {"INITIALIZING", "UPLOADING"} =>
            clock'[s].expired /\ session'[s].state \notin {"VERIFYING", "COMPLETE"}
      BY <1>1, <1>2, <1>3, <3>1, MissedLasts
    <3>4. row.gone => session'[s].deleted \/ ~owner'[OwnerOf[s]].active
      BY <1>3, <3>1, <3>2 DEF Owner
    <3>5. row.seen = "PURGING" => session'[s].state \in Over
      BY <1>3, <3>1
    <3> QED BY <1>0, <3>1, <3>3, <3>4, <3>5 DEF SweepKnows, Owner
  <2> QED BY <2>1, <2>2
<1>9. EraserKnows(w)'
  <2>1. CASE row.pc \notin Erasers
    BY <1>0, <2>1 DEF EraserKnows
  <2>2. CASE row.pc \in Erasers
    <3>1. /\ session[s].deleted
          /\ Provider = "GCS" /\ (row.link \/ ~row.deadline) => ~Opening(s)
          /\ (IF row.link THEN row.pc # "revoking" ELSE ~row.deadline) => ~UploadPossible(s)
          /\ row.pc # "revoking" \/ ~row.link => ~CanFinalize(s)
          /\ row.pc = "closing" => ~HasBytes(s)
      BY <1>0, <1>1, <2>2 DEF WorkerKnows, EraserKnows
    <3>2. Provider = "GCS" /\ (row.link \/ ~row.deadline) => ~Opening(s)'
      BY <1>1, <1>2, <3>1, OpeningLasts
    <3>3. (IF row.link THEN row.pc # "revoking" ELSE ~row.deadline) => ~UploadPossible(s)'
      <4>1. CASE Provider = "GCS"
        BY <1>1, <1>2, <3>1, <4>1, ClosedLasts
      <4>2. CASE Provider # "GCS"
        BY <1>2, <4>2 DEF SessionInv, UploadPossible
      <4> QED BY <4>1, <4>2
    <3>4. row.pc # "revoking" \/ ~row.link => ~CanFinalize(s)'
      BY <1>1, <1>2, <3>1, ErasedLasts
    <3>5. row.pc = "closing" => ~HasBytes(s)'
      BY <1>1, <1>2, <3>1, ErasedLasts
    <3> QED BY <1>0, <1>3, <3>1, <3>2, <3>3, <3>4, <3>5 DEF EraserKnows, Opening, UploadPossible,
                 CanFinalize, HasBytes
  <2> QED BY <2>1, <2>2
<1> QED BY <1>0, <1>1, <1>3, <1>4, <1>5, <1>6, <1>7, <1>8, <1>9 DEF WorkerKnows
-----------------------------------------------------------------------------
(* What a process remembers is true when it has acted. *)

LEMMA PlainKnows ==
  ASSUME NEW w \in Workers,
         \/ worker'[w].pc = "idle"
         \/ /\ worker'[w].pc \in {"opening", "opened", "reading", "transient", "final"}
            /\ worker'[w].s \in Sessions /\ session'[worker'[w].s].state # "NONE"
  PROVE WorkerKnows(w)'
BY DEF WorkerKnows, SweepKnows, EraserKnows, Erasers

LEMMA DeletingKnows ==
  ASSUME NEW w \in Workers, NEW s \in Sessions,
         worker'[w].pc = "deleting" /\ worker'[w].s = s /\ session'[s].state # "NONE",
         s \in asked' \/ session'[s].state \in Over \/ session'[s].deleted
  PROVE WorkerKnows(w)'
BY DEF WorkerKnows, SweepKnows, EraserKnows, Erasers

LEMMA StepTo ==
  ASSUME TypeOK, NEW w \in Workers, NEW row, Step(w, row)
  PROVE worker'[w] = row
BY DEF TypeOK, Step

LEMMA MoveTo ==
  ASSUME TypeOK, NEW w \in Workers, NEW pc, Moves(w, pc)
  PROVE /\ worker'[w].pc = pc /\ worker'[w].s = worker[w].s
        /\ worker'[w].link = worker[w].link /\ worker'[w].deadline = worker[w].deadline
BY DEF TypeOK, WorkerRow, Moves

LEMMA BeginKnows ==
  ASSUME UploadInv, NEW w \in Workers,
         \/ \E s \in Sessions : Begin(w, s)
         \/ Open(w) \/ OpenFails(w) \/ RecordOpened(w)
  PROVE WorkerKnows(w)'
<1>1. TypeOK /\ session \in [Sessions -> SessionRow]
  BY DEF UploadInv, TypeOK
<1>2. ASSUME NEW s \in Sessions, Begin(w, s) PROVE WorkerKnows(w)'
  <2>1. worker'[w] = At("opening", s)
    BY <1>1, <1>2, StepTo DEF Begin
  <2>2. session'[s].state = "INITIALIZING"
    BY <1>1, <1>2 DEF Begin, SessionRow
  <2> QED BY <2>1, <2>2, PlainKnows DEF At, Idle
<1>3. ASSUME worker[w].pc \in Openers, worker'[w].pc = "aborting", worker'[w].s = worker[w].s,
             session'[worker[w].s].state = session[worker[w].s].state
      PROVE WorkerKnows(w)'
  <2>1. PICK s : s = worker[w].s
    OBVIOUS
  <2>2. s \in Sessions /\ session[s].state \in Unstarted
    BY <1>3, <2>1, WorkingOn DEF UploadInv, SessionInv, Opening, Openers
  <2> QED BY <1>3, <2>1, <2>2 DEF WorkerKnows, SweepKnows, EraserKnows, Erasers, Unstarted
<1>4. CASE Open(w) \/ OpenFails(w)
  <2>1. worker[w].pc = "opening" /\ session' = session
    BY <1>4 DEF Open, OpenFails
  <2>2. worker[w].s \in Sessions /\ session[worker[w].s].state # "NONE"
    BY <2>1, WorkingOn
  <2>3. worker'[w].s = worker[w].s /\ worker'[w].pc \in {"opened", "aborting"}
    BY <1>1, <1>4, MoveTo DEF Open, OpenFails
  <2> QED BY <1>3, <2>1, <2>2, <2>3, PlainKnows DEF Openers
<1>5. CASE RecordOpened(w)
  <2>1. worker[w].pc = "opened" /\ worker[w].s \in Sessions
    BY <1>5, WorkingOn DEF RecordOpened
  <2>2. CASE Step(w, Idle)
    BY <1>1, <2>2, StepTo, PlainKnows DEF Idle
  <2> DEFINE linked == [session[worker[w].s] EXCEPT !.link = (Provider = "GCS")]
  <2>3. linked.state = session[worker[w].s].state
    BY <1>1, <2>1 DEF SessionRow
  <2>4. \/ Step(w, Idle)
        \/ Moves(w, "aborting") /\ session' = [session EXCEPT ![worker[w].s] = linked]
    BY <1>5 DEF RecordOpened
  <2> HIDE DEF linked
  <2>5. CASE Moves(w, "aborting") /\ session' = [session EXCEPT ![worker[w].s] = linked]
    <3>1. worker'[w].pc = "aborting" /\ worker'[w].s = worker[w].s
      BY <1>1, <2>5, MoveTo
    <3>2. session'[worker[w].s].state = session[worker[w].s].state
      BY <1>1, <2>1, <2>3, <2>5
    <3> QED BY <1>3, <2>1, <3>1, <3>2 DEF Openers
  <2> QED BY <2>2, <2>4, <2>5
<1> QED BY <1>2, <1>4, <1>5

LEMMA SweepersKnow ==
  ASSUME UploadInv, NEW w \in Workers,
         \/ \E s \in Sessions : List(w, s)
         \/ SweepRevokes(w) \/ SweepPurges(w) \/ Abort(w)
  PROVE WorkerKnows(w)'
<1>1. TypeOK /\ session \in [Sessions -> SessionRow]
  BY DEF UploadInv, TypeOK
<1>2. ASSUME NEW s \in Sessions, List(w, s) PROVE WorkerKnows(w)'
  <2> DEFINE row == [At("listed", s) EXCEPT !.seen = session[s].state, !.sweep = TRUE,
                       !.gone = (session[s].deleted \/ ~Owner(s).active)]
  <2>1. worker'[w] = row /\ session[s].state \in Pending
    BY <1>1, <1>2, StepTo DEF List
  <2>2. /\ row.pc = "listed" /\ row.s = s /\ row.seen = session[s].state
        /\ row.gone = (session[s].deleted \/ ~Owner(s).active)
    BY DEF At, Idle
  <2>3. UNCHANGED <<session, owner, clock>>
    BY <1>2 DEF List
  <2>4. \/ session[s].state \in {"VERIFYING", "PURGING"}
        \/ session[s].deleted \/ clock[s].expired \/ ~Owner(s).active
    BY <1>2 DEF List
  <2> HIDE DEF row
  <2>5. SweepKnows(w)'
    BY <2>1, <2>2, <2>3, <2>4 DEF SweepKnows, Owner, Pending, Over
  <2>6. EraserKnows(w)'
    BY <2>1, <2>2 DEF EraserKnows, Erasers
  <2> QED BY <2>1, <2>2, <2>3, <2>5, <2>6 DEF WorkerKnows, Pending
<1>3. CASE SweepRevokes(w) \/ Abort(w)
  <2>1. PICK s : s = worker[w].s
    OBVIOUS
  <2>2. s \in Sessions
    BY <1>3, <2>1, WorkingOn DEF SweepRevokes, Abort
  <2>3. session'[s].state = "PURGING"
    BY ZenonT(40), <1>1, <1>3, <2>1, <2>2 DEF SweepRevokes, Abort, Purging, SessionRow
  <2>4. worker'[w].pc = "deleting" /\ worker'[w].s = s
    <3>1. Step(w, Deleting(s, TRUE)) \/ Step(w, Deleting(s, FALSE))
      BY <1>3, <2>1 DEF SweepRevokes, Abort
    <3>2. worker'[w] = Deleting(s, TRUE) \/ worker'[w] = Deleting(s, FALSE)
      BY <1>1, <3>1, StepTo
    <3> QED BY <3>2 DEF Deleting, At, Idle
  <2> QED BY <2>2, <2>3, <2>4, DeletingKnows DEF Over
<1>4. CASE SweepPurges(w)
  <2>1. PICK s : s = worker[w].s
    OBVIOUS
  <2>2. s \in Sessions /\ session[s].state \in Over
    BY <1>4, <2>1, WorkingOn DEF SweepPurges, UploadInv, WorkerKnows, SweepKnows
  <2>3. worker'[w].pc = "deleting" /\ worker'[w].s = s /\ session' = session
    BY <1>1, <1>4, <2>1, StepTo DEF SweepPurges, Deleting, At, Idle
  <2> QED BY <2>2, <2>3, DeletingKnows DEF Over
<1> QED BY <1>2, <1>3, <1>4

LEMMA VerifiersKnow ==
  ASSUME UploadInv, NEW w \in Workers,
         \/ Claim(w) \/ ClaimExhausted(w) \/ ClaimRefused(w) \/ Read(w)
         \/ Publish(w) \/ PublishRefused(w) \/ Settle(w)
  PROVE WorkerKnows(w)'
<1>1. TypeOK /\ session \in [Sessions -> SessionRow]
  BY DEF UploadInv, TypeOK
<1>2. CASE Step(w, Idle)
  BY <1>1, <1>2, StepTo, PlainKnows DEF Idle
<1>3. PICK s : s = worker[w].s
  OBVIOUS
<1>4. s \in Sessions /\ session[s].state # "NONE"
  BY <1>3, WorkingOn
     DEF Claim, ClaimExhausted, ClaimRefused, Verifying, Read, Publish, PublishRefused, Settle
<1>5. CASE Claim(w)
  <2>1. worker'[w].pc = "reading" /\ worker'[w].s = s
    BY <1>1, <1>3, <1>5, StepTo DEF Claim, At, Idle
  <2>2. session'[s].state # "NONE"
    BY <1>1, <1>3, <1>4, <1>5 DEF Claim, SessionRow
  <2> QED BY <1>4, <2>1, <2>2, PlainKnows
<1>6. CASE Read(w)
  <2>1. worker'[w].s = s /\ worker'[w].pc \in {"matched", "transient", "final"}
    BY <1>1, <1>3, <1>6, MoveTo DEF Read
  <2>2. worker'[w].pc = "matched" => Matches(s)
    <3>1. Matches(s) \/ Moves(w, "transient") \/ Moves(w, "final")
      BY <1>3, <1>6 DEF Read
    <3> QED BY <1>1, <3>1, MoveTo
  <2>3. UNCHANGED <<session, store>>
    BY <1>6 DEF Read
  <2>4. CASE worker'[w].pc = "matched"
    BY <1>4, <2>1, <2>2, <2>3, <2>4
       DEF WorkerKnows, SweepKnows, EraserKnows, Erasers, Matches
  <2>5. CASE worker'[w].pc # "matched"
    BY <1>4, <2>1, <2>3, <2>5, PlainKnows
  <2> QED BY <2>4, <2>5
<1>7. CASE PublishRefused(w)
  <2>1. worker'[w].s = s /\ worker'[w].pc \in {"transient", "final"} /\ session' = session
    BY <1>1, <1>3, <1>7, MoveTo DEF PublishRefused
  <2> QED BY <1>4, <2>1, PlainKnows
<1>8. CASE /\ session' = [session EXCEPT ![worker[w].s] = Purging(@)]
           /\ Step(w, Deleting(worker[w].s, FALSE))
  <2>1. session'[s].state = "PURGING"
    BY <1>1, <1>3, <1>4, <1>8 DEF Purging, SessionRow
  <2>2. worker'[w].pc = "deleting" /\ worker'[w].s = s
    BY <1>1, <1>3, <1>8, StepTo DEF Deleting, At, Idle
  <2> QED BY <1>4, <2>1, <2>2, DeletingKnows DEF Over
<1>9. CASE ClaimExhausted(w) \/ ClaimRefused(w) \/ Publish(w)
  BY <1>2, <1>9 DEF ClaimExhausted, ClaimRefused, Publish
<1>10. CASE Settle(w)
  BY <1>2, <1>8, <1>10 DEF Settle
<1> QED BY <1>5, <1>6, <1>7, <1>9, <1>10

LEMMA RequestersKnow ==
  ASSUME UploadInv, NEW w \in Workers, NEW s \in Sessions,
         Cancel(w, s) \/ DeleteEvidence(w, s) \/ PurgeTombstone(w, s)
  PROVE WorkerKnows(w)'
<1>1. TypeOK /\ session \in [Sessions -> SessionRow]
  BY DEF UploadInv, TypeOK
<1>2. worker'[w].pc = "deleting" /\ worker'[w].s = s
  <2>1. worker'[w] = Deleting(s, FALSE)
    BY <1>1, StepTo DEF Cancel, DeleteEvidence, PurgeTombstone
  <2> QED BY <2>1 DEF Deleting, At, Idle
<1>3. CASE Cancel(w, s)
  <2>1. session'[s].state = "PURGING"
    BY <1>1, <1>3 DEF Cancel, Purging, SessionRow
  <2> QED BY <1>2, <2>1, DeletingKnows DEF Over
<1>4. CASE DeleteEvidence(w, s)
  BY <1>2, <1>4, DeletingKnows DEF DeleteEvidence
<1>5. CASE PurgeTombstone(w, s)
  <2>1. session'[s].deleted /\ session'[s].state # "NONE"
    BY <1>5 DEF UploadInv, SessionInv, PurgeTombstone
  <2> QED BY <1>2, <2>1, DeletingKnows
<1> QED BY <1>3, <1>4, <1>5
LEMMA ErasersKnow ==
  ASSUME UploadInv, NEW w \in Workers,
         \/ DeleteCommits(w) \/ CancelUpload(w) \/ SweepPrefix(w)
         \/ DeletePends(w) \/ DeleteFails(w) \/ RecordPurge(w) \/ RecordCancelled(w)
  PROVE WorkerKnows(w)'
<1>1. /\ TypeOK /\ session \in [Sessions -> SessionRow] /\ worker[w] \in WorkerRow
      /\ store \in [Sessions -> [object : {"absent", "empty", "part", "good", "bad"},
                                 capability : {"none", "minted", "handed", "closed"}]]
  BY DEF UploadInv, TypeOK
<1>2. PICK s : s = worker[w].s
  OBVIOUS
<1>3. s \in Sessions /\ session[s].state # "NONE" /\ SessionInv(s) /\ EraserKnows(w)
  BY <1>2, WorkingOn DEF DeleteCommits, CancelUpload, SweepPrefix, DeletePends, DeleteFails,
     RecordPurge, RecordCancelled, UploadInv, WorkerKnows
<1>4. CASE DeletePends(w) \/ DeleteFails(w) \/ RecordCancelled(w)
  BY <1>1, <1>4, StepTo, PlainKnows
     DEF DeletePends, DeleteFails, FailedDelete, RecordCancelled, Idle
<1>5. CASE RecordPurge(w)
  <2>1. worker'[w].pc = "closed" /\ worker'[w].s = s
    BY <1>1, <1>2, <1>5, MoveTo DEF RecordPurge
  <2>2. session'[s].purged /\ session'[s].state # "NONE"
    BY <1>1, <1>2, <1>3, <1>5 DEF RecordPurge, SessionRow
  <2> QED BY <1>3, <2>1, <2>2 DEF WorkerKnows, SweepKnows, EraserKnows, Erasers
<1>6. CASE DeleteCommits(w)
  <2>1. PICK row : row = worker'[w]
    OBVIOUS
  <2>2. /\ row.pc = "revoking" /\ row.s = s
        /\ row.link = session[s].link /\ row.deadline = session[s].deadline
    <3> DEFINE next == [worker[w] EXCEPT !.pc = "revoking", !.link = session[s].link,
                                         !.deadline = session[s].deadline]
    <3>1. worker'[w] = next
      BY <1>1, <1>2, <1>6, StepTo DEF DeleteCommits
    <3> QED BY <1>1, <1>2, <2>1, <3>1 DEF WorkerRow
  <2>3. session'[s].deleted /\ session'[s].state # "NONE"
    BY <1>1, <1>2, <1>3, <1>6 DEF DeleteCommits, Deleted, SessionRow
  <2>4. store'[s] = store[s] /\ clock'[s] = clock[s]
    BY <1>6 DEF DeleteCommits
  <2>5. Provider = "GCS" /\ (row.link \/ ~row.deadline) => ~Opening(s)'
    <3>1. Provider = "GCS" /\ (row.link \/ ~row.deadline) => ~Opening(s)
      BY <1>3, <2>2 DEF SessionInv
    <3>2. StillOpening(s)
      BY <1>1, <1>2, <1>3, <1>6, <2>1, <2>2 DEF StillOpening, Opening, DeleteCommits, Step, Openers,
         TypeOK
    <3> QED BY <3>1, <3>2 DEF StillOpening, Opening
  <2>6. ~row.link /\ ~row.deadline => ~UploadPossible(s)'
    BY <1>3, <2>2, <2>4 DEF SessionInv, UploadPossible
  <2>7. ~row.link => ~CanFinalize(s)'
    BY <1>3, <2>2, <2>4 DEF SessionInv, CanFinalize
  <2>8. EraserKnows(w)'
    BY <2>1, <2>2, <2>3, <2>5, <2>6, <2>7
       DEF EraserKnows, Erasers, Opening, UploadPossible, CanFinalize, HasBytes
  <2> QED BY <1>3, <2>1, <2>2, <2>3, <2>8 DEF WorkerKnows, SweepKnows
<1>7. CASE CancelUpload(w) \/ SweepPrefix(w)
  <2>1. PICK row : row = worker'[w]
    OBVIOUS
  <2>2. /\ row.pc = IF CancelUpload(w) THEN "sweeping" ELSE "closing"
        /\ row.s = s /\ row.link = worker[w].link /\ row.deadline = worker[w].deadline
    BY <1>1, <1>2, <1>7, <2>1, MoveTo DEF CancelUpload, SweepPrefix
  <2>3. /\ session[s].deleted
        /\ Provider = "GCS" /\ (row.link \/ ~row.deadline) => ~Opening(s)
        /\ (IF row.link THEN worker[w].pc # "revoking" ELSE ~row.deadline) => ~UploadPossible(s)
        /\ worker[w].pc # "revoking" \/ ~row.link => ~CanFinalize(s)
    BY <1>2, <1>3, <1>7, <2>2 DEF EraserKnows, Erasers, CancelUpload, SweepPrefix
  <2>4. UNCHANGED <<session, clock>>
    BY <1>7 DEF CancelUpload, SweepPrefix
  <2>5. ~Opening(s) => ~Opening(s)'
    <3>1. StillOpening(s)
      BY <1>1, <1>3, <1>7, StillMoves DEF CancelUpload, SweepPrefix, Openers
    <3> QED BY <3>1 DEF StillOpening, Opening
  <2>6. store'[s].capability = store[s].capability \/ store'[s].capability = "closed"
    BY <1>1, <1>2, <1>3, <1>7 DEF CancelUpload, SweepPrefix
  <2>7. CASE CancelUpload(w)
    <3>1. worker[w].pc = "revoking" /\ (row.link => store'[s].capability = "closed")
      BY <1>1, <1>2, <1>3, <2>2, <2>7 DEF CancelUpload
    <3>2. EraserKnows(w)'
      BY <2>1, <2>2, <2>3, <2>4, <2>5, <2>6, <2>7, <3>1
         DEF EraserKnows, Erasers, Opening, UploadPossible, CanFinalize, HasBytes
    <3> QED BY <1>3, <2>1, <2>2, <2>4, <2>7, <3>2 DEF WorkerKnows, SweepKnows
  <2>8. CASE SweepPrefix(w)
    <3>1. worker[w].pc = "sweeping" /\ ~CancelUpload(w) /\ store'[s].object = "absent"
      BY <1>1, <1>2, <1>3, <2>8 DEF SweepPrefix, CancelUpload
    <3>2. EraserKnows(w)'
      BY <2>1, <2>2, <2>3, <2>4, <2>5, <2>6, <3>1
         DEF EraserKnows, Erasers, Opening, UploadPossible, CanFinalize, HasBytes
    <3> QED BY <1>3, <2>1, <2>2, <2>4, <3>1, <3>2 DEF WorkerKnows, SweepKnows
  <2> QED BY <1>7, <2>7, <2>8
<1> QED BY <1>4, <1>5, <1>6, <1>7

LEMMA EveryoneKnows ==
  ASSUME UploadInv, [Next]_vars, NEW w \in Workers
  PROVE WorkerKnows(w)'
<1>1. TypeOK
  BY DEF UploadInv
<1>2. CASE Crash(w)
  BY <1>1, <1>2, StepTo, PlainKnows DEF Crash, Idle
<1>3. CASE Acts(w) /\ ~Crash(w)
  BY <1>3, BeginKnows, SweepersKnow, VerifiersKnow, RequestersKnow, ErasersKnow DEF Acts, Proceed
<1> QED BY <1>1, <1>2, <1>3, Movers, RemembersStill
-----------------------------------------------------------------------------
(* The other parts of the invariant. *)

LEMMA BeginnersJoin ==
  ASSUME UploadInv, NEW w \in Workers, Acts(w), worker'[w].pc \in Beginners
  PROVE \/ worker[w].pc \in Beginners /\ worker'[w].s = worker[w].s
        \/ session[worker'[w].s].state = "NONE"
<1>1. TypeOK
  BY DEF UploadInv
<1>2. ASSUME NEW row, Step(w, row), row.pc \notin Beginners PROVE FALSE
  BY <1>1, <1>2, StepTo
<1>3. CASE Open(w) \/ OpenFails(w) \/ RecordOpened(w)
  BY <1>1, <1>2, <1>3, MoveTo DEF Open, OpenFails, RecordOpened, Beginners, Openers, Idle
<1>4. CASE \E s \in Sessions : Begin(w, s)
  BY ZenonT(40), <1>1, <1>4, StepTo DEF Begin, At, Idle
<1>5. CASE \/ Read(w) \/ PublishRefused(w) \/ CancelUpload(w) \/ SweepPrefix(w) \/ RecordPurge(w)
  BY <1>1, <1>5, MoveTo
     DEF Read, PublishRefused, CancelUpload, SweepPrefix, RecordPurge, Beginners, Openers
<1>6. CASE \/ Claim(w) \/ ClaimExhausted(w) \/ ClaimRefused(w) \/ Publish(w) \/ Settle(w)
           \/ DeletePends(w) \/ DeleteFails(w) \/ RecordCancelled(w) \/ Crash(w)
  BY <1>2, <1>6
     DEF Claim, ClaimExhausted, ClaimRefused, Publish, Settle, DeletePends, DeleteFails,
         FailedDelete, RecordCancelled, Crash, Deleting, At, Idle, Beginners, Openers
<1>7. CASE Abort(w) \/ SweepRevokes(w) \/ SweepPurges(w)
  BY <1>2, <1>7 DEF Abort, SweepRevokes, SweepPurges, Deleting, At, Idle, Beginners, Openers
<1>8. CASE DeleteCommits(w)
  <2> DEFINE next == [worker[w] EXCEPT !.pc = "revoking", !.link = session[worker[w].s].link,
                                       !.deadline = session[worker[w].s].deadline]
  <2>1. worker[w] \in WorkerRow /\ Step(w, next)
    BY <1>1, <1>8 DEF TypeOK, DeleteCommits
  <2>2. next.pc = "revoking"
    BY <2>1 DEF WorkerRow
  <2> QED BY <1>2, <2>1, <2>2 DEF Beginners, Openers
<1>9. ASSUME NEW s \in Sessions,
             List(w, s) \/ Cancel(w, s) \/ DeleteEvidence(w, s) \/ PurgeTombstone(w, s)
      PROVE FALSE
  BY <1>2, <1>9
     DEF List, Cancel, DeleteEvidence, PurgeTombstone, Deleting, At, Idle, Beginners, Openers
<1> QED BY <1>3, <1>4, <1>5, <1>6, <1>7, <1>8, <1>9 DEF Acts, Proceed

LEMMA BeginnersStayDistinct ==
  ASSUME UploadInv, [Next]_vars PROVE BeginnersDistinct'
<1> SUFFICES ASSUME NEW v \in Workers, NEW w \in Workers, v # w, worker'[v] = worker[v],
                    worker'[v].pc \in Beginners, worker'[w].pc \in Beginners,
                    worker'[v].s = worker'[w].s
             PROVE FALSE
  <2>1. \A v, w \in Workers : v # w => worker'[v] = worker[v] \/ worker'[w] = worker[w]
    BY Movers, ActsAlone DEF UploadInv
  <2> QED BY <2>1 DEF BeginnersDistinct
<1>1. session[worker[v].s].state # "NONE"
  BY WorkingOn DEF Beginners, Openers
<1>2. worker[w].pc \in Beginners /\ worker[w].s = worker[v].s
  BY <1>1, Movers, BeginnersJoin DEF UploadInv
<1> QED BY <1>2 DEF UploadInv, BeginnersDistinct

LEMMA DeletedOwnersStayAsked ==
  ASSUME UploadInv, [Next]_vars PROVE DeletedOwnersAsked'
<1>1. DeletedOwnersAsked /\ TypeOK /\ asked \subseteq asked'
  BY AskedLasts DEF UploadInv
<1>2. ASSUME NEW p \in Owners, DeleteAccount(p) PROVE DeletedOwnersAsked'
  <2> SUFFICES ASSUME NEW o \in Owners, ~owner'[o].active PROVE SessionsOf(o) \subseteq asked'
    BY DEF DeletedOwnersAsked, SessionsOf
  <2>1. CASE o = p
    BY <1>2, <2>1 DEF DeleteAccount
  <2>2. CASE o # p
    <3>1. ~owner[o].active
      BY <1>1, <1>2, <2>2 DEF DeleteAccount, TypeOK
    <3> QED BY <1>1, <3>1 DEF DeletedOwnersAsked
  <2> QED BY <2>1, <2>2
<1>3. ASSUME NEW p \in Owners, WithdrawProcessing(p) \/ GrantProcessing(p)
      PROVE DeletedOwnersAsked'
  <2> SUFFICES ASSUME NEW o \in Owners, ~owner'[o].active PROVE SessionsOf(o) \subseteq asked'
    BY DEF DeletedOwnersAsked, SessionsOf
  <2>1. ~owner[o].active
    BY <1>1, <1>3 DEF WithdrawProcessing, GrantProcessing, TypeOK
  <2> QED BY <1>1, <2>1 DEF DeletedOwnersAsked
<1>4. CASE UNCHANGED owner
  BY <1>1, <1>4 DEF DeletedOwnersAsked, SessionsOf
<1> QED BY <1>2, <1>3, <1>4, OwnerSteps

(* Only a reservation adds a session to the transfers, and to what its      *)
(* owner stores.                                                            *)
LEMMA TransfersEnd ==
  ASSUME NEW s \in Sessions, SessionInv(s), OtherTurn(s)
  PROVE /\ session'[s].state \in {"INITIALIZING", "UPLOADING", "VERIFYING"} =>
             session[s].state \in {"INITIALIZING", "UPLOADING", "VERIFYING"}
        /\ session'[s].state # "NONE" /\ ~session'[s].purged =>
             session[s].state # "NONE" /\ ~session[s].purged
BY DEF OtherTurn, SessionInv, Pending, Opening, Unstarted, Rests, Opens, Receives, Purges,
       Writes, Finalizes, Completes, Publishes, Deletes, Closes, Sweeps, Erases, Cancels, Tombs,
       Withdraws, Expires, Ends, RowKept, RestKept

(* Begin reserves one session.                                              *)
LEMMA OneReserves ==
  ASSUME UploadInv, [Next]_vars
  PROVE \/ \A s \in Sessions : OtherTurn(s)
        \/ \E x \in Sessions : Admitted(x) /\ \A s \in Sessions \ {x} : OtherTurn(s)
<1>1. CASE \E w \in Workers, x \in Sessions : Begin(w, x)
  <2>1. PICK w \in Workers, x \in Sessions : Begin(w, x)
    BY <1>1
  <2>2. \A s \in Sessions \ {x} : OtherTurn(s)
    BY <2>1, BeginTurns DEF OtherTurn
  <2> QED BY <2>1, <2>2 DEF Begin
<1>2. CASE ~\E w \in Workers, x \in Sessions : Begin(w, x)
  BY <1>2, StepTurns
<1> QED BY <1>1, <1>2

LEMMA AddingOne ==
  ASSUME NEW S, NEW T, NEW x, IsFiniteSet(S), T \subseteq S \cup {x}
  PROVE Cardinality(S) \in Nat /\ Cardinality(T) \in Nat /\ Cardinality(T) <= Cardinality(S) + 1
<1>1. IsFiniteSet(S \cup {x}) /\ Cardinality(S) \in Nat
      /\ Cardinality(S \cup {x}) = IF x \in S THEN Cardinality(S) ELSE Cardinality(S) + 1
  BY FS_AddElement, FS_CardinalityType
<1>2. Cardinality(T) <= Cardinality(S \cup {x}) /\ IsFiniteSet(T)
  BY <1>1, FS_Subset
<1> QED BY <1>1, <1>2, FS_CardinalityType

LEMMA SlotsStayRespected ==
  ASSUME UploadInv, [Next]_vars PROVE SlotsRespected'
<1>1. /\ \A s \in Sessions : SessionInv(s)
      /\ Transferring \subseteq Sessions /\ Transferring' \subseteq Sessions
      /\ IsFiniteSet(Sessions) /\ UploadSlots \in Nat
  BY UploadAssumption DEF UploadInv, Transferring
<1>2. IsFiniteSet(Transferring) /\ IsFiniteSet(PendingSessions)
  BY <1>1, FS_Subset DEF PendingSessions
<1>3. CASE \A s \in Sessions : OtherTurn(s)
  <2>1. Transferring' \subseteq Transferring
    BY <1>1, <1>3, TransfersEnd DEF Transferring
  <2>2. Cardinality(Transferring') <= Cardinality(Transferring)
    BY <1>2, <2>1, FS_Subset
  <2>3. Cardinality(Transferring) \in Nat /\ Cardinality(Transferring') \in Nat
    BY <1>1, <1>2, FS_Subset, FS_CardinalityType
  <2> QED BY <1>1, <2>1, <2>2, <2>3 DEF UploadInv, SlotsRespected
<1>4. CASE \E x \in Sessions : Admitted(x) /\ \A s \in Sessions \ {x} : OtherTurn(s)
  <2>1. PICK x \in Sessions : Admitted(x) /\ \A s \in Sessions \ {x} : OtherTurn(s)
    BY <1>4
  <2>2. Transferring \subseteq PendingSessions
    BY DEF Transferring, PendingSessions, Pending
  <2>3. Transferring' \subseteq Transferring \cup {x}
    BY <1>1, <2>1, TransfersEnd DEF Transferring
  <2>4. Cardinality(Transferring') <= UploadSlots
    <3>1. Cardinality(PendingSessions) < UploadSlots
      BY <2>1 DEF Admitted
    <3>2. Transferring' \subseteq PendingSessions \cup {x}
      BY <2>2, <2>3
    <3>3. PICK T : T = Transferring'
      OBVIOUS
    <3>4. /\ Cardinality(PendingSessions) \in Nat /\ Cardinality(T) \in Nat
          /\ Cardinality(T) <= Cardinality(PendingSessions) + 1
      BY <1>2, <3>2, <3>3, AddingOne
    <3> QED BY <1>1, <3>1, <3>3, <3>4
  <2>5. \A s \in Transferring : OwnerOf[s] # OwnerOf[x]
    <3>1. PendingSessions \cap SessionsOf(OwnerOf[x]) = {}
      BY <2>1 DEF Admitted
    <3> QED BY <1>1, <2>2, <3>1 DEF SessionsOf
  <2>6. \A s, t \in Transferring' : OwnerOf[s] = OwnerOf[t] => s = t
    BY <2>3, <2>5 DEF UploadInv, SlotsRespected
  <2> QED BY <2>4, <2>6 DEF SlotsRespected
<1> QED BY <1>3, <1>4, OneReserves

LEMMA QuotaStaysReserved ==
  ASSUME UploadInv, [Next]_vars PROVE QuotaReserved'
<1> SUFFICES ASSUME NEW o \in Owners PROVE Cardinality(Unpurged(o)') <= OwnerAssets
  BY DEF QuotaReserved, Unpurged, SessionsOf
<1>1. /\ \A s \in Sessions : SessionInv(s)
      /\ IsFiniteSet(Sessions) /\ OwnerAssets \in Nat
      /\ Unpurged(o) \subseteq Sessions /\ Cardinality(Unpurged(o)) <= OwnerAssets
  BY UploadAssumption DEF UploadInv, QuotaReserved, Unpurged, SessionsOf
<1>2. IsFiniteSet(Unpurged(o))
  BY <1>1, FS_Subset
<1>3. ASSUME Unpurged(o)' \subseteq Unpurged(o)
      PROVE Cardinality(Unpurged(o)') <= OwnerAssets
  <2>1. Cardinality(Unpurged(o)') <= Cardinality(Unpurged(o)) /\ IsFiniteSet(Unpurged(o)')
    BY <1>2, <1>3, FS_Subset
  <2>2. Cardinality(Unpurged(o)) \in Nat /\ Cardinality(Unpurged(o)') \in Nat
    BY <1>2, <2>1, FS_CardinalityType
  <2> QED BY <1>1, <2>1, <2>2
<1>4. CASE \A s \in Sessions : OtherTurn(s)
  <2>1. Unpurged(o)' \subseteq Unpurged(o)
    BY <1>1, <1>4, TransfersEnd DEF Unpurged, SessionsOf
  <2> QED BY <1>3, <2>1
<1>5. CASE \E x \in Sessions : Admitted(x) /\ \A s \in Sessions \ {x} : OtherTurn(s)
  <2>1. PICK x \in Sessions : Admitted(x) /\ \A s \in Sessions \ {x} : OtherTurn(s)
    BY <1>5
  <2>2. CASE OwnerOf[x] # o
    <3>1. Unpurged(o)' \subseteq Unpurged(o)
      BY <1>1, <2>1, <2>2, TransfersEnd DEF Unpurged, SessionsOf
    <3> QED BY <1>3, <3>1
  <2>3. CASE OwnerOf[x] = o
    <3>1. Unpurged(o)' \subseteq Unpurged(o) \cup {x}
      BY <1>1, <2>1, TransfersEnd DEF Unpurged, SessionsOf
    <3>2. Cardinality(Unpurged(o)) < OwnerAssets
      BY <2>1, <2>3 DEF Admitted
    <3>3. PICK T : T = Unpurged(o)'
      OBVIOUS
    <3>4. /\ Cardinality(Unpurged(o)) \in Nat /\ Cardinality(T) \in Nat
          /\ Cardinality(T) <= Cardinality(Unpurged(o)) + 1
      BY <1>2, <3>1, <3>3, AddingOne
    <3> QED BY <1>1, <3>2, <3>3, <3>4
  <2> QED BY <2>2, <2>3
<1> QED BY <1>4, <1>5, OneReserves
-----------------------------------------------------------------------------
(* Type correctness. *)

StoreRow == [object : {"absent", "empty", "part", "good", "bad"},
             capability : {"none", "minted", "handed", "closed"}]

LEMMA WorkerRows ==
  /\ Idle \in WorkerRow
  /\ \A s \in Sessions : /\ At("opening", s) \in WorkerRow /\ At("reading", s) \in WorkerRow
                         /\ At("listed", s) \in WorkerRow
                         /\ Deleting(s, TRUE) \in WorkerRow /\ Deleting(s, FALSE) \in WorkerRow
<1>1. Idle \in WorkerRow
  BY DEF Idle, WorkerRow, States
<1>2. \A s \in Sessions : /\ At("opening", s) \in WorkerRow /\ At("reading", s) \in WorkerRow
                          /\ At("listed", s) \in WorkerRow /\ At("deleting", s) \in WorkerRow
  BY <1>1 DEF At, WorkerRow
<1>3. \A s \in Sessions : Deleting(s, TRUE) \in WorkerRow /\ Deleting(s, FALSE) \in WorkerRow
  BY ZenonT(40), <1>2 DEF Deleting, WorkerRow
<1> QED BY <1>1, <1>2, <1>3

LEMMA SessionRows ==
  ASSUME NEW row \in SessionRow
  PROVE Purging(row) \in SessionRow /\ Deleted(row) \in SessionRow
        /\ Withdrawn(row) \in SessionRow /\ StopQueued(row) \in SessionRow
<1>1. Purging(row) \in SessionRow /\ StopQueued(row) \in SessionRow
  BY DEF SessionRow, Purging, StopQueued, States, Pending
<1>2. Deleted(row) \in SessionRow
  BY DEF SessionRow, Deleted, States, Pending
<1>3. Withdrawn(row) \in SessionRow
  BY <1>1 DEF SessionRow, Withdrawn, States, Pending
<1> QED BY <1>1, <1>2, <1>3

LEMMA WorkersTyped ==
  ASSUME UploadInv, [Next]_vars PROVE worker' \in [Workers -> WorkerRow]
<1>1. TypeOK /\ worker \in [Workers -> WorkerRow] /\ session \in [Sessions -> SessionRow]
  BY DEF UploadInv, TypeOK
<1>2. ASSUME NEW w \in Workers, NEW row \in WorkerRow, Step(w, row)
      PROVE worker' \in [Workers -> WorkerRow]
  BY <1>1, <1>2 DEF Step
<1>3. ASSUME NEW w \in Workers, Moves(w, "opened") \/ Moves(w, "aborting") \/ Moves(w, "matched")
               \/ Moves(w, "transient") \/ Moves(w, "final") \/ Moves(w, "sweeping")
               \/ Moves(w, "closing") \/ Moves(w, "closed")
      PROVE worker' \in [Workers -> WorkerRow]
  BY <1>1, <1>3 DEF Moves, WorkerRow
<1>4. ASSUME NEW w \in Workers,
             \/ Open(w) \/ OpenFails(w) \/ RecordOpened(w) \/ Read(w) \/ PublishRefused(w)
             \/ CancelUpload(w) \/ SweepPrefix(w) \/ RecordPurge(w) \/ Publish(w)
             \/ DeletePends(w) \/ DeleteFails(w) \/ RecordCancelled(w) \/ Crash(w)
             \/ ClaimExhausted(w) \/ ClaimRefused(w)
      PROVE worker' \in [Workers -> WorkerRow]
  <2>1. CASE Open(w) \/ OpenFails(w)
    BY <1>3, <2>1 DEF Open, OpenFails
  <2>2. CASE RecordOpened(w) \/ Publish(w) \/ FailedDelete(w) \/ RecordCancelled(w) \/ Crash(w)
    BY <1>2, <1>3, <2>2, WorkerRows
       DEF RecordOpened, Publish, FailedDelete, RecordCancelled, Crash
  <2>3. CASE ClaimExhausted(w) \/ ClaimRefused(w)
    BY <1>2, <2>3, WorkerRows DEF ClaimExhausted, ClaimRefused
  <2>4. CASE Read(w) \/ PublishRefused(w)
    BY <1>3, <2>4 DEF Read, PublishRefused
  <2>5. CASE CancelUpload(w) \/ SweepPrefix(w) \/ RecordPurge(w)
    BY <1>3, <2>5 DEF CancelUpload, SweepPrefix, RecordPurge
  <2> QED BY <1>4, <2>1, <2>2, <2>3, <2>4, <2>5 DEF DeletePends, DeleteFails
<1>5. ASSUME NEW w \in Workers,
             Abort(w) \/ SweepRevokes(w) \/ SweepPurges(w) \/ Claim(w) \/ Settle(w)
      PROVE worker' \in [Workers -> WorkerRow]
  <2>1. worker[w].s \in Sessions
    BY <1>5, WorkingOn DEF Abort, SweepRevokes, SweepPurges, Claim, Verifying, Settle
  <2>2. \E row \in WorkerRow : Step(w, row)
    BY <1>5, <2>1, WorkerRows DEF Abort, SweepRevokes, SweepPurges, Claim, Settle
  <2> QED BY <1>2, <2>2
<1>6. ASSUME NEW w \in Workers, DeleteCommits(w) PROVE worker' \in [Workers -> WorkerRow]
  <2>1. worker[w].s \in Sessions
    BY <1>6, WorkingOn DEF DeleteCommits
  <2> DEFINE next == [worker[w] EXCEPT !.pc = "revoking", !.link = session[worker[w].s].link,
                                       !.deadline = session[worker[w].s].deadline]
  <2>2. next \in WorkerRow
    <3>1. session[worker[w].s].link \in BOOLEAN /\ session[worker[w].s].deadline \in BOOLEAN
      BY <1>1, <2>1 DEF SessionRow
    <3>2. worker[w] \in WorkerRow
      BY <1>1
    <3> QED BY <3>1, <3>2 DEF WorkerRow
  <2>3. Step(w, next)
    BY <1>6 DEF DeleteCommits
  <2> QED BY <1>2, <2>2, <2>3
<1>7. ASSUME NEW w \in Workers, NEW s \in Sessions,
             \/ Begin(w, s) \/ Cancel(w, s) \/ DeleteEvidence(w, s) \/ PurgeTombstone(w, s)
      PROVE worker' \in [Workers -> WorkerRow]
  BY <1>2, <1>7, WorkerRows DEF Begin, Cancel, DeleteEvidence, PurgeTombstone
<1>8. ASSUME NEW w \in Workers, NEW s \in Sessions, List(w, s)
      PROVE worker' \in [Workers -> WorkerRow]
  <2> DEFINE gone == session[s].deleted \/ ~Owner(s).active
             next == [At("listed", s) EXCEPT !.seen = session[s].state, !.sweep = TRUE,
                        !.gone = gone]
  <2>1. gone \in BOOLEAN /\ session[s].state \in States
    BY <1>1 DEF SessionRow
  <2>2. Step(w, next)
    BY <1>8 DEF List
  <2> HIDE DEF gone
  <2>3. next \in WorkerRow
    BY ZenonT(40), <2>1, WorkerRows DEF WorkerRow
  <2> QED BY <1>2, <2>2, <2>3
<1>9. CASE UNCHANGED worker
  BY <1>1, <1>9
<1>10. worker' = worker \/ \E w \in Workers : Acts(w)
  <2>1. CASE UNCHANGED vars
    BY <2>1 DEF vars
  <2>2. ASSUME NEW s \in Sessions,
               \/ \E object \in {"part", "good", "bad"} : WriteChunk(s, object)
               \/ \E object \in {"good", "bad"} : ClientFinalizes(s, object)
               \/ RequestCompletion(s) \/ Elapse(s)
        PROVE worker' = worker
    BY <2>2 DEF WriteChunk, ClientFinalizes, RequestCompletion, Elapse, SessionExpires,
         CapabilityEnds, LeaseLapses, DelayEnds
  <2>3. ASSUME NEW o \in Owners, DeleteAccount(o) \/ WithdrawProcessing(o) \/ GrantProcessing(o)
        PROVE worker' = worker
    BY <2>3 DEF DeleteAccount, WithdrawProcessing, GrantProcessing
  <2> QED BY <2>1, <2>2, <2>3 DEF Next, Acts
<1> QED BY <1>4, <1>5, <1>6, <1>7, <1>8, <1>9, <1>10 DEF Acts, Proceed

LEMMA SessionsTyped ==
  ASSUME UploadInv, [Next]_vars PROVE session' \in [Sessions -> SessionRow]
<1>1. session \in [Sessions -> SessionRow]
  BY DEF UploadInv, TypeOK
<1>2. CASE UNCHANGED session
  BY <1>1, <1>2
<1>3. ASSUME NEW s \in Sessions, NEW row \in SessionRow, session' = [session EXCEPT ![s] = row]
      PROVE session' \in [Sessions -> SessionRow]
  BY <1>1, <1>3
<1>4. ASSUME NEW w \in Workers, NEW s \in Sessions, s = worker[w].s,
             \/ RecordOpened(w) \/ Claim(w) \/ Publish(w) \/ FailedDelete(w)
             \/ ClaimRefused(w) \/ RecordPurge(w) \/ RecordCancelled(w)
      PROVE session' \in [Sessions -> SessionRow]
  <2> DEFINE row == session[s]
  <2>0. row \in SessionRow
    BY <1>1
  <2>1. CASE RecordOpened(w)
    <3> DEFINE linked == [row EXCEPT !.link = (Provider = "GCS")]
               started == [linked EXCEPT !.state = "UPLOADING"]
    <3>1. linked \in SessionRow /\ started \in SessionRow
      BY <2>0 DEF SessionRow, States, Pending
    <3>2. session' = [session EXCEPT ![s] = linked] \/ session' = [session EXCEPT ![s] = started]
      BY <1>4, <2>1 DEF RecordOpened
    <3> HIDE DEF linked, started
    <3> QED BY <1>3, <3>1, <3>2
  <2>2. CASE Claim(w)
    <3>1. row.attempts + 1 \in 0..MaxAttempts
      BY SMTT(30), <1>4, <2>0, <2>2, UploadAssumption DEF Claim, AttemptsLeft, SessionRow
    <3> DEFINE claimed == [row EXCEPT !.fence = w, !.lease = "live", !.attempts = @ + 1]
    <3>2. claimed \in SessionRow
      BY <2>0, <3>1 DEF SessionRow
    <3>3. session' = [session EXCEPT ![s] = claimed]
      BY <1>4, <2>2 DEF Claim
    <3> HIDE DEF claimed
    <3> QED BY <1>3, <3>2, <3>3
  <2>3. CASE Publish(w)
    <3> DEFINE complete == [row EXCEPT !.state = "COMPLETE", !.lease = "none", !.link = FALSE,
                                       !.deadline = FALSE, !.run = "queued"]
    <3>1. complete \in SessionRow
      BY <2>0 DEF SessionRow, States
    <3>2. session' = [session EXCEPT ![s] = complete]
      BY <1>4, <2>3 DEF Publish
    <3> HIDE DEF complete
    <3> QED BY <1>3, <3>1, <3>2
  <2>4. CASE FailedDelete(w) \/ ClaimRefused(w)
    <3> DEFINE delayed == [row EXCEPT !.waiting = TRUE]
    <3>1. delayed \in SessionRow
      BY <2>0 DEF SessionRow
    <3>2. session' = [session EXCEPT ![s] = delayed] \/ session' = session
      BY <1>4, <2>4 DEF FailedDelete, ClaimRefused
    <3> HIDE DEF delayed
    <3> QED BY <1>1, <1>3, <3>1, <3>2
  <2>5. CASE RecordPurge(w) \/ RecordCancelled(w)
    <3> DEFINE purged == [row EXCEPT !.link = FALSE, !.deadline = FALSE, !.purged = TRUE]
               ended == [row EXCEPT !.state = "CANCELLED"]
    <3>1. purged \in SessionRow /\ ended \in SessionRow
      BY <2>0 DEF SessionRow, States
    <3>2. session' = [session EXCEPT ![s] = purged] \/ session' = [session EXCEPT ![s] = ended]
      BY <1>4, <2>5 DEF RecordPurge, RecordCancelled
    <3> HIDE DEF purged, ended
    <3> QED BY <1>3, <3>1, <3>2
  <2> QED BY <1>4, <2>1, <2>2, <2>3, <2>4, <2>5
<1>5. ASSUME NEW w \in Workers, NEW s \in Sessions, s = worker[w].s,
             Abort(w) \/ SweepRevokes(w) \/ ClaimExhausted(w) \/ Settle(w) \/ DeleteCommits(w)
      PROVE session' \in [Sessions -> SessionRow]
  <2> DEFINE row == session[s]
             delayed == [row EXCEPT !.lease = "none", !.waiting = TRUE]
  <2>1. /\ row \in SessionRow /\ delayed \in SessionRow
        /\ Purging(row) \in SessionRow /\ Deleted(row) \in SessionRow
    <3>1. row \in SessionRow
      BY <1>1
    <3> QED BY <3>1, SessionRows DEF SessionRow
  <2>2. \/ session' = session \/ session' = [session EXCEPT ![s] = delayed]
        \/ session' = [session EXCEPT ![s] = Purging(row)]
        \/ session' = [session EXCEPT ![s] = Deleted(row)]
    <3>1. CASE Settle(w)
      BY <1>5, <3>1 DEF Settle
    <3>2. CASE Abort(w) \/ SweepRevokes(w) \/ ClaimExhausted(w) \/ DeleteCommits(w)
      BY <1>5, <3>2 DEF Abort, SweepRevokes, ClaimExhausted, DeleteCommits
    <3> QED BY <1>5, <3>1, <3>2
  <2> HIDE DEF row, delayed
  <2> QED BY <1>1, <1>3, <2>1, <2>2
<1>6. ASSUME NEW w \in Workers, NEW s \in Sessions, Begin(w, s) \/ Cancel(w, s)
      PROVE session' \in [Sessions -> SessionRow]
  <2> DEFINE row == session[s]
             begun == [row EXCEPT !.state = "INITIALIZING", !.deadline = (Provider = "GCS")]
  <2>1. begun \in SessionRow /\ Purging(row) \in SessionRow
    <3>1. row \in SessionRow
      BY <1>1
    <3>2. (Provider = "GCS") \in BOOLEAN /\ "INITIALIZING" \in States
      BY DEF States, Pending
    <3>3. begun \in SessionRow
      BY <3>1, <3>2 DEF SessionRow
    <3> QED BY <3>1, <3>3, SessionRows
  <2>2. session' = [session EXCEPT ![s] = begun] \/ session' = [session EXCEPT ![s] = Purging(row)]
    BY <1>6 DEF Begin, Cancel
  <2> HIDE DEF row, begun
  <2> QED BY <1>3, <2>1, <2>2
<1>7. ASSUME NEW s \in Sessions, RequestCompletion(s) \/ LeaseLapses(s) \/ DelayEnds(s)
      PROVE session' \in [Sessions -> SessionRow]
  <2> DEFINE row == session[s]
             asking == [row EXCEPT !.state = "VERIFYING"]
             lapsed == [row EXCEPT !.lease = "lapsed"]
             due == [row EXCEPT !.waiting = FALSE]
  <2>1. asking \in SessionRow /\ lapsed \in SessionRow /\ due \in SessionRow
    <3>1. row \in SessionRow
      BY <1>1
    <3> QED BY <3>1 DEF SessionRow, States, Pending
  <2>2. \/ session' = [session EXCEPT ![s] = asking]
        \/ session' = [session EXCEPT ![s] = lapsed]
        \/ session' = [session EXCEPT ![s] = due]
    BY <1>7 DEF RequestCompletion, LeaseLapses, DelayEnds
  <2> HIDE DEF asking, lapsed, due
  <2> QED BY <1>3, <2>1, <2>2
<1>8. ASSUME NEW o \in Owners, DeleteAccount(o) \/ WithdrawProcessing(o)
      PROVE session' \in [Sessions -> SessionRow]
  <2>1. CASE DeleteAccount(o)
    <3> DEFINE tomb(s) == [session[s] EXCEPT !.deleted = TRUE,
                                             !.run = IF @ = "none" THEN @ ELSE "cancelled"]
    <3>1. \A s \in Sessions : session[s] \in SessionRow /\ tomb(s) \in SessionRow
      BY ZenonT(40), <1>1 DEF SessionRow
    <3>2. session' = [s \in Sessions |-> IF s \in SessionsOf(o) /\ session[s].state # "NONE"
                                         THEN tomb(s) ELSE session[s]]
      BY <2>1 DEF DeleteAccount
    <3> HIDE DEF tomb
    <3> QED BY <3>1, <3>2
  <2>2. CASE WithdrawProcessing(o)
    BY <1>1, <2>2, SessionRows DEF WithdrawProcessing
  <2> QED BY <1>8, <2>1, <2>2
<1>9. ASSUME NEW w \in Workers, Acts(w) PROVE session' \in [Sessions -> SessionRow]
  <2>1. CASE UNCHANGED session
    BY <1>2, <2>1
  <2>2. CASE \E s \in Sessions : Begin(w, s) \/ Cancel(w, s)
    BY <1>6, <2>2
  <2>3. CASE worker[w].pc # "idle"
    <3>1. worker[w].s \in Sessions
      BY <2>3, WorkingOn
    <3>2. ASSUME \/ RecordOpened(w) \/ Claim(w) \/ Publish(w) \/ FailedDelete(w)
                 \/ ClaimRefused(w) \/ RecordPurge(w) \/ RecordCancelled(w)
                 \/ Abort(w) \/ SweepRevokes(w) \/ ClaimExhausted(w) \/ Settle(w)
                 \/ DeleteCommits(w)
          PROVE session' \in [Sessions -> SessionRow]
      BY <1>4, <1>5, <3>1, <3>2
    <3> QED
      BY <1>9, <2>1, <2>2, <3>2
         DEF Acts, Proceed, Open, OpenFails, SweepPurges, Read, PublishRefused, CancelUpload,
             SweepPrefix, DeletePends, DeleteFails, Crash, List, DeleteEvidence, PurgeTombstone
  <2>4. CASE worker[w].pc = "idle"
    BY <1>9, <2>1, <2>2, <2>4
       DEF Acts, Proceed, Open, OpenFails, RecordOpened, Abort, SweepRevokes, SweepPurges, Claim,
           ClaimExhausted, ClaimRefused, Verifying, Read, Publish, PublishRefused, Settle,
           DeleteCommits, CancelUpload, SweepPrefix, DeletePends, DeleteFails, RecordPurge,
           RecordCancelled, Crash, List, DeleteEvidence, PurgeTombstone
  <2> QED BY <2>3, <2>4
<1>10. ASSUME NEW s \in Sessions,
             \/ \E object \in {"part", "good", "bad"} : WriteChunk(s, object)
             \/ \E object \in {"good", "bad"} : ClientFinalizes(s, object)
             \/ RequestCompletion(s) \/ Elapse(s)
       PROVE session' \in [Sessions -> SessionRow]
  BY <1>2, <1>7, <1>10 DEF WriteChunk, ClientFinalizes, Elapse, SessionExpires, CapabilityEnds
<1>11. CASE UNCHANGED vars
  BY <1>2, <1>11 DEF vars
<1> QED BY <1>2, <1>8, <1>9, <1>10, <1>11 DEF Next, Acts, GrantProcessing

LEMMA WorldTyped ==
  ASSUME UploadInv, [Next]_vars
  PROVE /\ owner' \in [Owners -> [active : BOOLEAN, consent : BOOLEAN]]
        /\ store' \in [Sessions -> StoreRow]
        /\ clock' \in [Sessions -> [expired : BOOLEAN, ended : BOOLEAN]]
        /\ asked' \subseteq Sessions
<1>1. /\ owner \in [Owners -> [active : BOOLEAN, consent : BOOLEAN]]
      /\ store \in [Sessions -> StoreRow]
      /\ clock \in [Sessions -> [expired : BOOLEAN, ended : BOOLEAN]]
      /\ asked \subseteq Sessions
  BY DEF UploadInv, TypeOK, StoreRow
<1>2. CASE UNCHANGED vars
  BY <1>1, <1>2 DEF vars
<1>3. ASSUME NEW w \in Workers, Open(w) \/ RecordOpened(w) \/ CancelUpload(w) \/ SweepPrefix(w)
      PROVE UNCHANGED <<owner, clock, asked>> /\ store' \in [Sessions -> StoreRow]
  <2>1. CASE Open(w)
    BY <1>1, <2>1 DEF Open, StoreRow
  <2>2. CASE RecordOpened(w)
    BY <1>1, <2>2 DEF RecordOpened, StoreRow
  <2>3. CASE CancelUpload(w) \/ SweepPrefix(w)
    BY <1>1, <2>3 DEF CancelUpload, SweepPrefix, StoreRow
  <2> QED BY <1>3, <2>1, <2>2, <2>3
<1>4. ASSUME NEW w \in Workers,
             \/ OpenFails(w) \/ Abort(w) \/ SweepRevokes(w) \/ SweepPurges(w) \/ Claim(w)
             \/ ClaimExhausted(w) \/ ClaimRefused(w) \/ Read(w) \/ Publish(w) \/ PublishRefused(w)
             \/ Settle(w) \/ DeleteCommits(w) \/ DeletePends(w) \/ DeleteFails(w)
             \/ RecordPurge(w) \/ RecordCancelled(w) \/ Crash(w)
      PROVE UNCHANGED <<owner, store, clock, asked>>
  BY <1>4 DEF OpenFails, Abort, SweepRevokes, SweepPurges, Claim, ClaimExhausted, ClaimRefused,
       Read, Publish, PublishRefused, Settle, DeleteCommits, DeletePends, DeleteFails, RecordPurge,
       RecordCancelled, Crash
<1>5. ASSUME NEW w \in Workers, NEW s \in Sessions,
             \/ Begin(w, s) \/ List(w, s) \/ Cancel(w, s)
             \/ DeleteEvidence(w, s) \/ PurgeTombstone(w, s)
      PROVE UNCHANGED <<owner, store, clock>> /\ asked' \subseteq Sessions
  BY <1>1, <1>5 DEF Begin, List, Cancel, DeleteEvidence, PurgeTombstone
<1>6. ASSUME NEW s \in Sessions,
             \/ \E object \in {"part", "good", "bad"} : WriteChunk(s, object)
             \/ \E object \in {"good", "bad"} : ClientFinalizes(s, object)
             \/ RequestCompletion(s)
      PROVE UNCHANGED <<owner, clock, asked>> /\ store' \in [Sessions -> StoreRow]
  BY <1>1, <1>6 DEF WriteChunk, ClientFinalizes, RequestCompletion, StoreRow
<1>7. ASSUME NEW s \in Sessions, Elapse(s)
      PROVE /\ UNCHANGED <<owner, store, asked>>
            /\ clock' \in [Sessions -> [expired : BOOLEAN, ended : BOOLEAN]]
  BY <1>1, <1>7 DEF Elapse, SessionExpires, CapabilityEnds, LeaseLapses, DelayEnds
<1>8. ASSUME NEW o \in Owners, DeleteAccount(o) \/ WithdrawProcessing(o) \/ GrantProcessing(o)
      PROVE /\ UNCHANGED <<store, clock>> /\ asked' \subseteq Sessions
            /\ owner' \in [Owners -> [active : BOOLEAN, consent : BOOLEAN]]
  <2>1. UNCHANGED <<store, clock>> /\ asked' \subseteq Sessions
    BY <1>1, <1>8 DEF DeleteAccount, WithdrawProcessing, GrantProcessing, SessionsOf
  <2>2. \/ owner' = [owner EXCEPT ![o].active = FALSE]
        \/ owner' = [owner EXCEPT ![o].consent = FALSE]
        \/ owner' = [owner EXCEPT ![o].consent = TRUE]
    BY <1>8 DEF DeleteAccount, WithdrawProcessing, GrantProcessing
  <2> QED BY <1>1, <2>1, <2>2
<1> QED BY <1>1, <1>2, <1>3, <1>4, <1>5, <1>6, <1>7, <1>8 DEF Next, Proceed

LEMMA InitInv == Init => UploadInv
<1> SUFFICES ASSUME Init PROVE UploadInv
  OBVIOUS
<1>1. /\ \A s \in Sessions : /\ session[s] = NewSession /\ ~clock[s].expired /\ ~clock[s].ended
                             /\ store[s].object = "absent" /\ store[s].capability = "none"
      /\ \A w \in Workers : worker[w] = Idle
      /\ \A o \in Owners : owner[o].active
  BY DEF Init
<1>2. NewSession \in SessionRow
  BY UploadAssumption DEF NewSession, SessionRow, States
<1>3. TypeOK
  BY <1>2, WorkerRows DEF Init, TypeOK
<1>4. ASSUME NEW s \in Sessions PROVE SessionInv(s)
  <2>1. ~Opening(s)
    BY <1>1 DEF Opening, Openers, Idle
  <2> QED
    BY <1>1, <1>4, <2>1
       DEF SessionInv, NewSession, HasBytes, UploadPossible, CanFinalize, Evidence
<1>5. ASSUME NEW w \in Workers PROVE WorkerKnows(w)
  BY <1>1, <1>5 DEF WorkerKnows, Idle
<1>6. BeginnersDistinct /\ DeletedOwnersAsked
  BY <1>1 DEF BeginnersDistinct, DeletedOwnersAsked, Beginners, Openers, Idle
<1>7. Transferring = {} /\ \A o \in Owners : Unpurged(o) = {}
  BY <1>1 DEF Transferring, Unpurged, SessionsOf, NewSession
<1>8. Cardinality({}) = 0
  BY FS_EmptySet
<1>9. SlotsRespected
  BY <1>7, <1>8, UploadAssumption DEF SlotsRespected
<1>10. QuotaReserved
  BY <1>7, <1>8, UploadAssumption DEF QuotaReserved
<1> QED BY <1>3, <1>4, <1>5, <1>6, <1>9, <1>10 DEF UploadInv

LEMMA NextInv == UploadInv /\ [Next]_vars => UploadInv'
<1> SUFFICES ASSUME UploadInv, [Next]_vars PROVE UploadInv'
  OBVIOUS
<1>1. TypeOK'
  BY WorkersTyped, SessionsTyped, WorldTyped DEF TypeOK, StoreRow
<1>2. ASSUME NEW s \in Sessions PROVE SessionInv(s)'
  BY <1>2, EveryTurn, SessionKept DEF UploadInv
<1>3. ASSUME NEW w \in Workers PROVE WorkerKnows(w)'
  BY <1>3, EveryoneKnows
<1> QED
  BY <1>1, <1>2, <1>3, BeginnersStayDistinct, DeletedOwnersStayAsked, SlotsStayRespected,
     QuotaStaysReserved DEF UploadInv
-----------------------------------------------------------------------------
(* The inductive invariant holds in every reachable state: the facts that   *)
(* every row keeps, what every process may still rely on after a remote     *)
(* call, and the limits.                                                    *)
THEOREM UploadInvHolds == Spec => []UploadInv
<1>1. Init => UploadInv
  BY InitInv
<1>2. UploadInv /\ [Next]_vars => UploadInv'
  BY NextInv
<1> QED BY <1>1, <1>2, PTL DEF Spec

(* What the rows say of the store is true: of an erasure, of a completed    *)
(* capture and of an analysis that may start (delete_asset, verify).        *)
THEOREM EvidenceSoundHolds == Spec => []EvidenceSound
<1>1. UploadInv => EvidenceSound
  <2> SUFFICES ASSUME UploadInv PROVE EvidenceSound
    OBVIOUS
  <2>1. \A s \in Sessions : SessionInv(s)
    BY DEF UploadInv
  <2>2. PurgedMeansGone
    BY <2>1 DEF SessionInv, PurgedMeansGone
  <2>3. VerifiedEvidence
    <3> SUFFICES ASSUME NEW s \in Sessions, Evidence(s)
                 PROVE store[s].object = "good" /\ ~UploadPossible(s) /\ ~session[s].purged
      BY DEF VerifiedEvidence
    <3>1. store[s].object = "good" /\ HasBytes(s)
      BY <2>1 DEF SessionInv, HasBytes
    <3>2. ~UploadPossible(s)
      BY <2>1, <3>1 DEF SessionInv, UploadPossible
    <3> QED BY <2>1, <3>1, <3>2 DEF SessionInv
  <2>4. RunHasEvidence
    BY <2>1 DEF SessionInv, RunHasEvidence
  <2> QED BY <2>2, <2>3, <2>4 DEF UploadInv, EvidenceSound
<1> QED BY <1>1, UploadInvHolds, PTL

(* Slots and bytes stay within their limits although purges overlap new     *)
(* reservations (begin, check_capacity).                                    *)
THEOREM LimitsRespectedHolds == Spec => []LimitsRespected
<1>1. UploadInv => LimitsRespected
  <2> SUFFICES ASSUME UploadInv, NEW o \in Owners
               PROVE Cardinality({s \in SessionsOf(o) : HasBytes(s)}) <= OwnerAssets
    BY DEF UploadInv, LimitsRespected, StoreWithinQuota
  <2> DEFINE stored == {s \in SessionsOf(o) : HasBytes(s)}
  <2>1. stored \subseteq Unpurged(o)
    BY DEF UploadInv, SessionInv, HasBytes, Unpurged, SessionsOf
  <2>2. IsFiniteSet(Unpurged(o)) /\ Cardinality(Unpurged(o)) <= OwnerAssets
    <3>1. IsFiniteSet(Sessions) /\ Unpurged(o) \subseteq Sessions
      BY UploadAssumption DEF Unpurged, SessionsOf
    <3> QED BY <3>1, FS_Subset DEF UploadInv, QuotaReserved
  <2>3. IsFiniteSet(stored) /\ Cardinality(stored) <= Cardinality(Unpurged(o))
    BY <2>1, <2>2, FS_Subset
  <2>4. /\ Cardinality(stored) \in Nat /\ Cardinality(Unpurged(o)) \in Nat
        /\ OwnerAssets \in Nat
    BY <2>2, <2>3, FS_CardinalityType, UploadAssumption
  <2> HIDE DEF stored
  <2> QED BY <2>2, <2>3, <2>4 DEF stored
<1> QED BY <1>1, UploadInvHolds, PTL

(* Completed evidence is taken away only by a deletion somebody asked for,  *)
(* or by a sweep that works from an old list (verify, cancel, begin).       *)
THEOREM EvidenceOutlivesVerifiersHolds == Spec => EvidenceOutlivesVerifiers
<1> DEFINE Excused(s) == \/ s \in asked'
                         \/ \E w \in Workers : worker[w].s = s /\ worker[w].pc = "listed"
                                              /\ worker[w].seen = "VERIFYING" /\ clock[s].expired
           Outlives == \A s \in Sessions : Evidence(s) /\ ~Evidence(s)' => Excused(s)
<1>1. UploadInv /\ [Next]_vars => Outlives
  <2> SUFFICES ASSUME UploadInv, [Next]_vars, NEW s \in Sessions, Evidence(s), ~Evidence(s)'
               PROVE Excused(s)
    OBVIOUS
  <2>1. Turn(s) /\ SessionInv(s) /\ (s \in asked => s \in asked')
    BY EveryTurn, AskedLasts DEF UploadInv
  <2>2. Purges(s) \/ Deletes(s) \/ Tombs(s)
    BY <2>1 DEF Turn, OtherTurn, SessionInv, Evidence, Pending, Opening, Unstarted, Rests, Reserves,
       Opens, Receives, Writes, Finalizes, Completes, Publishes, Closes, Sweeps, Erases, Cancels,
       Withdraws, Expires, Ends, RowKept, RestKept
  <2> QED BY <2>1, <2>2 DEF Purges, Deletes, Tombs
<1>2. [][Outlives]_vars => EvidenceOutlivesVerifiers
  BY PTL DEF EvidenceOutlivesVerifiers
<1> QED BY <1>1, <1>2, UploadInvHolds, PTL DEF Spec
=============================================================================
