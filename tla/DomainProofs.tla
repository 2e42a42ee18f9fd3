---------------------------- MODULE DomainProofs ----------------------------
(***************************************************************************)
(* What the components of Domain keep, whatever the values of their        *)
(* constants.                                                              *)
(*                                                                         *)
(* First the recording companion and the device API, for any number of     *)
(* computers, chunks and failures.  The invariant has a part for the rows  *)
(* of the server and one for each computer; the rows only move forward,    *)
(* and that is what a computer's receipt relies on.  Then the match        *)
(* history, the accounts, the practice loops and the admission of uploads. *)
(* ResearchProofs has the studies, the detectors and the knowledge.        *)
(***************************************************************************)
EXTENDS Domain, FiniteSetTheorems, SequenceTheorems, WellFoundedInduction, TLAPS

Sessions == [state : {"none", "UPLOADING", "VERIFYING", "PURGING", "CANCELLED", "COMPLETE"},
             received : 0..Chunks, overdue : BOOLEAN]
Receipts == [holder : Devices \cup {"nobody"}, opened : BOOLEAN, suppressed : BOOLEAN]
Engines == [state : {"PENDING", "VERIFYING"} \cup Device!Terminal, id : BOOLEAN,
            failures : 0..MaxFailures, enabled : BOOLEAN, cancel : BOOLEAN, intact : BOOLEAN]

(* What the rows of the server say of each other.                          *)
Ongoing == deviceSession.state \in {"UPLOADING", "VERIFYING"}
RowsAgree ==
  /\ device \in [Devices -> {"new", "active", "revoked"}]
  /\ receipt \in Receipts /\ deviceSession \in Sessions
  /\ receipt.opened => receipt.holder # "nobody" /\ deviceSession.state # "none"
  /\ Ongoing => receipt.opened
  /\ deviceSession.state \in {"VERIFYING", "COMPLETE"} => deviceSession.received = Chunks
  /\ deviceSession.overdue => Ongoing

(* A computer awaits one answer at a time and none once it has an outcome. *)
CallsOfOne(cs) ==
  /\ cs \subseteq Device!Call
  /\ \A c \in cs : c.op = "PUT" => c.at < Chunks
  /\ \A b, c \in cs : b.awaited = c.awaited => b = c
OutcomeWaitsForNothing(e, cs) == e.state \in Device!Terminal => \A c \in cs : ~c.awaited
FailuresCounted(e) == e.failures < MaxFailures \/ e.state \in Device!Terminal
OutcomeTrue(d, e) ==
  /\ e.state = "COMPLETE" =>
       deviceSession.received = Chunks /\ deviceSession.state \in {"COMPLETE"} \cup Device!Gone
  /\ e.state = "DUPLICATE" => receipt.suppressed \/ receipt.holder \notin {"nobody", d}
  /\ e.state = "REMOVED" => deviceSession.state \in Device!Gone
  /\ e.state = "CANCELLED" /\ e.id => deviceSession.state \in Device!Gone

ComputerInv(d) ==
  /\ CallsOfOne(calls[d])
  /\ OutcomeWaitsForNothing(engine[d], calls[d])
  /\ FailuresCounted(engine[d])
  /\ OutcomeTrue(d, engine[d])

(* The inductive invariant of the companion.                               *)
CompanionInv ==
  /\ RowsAgree
  /\ Device!RevokedDeviceIdle
  /\ engine \in [Devices -> Engines]
  /\ calls \in [Devices -> SUBSET Device!Call]
  /\ \A d \in Devices : ComputerInv(d)

LEMMA CompanionInit == Device!Init => CompanionInv
<1> SUFFICES ASSUME Device!Init PROVE CompanionInv
  OBVIOUS
<1>1. RowsAgree /\ Device!RevokedDeviceIdle
  BY CompanionAssumption
     DEF Device!Init, Device!Nobody, RowsAgree, Sessions, Receipts, Ongoing, Device!RevokedDeviceIdle
<1>2. engine \in [Devices -> Engines] /\ calls \in [Devices -> SUBSET Device!Call]
  BY CompanionAssumption DEF Device!Init, Engines
<1>3. ASSUME NEW d \in Devices PROVE ComputerInv(d)
  BY <1>3, CompanionAssumption
     DEF Device!Init, ComputerInv, CallsOfOne, OutcomeWaitsForNothing, FailuresCounted,
         OutcomeTrue, Device!Terminal
<1> QED BY <1>1, <1>2, <1>3 DEF CompanionInv
-----------------------------------------------------------------------------
(* The rows of the server. *)

(* The rows only move forward: what was transferred stays so until it is   *)
(* removed, and what was removed stays removed.                            *)
SessionForward ==
  /\ deviceSession.state \in {"COMPLETE"} \cup Device!Gone =>
       /\ deviceSession'.state \in {"COMPLETE"} \cup Device!Gone
       /\ deviceSession'.received = deviceSession.received
  /\ deviceSession.state \in Device!Gone => deviceSession'.state \in Device!Gone
Forward ==
  /\ SessionForward
  /\ receipt.suppressed => receipt'.suppressed
  /\ receipt.holder # "nobody" => receipt'.holder = receipt.holder
  /\ receipt.holder = "nobody" /\ deviceSession.state = "none" /\ manual =>
       deviceSession'.state = "none"
ServerMoves == RowsAgree' /\ Device!RevokedDeviceIdle' /\ Forward

LEMMA ServerStands ==
  ASSUME CompanionInv, UNCHANGED Device!serverVars
  PROVE  ServerMoves
<1>1. UNCHANGED <<consent, device, receipt, deviceSession>>
  BY DEF Device!serverVars
<1> QED BY <1>1 DEF CompanionInv, RowsAgree, Ongoing, Device!RevokedDeviceIdle, SessionForward,
                    Forward, ServerMoves

LEMMA RemovedSession ==
  ASSUME deviceSession \in Sessions
  PROVE  /\ Device!Removed \in Sessions /\ Device!Removed.state = "PURGING"
         /\ Device!Removed.received = deviceSession.received /\ ~Device!Removed.overdue
<1>1. PICK s : s = [deviceSession EXCEPT !.state = "PURGING"]
  OBVIOUS
<1>2. s \in Sessions /\ s.state = "PURGING" /\ s.received = deviceSession.received
  BY <1>1 DEF Sessions
<1>3. Device!Removed = [s EXCEPT !.overdue = FALSE]
  BY <1>1 DEF Device!Removed
<1> QED BY <1>2, <1>3 DEF Sessions

(* Once a session is open, its row alone changes.                          *)
LEMMA SessionMoves ==
  ASSUME CompanionInv, UNCHANGED <<consent, device, receipt>>, deviceSession' \in Sessions,
         deviceSession.state = "none" => deviceSession' = deviceSession,
         deviceSession'.state # "none" \/ deviceSession' = deviceSession,
         deviceSession'.state \in {"UPLOADING", "VERIFYING"} => Ongoing,
         deviceSession'.state \in {"VERIFYING", "COMPLETE"} => deviceSession'.received = Chunks,
         deviceSession'.overdue => deviceSession'.state \in {"UPLOADING", "VERIFYING"},
         SessionForward
  PROVE  ServerMoves
<1>1. RowsAgree'
  BY DEF CompanionInv, RowsAgree, Ongoing
<1>2. Device!RevokedDeviceIdle'
  BY DEF CompanionInv, RowsAgree, Ongoing, Device!RevokedDeviceIdle
<1>3. Forward
  BY DEF Forward
<1> QED BY <1>1, <1>2, <1>3 DEF ServerMoves

LEMMA RemovalMoves ==
  ASSUME CompanionInv, UNCHANGED <<consent, device, receipt>>, deviceSession.state # "none",
         deviceSession' = Device!Removed
  PROVE  ServerMoves
<1>1. deviceSession \in Sessions
  BY DEF CompanionInv, RowsAgree
<1>2. /\ deviceSession' \in Sessions /\ deviceSession'.state = "PURGING"
      /\ deviceSession'.received = deviceSession.received /\ ~deviceSession'.overdue
  BY <1>1, RemovedSession
<1>3. SessionForward
  BY <1>2 DEF SessionForward, Device!Gone
<1> QED BY <1>2, <1>3, SessionMoves

(* Owner, worker and retention.                                            *)
LEMMA OwnerMoves ==
  ASSUME CompanionInv,
         \/ Device!CreatePairing \/ Device!ManualUpload \/ Device!DeleteRecording
         \/ Device!Verify \/ Device!TimeIsOver \/ Device!Expire \/ Device!Purge
  PROVE  ServerMoves
<1>1. deviceSession \in Sessions /\ RowsAgree
  BY DEF CompanionInv, RowsAgree
<1>2. CASE Device!CreatePairing \/ Device!ManualUpload
  BY <1>2 DEF Device!CreatePairing, Device!ManualUpload, CompanionInv, RowsAgree, Ongoing,
              Device!RevokedDeviceIdle, Device!Nobody, SessionForward, Forward, ServerMoves
<1>3. CASE Device!DeleteRecording
  BY <1>3, RemovalMoves DEF Device!DeleteRecording
<1>4. CASE Device!Verify
  <2>1. CASE deviceSession' = [deviceSession EXCEPT !.state = "COMPLETE"] /\ ~deviceSession.overdue
    <3>1. /\ deviceSession' \in Sessions /\ deviceSession'.state = "COMPLETE"
          /\ deviceSession'.received = deviceSession.received /\ ~deviceSession'.overdue
      BY <1>1, <2>1 DEF Sessions
    <3>2. deviceSession.state = "VERIFYING" /\ deviceSession.received = Chunks
      BY <1>1, <1>4 DEF Device!Verify, RowsAgree
    <3>3. SessionForward
      BY <3>1, <3>2 DEF SessionForward, Device!Gone
    <3> QED BY <1>4, <3>1, <3>2, <3>3, SessionMoves DEF Device!Verify
  <2>2. CASE deviceSession' = Device!Removed
    BY <1>4, <2>2, RemovalMoves DEF Device!Verify
  <2> QED BY <1>4, <2>1, <2>2 DEF Device!Verify
<1>5. CASE Device!TimeIsOver
  <2>1. /\ deviceSession' \in Sessions /\ deviceSession'.state = deviceSession.state
        /\ deviceSession'.received = deviceSession.received
        /\ deviceSession.state \in {"UPLOADING", "VERIFYING"}
    BY <1>1, <1>5 DEF Device!TimeIsOver, Sessions
  <2>2. SessionForward
    BY <2>1 DEF SessionForward, Device!Gone
  <2> QED BY <1>1, <1>5, <2>1, <2>2, SessionMoves DEF Device!TimeIsOver, Ongoing, RowsAgree
<1>6. CASE Device!Expire
  BY <1>1, <1>6, RemovalMoves DEF Device!Expire, RowsAgree, Ongoing
<1>7. CASE Device!Purge
  <2>1. /\ deviceSession' \in Sessions /\ deviceSession'.state = "CANCELLED"
        /\ deviceSession'.received = deviceSession.received /\ ~deviceSession'.overdue
        /\ deviceSession.state = "PURGING"
    BY <1>1, <1>7 DEF Device!Purge, Sessions, RowsAgree, Ongoing
  <2>2. SessionForward
    BY <2>1 DEF SessionForward, Device!Gone
  <2> QED BY <1>7, <2>1, <2>2, SessionMoves DEF Device!Purge
<1> QED BY <1>2, <1>3, <1>4, <1>5, <1>6, <1>7

(* fence_devices: an open session loses its device to the purge at once.   *)
LEMMA FencingMoves ==
  ASSUME CompanionInv, NEW ds \in SUBSET Devices, deviceSession' = Device!Fenced(ds),
         UNCHANGED receipt,
         device' \in [Devices -> {"new", "active", "revoked"}],
         \A d \in Devices \ ds : device'[d] = device[d],
         consent' # consent => \A d \in Devices : device[d] = "active" => d \in ds
  PROVE  ServerMoves
<1>1. RowsAgree /\ deviceSession \in Sessions
  BY DEF CompanionInv, RowsAgree
<1>2. CASE deviceSession' = deviceSession
  <2>1. ~Ongoing \/ receipt.holder \notin ds
    <3>1. CASE Ongoing /\ receipt.holder \in ds
      <4>1. deviceSession' = Device!Removed
        BY <1>1, <3>1 DEF Device!Fenced, Device!InProgress, Ongoing, RowsAgree
      <4>2. deviceSession'.state = "PURGING"
        BY <1>1, <4>1, RemovedSession
      <4> QED BY <1>2, <3>1, <4>2 DEF Ongoing
    <3> QED BY <3>1
  <2>2. Device!RevokedDeviceIdle'
    BY <1>1, <1>2, <2>1
       DEF CompanionInv, RowsAgree, Receipts, Ongoing, Device!RevokedDeviceIdle
  <2>3. RowsAgree' /\ Forward
    BY <1>1, <1>2 DEF RowsAgree, Ongoing, SessionForward, Forward
  <2> QED BY <2>2, <2>3 DEF ServerMoves
<1>3. CASE /\ deviceSession' = Device!Removed
           /\ receipt.opened /\ deviceSession.state \in Device!InProgress
  <2>1. /\ deviceSession' \in Sessions /\ deviceSession'.state = "PURGING"
        /\ deviceSession'.received = deviceSession.received /\ ~deviceSession'.overdue
    BY <1>1, <1>3, RemovedSession
  <2>2. RowsAgree' /\ Device!RevokedDeviceIdle'
    BY <1>1, <1>3, <2>1 DEF RowsAgree, Ongoing, Device!RevokedDeviceIdle
  <2>3. Forward
    BY <1>1, <1>3, <2>1
       DEF Forward, SessionForward, Device!Gone, Device!InProgress, RowsAgree
  <2> QED BY <2>2, <2>3 DEF ServerMoves
<1> QED BY <1>2, <1>3 DEF Device!Fenced

LEMMA PairingMoves ==
  ASSUME CompanionInv,
         \/ \E withdraw \in BOOLEAN : Device!RevokeAll(withdraw)
         \/ \E d \in Devices : Device!RedeemPairing(d) \/ Device!RevokeDevice(d)
  PROVE  ServerMoves
<1>1. RowsAgree /\ device \in [Devices -> {"new", "active", "revoked"}]
  BY DEF CompanionInv, RowsAgree
<1>2. ASSUME NEW d \in Devices, Device!RedeemPairing(d) PROVE ServerMoves
  <2>1. device' \in [Devices -> {"new", "active", "revoked"}]
    BY <1>1, <1>2 DEF Device!RedeemPairing
  <2>2. \A x \in Devices : device[x] = "active" => device'[x] = "active"
    BY <1>1, <1>2 DEF Device!RedeemPairing
  <2>3. UNCHANGED <<consent, receipt, deviceSession, manual>>
    BY <1>2 DEF Device!RedeemPairing
  <2> QED BY <1>1, <2>1, <2>2, <2>3
          DEF CompanionInv, RowsAgree, Receipts, Ongoing, Device!RevokedDeviceIdle,
              SessionForward, Forward, ServerMoves
<1>3. ASSUME NEW d \in Devices, Device!RevokeDevice(d) PROVE ServerMoves
  <2>1. device' \in [Devices -> {"new", "active", "revoked"}]
        /\ \A x \in Devices \ {d} : device'[x] = device[x]
    BY <1>1, <1>3 DEF Device!RevokeDevice
  <2> QED BY <1>3, <2>1, FencingMoves DEF Device!RevokeDevice
<1>4. ASSUME NEW withdraw \in BOOLEAN, Device!RevokeAll(withdraw) PROVE ServerMoves
  <2> DEFINE ds == {d \in Devices : device[d] = "active"}
  <2>1. device' \in [Devices -> {"new", "active", "revoked"}]
        /\ \A x \in Devices \ ds : device'[x] = device[x]
    BY <1>1, <1>4 DEF Device!RevokeAll
  <2>2. PICK S : S = ds
    OBVIOUS
  <2>3. S \in SUBSET Devices /\ deviceSession' = Device!Fenced(S) /\ UNCHANGED receipt
    BY <1>4, <2>2 DEF Device!RevokeAll
  <2> QED BY <2>1, <2>2, <2>3, FencingMoves
<1> QED BY <1>2, <1>3, <1>4
-----------------------------------------------------------------------------
(* The computers. *)

(* A step keeps the invariant and takes no row back.                       *)
Kept == CompanionInv' /\ Forward

Undecided == {"PENDING", "VERIFYING"}

LEMMA OutcomeLasts ==
  ASSUME NEW d \in Devices, NEW e, OutcomeTrue(d, e), Forward
  PROVE  OutcomeTrue(d, e)'
  BY DEF OutcomeTrue, SessionForward, Forward

LEMMA NothingToProve ==
  ASSUME NEW d \in Devices, NEW e, e.state \in Undecided \cup {"REJECTED"}
  PROVE  OutcomeTrue(d, e)'
  BY DEF OutcomeTrue, Undecided

LEMMA ComputersStand ==
  ASSUME CompanionInv, ServerMoves, UNCHANGED <<engine, calls>>
  PROVE  Kept
<1>1. ASSUME NEW d \in Devices PROVE ComputerInv(d)'
  <2>1. OutcomeTrue(d, engine[d])'
    BY OutcomeLasts DEF CompanionInv, ComputerInv, ServerMoves, OutcomeTrue, SessionForward, Forward
  <2> QED BY <2>1 DEF CompanionInv, ComputerInv, CallsOfOne, OutcomeWaitsForNothing, FailuresCounted
<1> QED BY <1>1 DEF CompanionInv, ServerMoves, Kept

(* One computer moves.                                                     *)
LEMMA ComputerMoves ==
  ASSUME CompanionInv, ServerMoves, NEW d \in Devices, NEW e \in Engines,
         NEW cs \in SUBSET Device!Call,
         engine' = [engine EXCEPT ![d] = e], calls' = [calls EXCEPT ![d] = cs],
         CallsOfOne(cs), OutcomeWaitsForNothing(e, cs), FailuresCounted(e), OutcomeTrue(d, e)'
  PROVE  Kept
<1>1. /\ engine' \in [Devices -> Engines] /\ calls' \in [Devices -> SUBSET Device!Call]
      /\ engine'[d] = e /\ calls'[d] = cs
      /\ \A x \in Devices \ {d} : engine'[x] = engine[x] /\ calls'[x] = calls[x]
  BY DEF CompanionInv
<1>2. ASSUME NEW x \in Devices PROVE ComputerInv(x)'
  <2>1. CASE x = d
    BY <1>1, <2>1
       DEF ComputerInv, CallsOfOne, OutcomeWaitsForNothing, FailuresCounted, OutcomeTrue
  <2>2. CASE x # d
    BY <1>1, <2>2
       DEF CompanionInv, ServerMoves, SessionForward, Forward,
           ComputerInv, CallsOfOne, OutcomeWaitsForNothing, FailuresCounted, OutcomeTrue
  <2> QED BY <2>1, <2>2
<1> QED BY <1>1, <1>2 DEF CompanionInv, ServerMoves, Kept

LEMMA WaitingIsUndecided ==
  ASSUME CompanionInv, NEW d \in Devices, Device!Awaiting(d)
  PROVE  engine[d] \in Engines /\ engine[d].state \in Undecided /\ engine[d].failures < MaxFailures
<1>1. engine[d] \in Engines /\ engine[d].state \notin Device!Terminal
  BY DEF CompanionInv, ComputerInv, OutcomeWaitsForNothing, Device!Awaiting
<1> QED BY <1>1 DEF CompanionInv, ComputerInv, FailuresCounted, Engines, Undecided

(* A failure, like any answer that ends without an outcome on the server.  *)
LEMMA FailedIsCounted ==
  ASSUME NEW d \in Devices, NEW e \in Engines, e.state \in Undecided, e.failures < MaxFailures,
         NEW fatal \in BOOLEAN, NEW rejected \in BOOLEAN
  PROVE  /\ Device!Failed(e, fatal, rejected) \in Engines
         /\ FailuresCounted(Device!Failed(e, fatal, rejected))
         /\ OutcomeTrue(d, Device!Failed(e, fatal, rejected))'
<1> DEFINE f == Device!Failed(e, fatal, rejected)
<1>1. e.failures + 1 \in 0..MaxFailures
  BY CompanionAssumption DEF Engines
<1>2. /\ f \in Engines
      /\ f.failures = e.failures + 1
      /\ f.state = IF e.failures + 1 >= MaxFailures \/ rejected THEN "REJECTED" ELSE e.state
  BY <1>1 DEF Device!Failed, Engines, Device!Terminal
<1> HIDE DEF f
<1>3. FailuresCounted(f)
  BY <1>1, <1>2, CompanionAssumption DEF FailuresCounted, Device!Terminal
<1>4. OutcomeTrue(d, f)'
  BY <1>2 DEF OutcomeTrue, Undecided
<1> QED BY <1>2, <1>3, <1>4 DEF f

(* What a computer goes on to after an answer, if anything.                *)
AtMostOneRequest(next) ==
  \/ next = {}
  \/ \E op \in Device!Operations, at \in 0..Chunks :
       (op = "PUT" => at < Chunks) /\ next = {Device!Request(op, at)}
NextCalls(e, next) == AtMostOneRequest(next) /\ (e.state \in Undecided \/ next = {})

LEMMA RequestIsCall ==
  ASSUME NEW op \in Device!Operations, NEW at \in 0..Chunks
  PROVE  Device!Request(op, at) \in Device!Call
         /\ Device!Request(op, at).awaited /\ Device!Request(op, at).op = op
         /\ Device!Request(op, at).at = at
  BY DEF Device!Request, Device!Call

LEMMA UndecidedIsOpen == Undecided \cap Device!Terminal = {}
  BY DEF Undecided, Device!Terminal

(* Answer: the request is over, and the computer goes on if it waited.     *)
LEMMA AnswerMoves ==
  ASSUME CompanionInv, ServerMoves, NEW d \in Devices, NEW c \in calls[d], NEW e, NEW next,
         Device!Answer(d, c, e, next),
         c.awaited => e \in Engines /\ FailuresCounted(e) /\ OutcomeTrue(d, e)' /\ NextCalls(e, next)
  PROVE  Kept
<1>1. /\ calls[d] \in SUBSET Device!Call /\ engine[d] \in Engines /\ CallsOfOne(calls[d])
      /\ OutcomeWaitsForNothing(engine[d], calls[d]) /\ FailuresCounted(engine[d])
      /\ OutcomeTrue(d, engine[d])
  BY DEF CompanionInv, ComputerInv
<1>2. CASE ~c.awaited
  <2> DEFINE cs == calls[d] \ {c}
  <2>1. PICK rest : rest = cs
    OBVIOUS
  <2>2. calls' = [calls EXCEPT ![d] = rest] /\ engine' = [engine EXCEPT ![d] = engine[d]]
    <3>1. calls' = [calls EXCEPT ![d] = @ \ {c}] /\ engine' = engine
      BY <1>2 DEF Device!Answer
    <3>2. [engine EXCEPT ![d] = engine[d]] = engine
      BY DEF CompanionInv
    <3> QED BY <2>1, <3>1, <3>2
  <2>3. rest \in SUBSET Device!Call /\ CallsOfOne(rest)
        /\ OutcomeWaitsForNothing(engine[d], rest)
    BY <1>1, <2>1 DEF CallsOfOne, OutcomeWaitsForNothing
  <2>4. PICK same : same = engine[d]
    OBVIOUS
  <2>5. OutcomeTrue(d, same)'
    BY <1>1, <2>4, OutcomeLasts DEF ServerMoves
  <2> QED BY <1>1, <2>2, <2>3, <2>4, <2>5, ComputerMoves
<1>3. CASE c.awaited
  <2>1. PICK rest : rest = (calls[d] \ {c}) \cup next
    OBVIOUS
  <2>2. calls' = [calls EXCEPT ![d] = rest] /\ engine' = [engine EXCEPT ![d] = e]
    BY <1>3, <2>1 DEF Device!Answer
  <2>3. \A b \in calls[d] \ {c} : ~b.awaited
    BY <1>1, <1>3 DEF CallsOfOne, Device!Call
  <2>4. rest \in SUBSET Device!Call /\ CallsOfOne(rest) /\ OutcomeWaitsForNothing(e, rest)
    <3>1. CASE next = {}
      BY <1>1, <2>1, <2>3, <3>1 DEF CallsOfOne, OutcomeWaitsForNothing
    <3>2. ASSUME NEW op \in Device!Operations, NEW at \in 0..Chunks,
                 op = "PUT" => at < Chunks, next = {Device!Request(op, at)}, e.state \in Undecided
          PROVE  rest \in SUBSET Device!Call /\ CallsOfOne(rest) /\ OutcomeWaitsForNothing(e, rest)
      <4>1. PICK r \in Device!Call : next = {r} /\ r.awaited /\ r.op = op /\ r.at = at
        BY <3>2, RequestIsCall
      <4>2. rest \subseteq Device!Call /\ \A b \in rest : b.op = "PUT" => b.at < Chunks
        BY <1>1, <2>1, <3>2, <4>1 DEF CallsOfOne
      <4>3. \A a, b \in rest : a.awaited = b.awaited => a = b
        <5>1. \A b \in rest : b = r \/ (b \in calls[d] /\ ~b.awaited)
          BY <2>1, <2>3, <4>1
        <5> QED BY <1>1, <4>1, <5>1 DEF CallsOfOne
      <4>4. OutcomeWaitsForNothing(e, rest)
        BY <3>2, UndecidedIsOpen DEF OutcomeWaitsForNothing
      <4> QED BY <4>2, <4>3, <4>4 DEF CallsOfOne
    <3> QED BY <1>3, <3>1, <3>2 DEF NextCalls, AtMostOneRequest
  <2> QED BY <1>3, <2>2, <2>4, ComputerMoves
<1> QED BY <1>2, <1>3 DEF Device!Answer

(* An answer that waits knows a computer without an outcome.               *)
LEMMA AnsweredIsUndecided ==
  ASSUME CompanionInv, NEW d \in Devices, NEW c \in calls[d], c.awaited
  PROVE  engine[d] \in Engines /\ engine[d].state \in Undecided /\ engine[d].failures < MaxFailures
  BY WaitingIsUndecided DEF Device!Awaiting

LEMMA FailureAnswered ==
  ASSUME CompanionInv, ServerMoves, NEW d \in Devices, NEW c \in calls[d],
         NEW fatal \in BOOLEAN, NEW rejected \in BOOLEAN,
         Device!Answer(d, c, Device!Failed(engine[d], fatal, rejected), {})
  PROVE  Kept
<1>1. PICK e : e = engine[d]
  OBVIOUS
<1>2. c.awaited => /\ Device!Failed(e, fatal, rejected) \in Engines
                   /\ FailuresCounted(Device!Failed(e, fatal, rejected))
                   /\ OutcomeTrue(d, Device!Failed(e, fatal, rejected))'
  BY <1>1, AnsweredIsUndecided, FailedIsCounted
<1>3. PICK f : f = Device!Failed(e, fatal, rejected)
  OBVIOUS
<1> QED BY <1>1, <1>2, <1>3, AnswerMoves DEF NextCalls, AtMostOneRequest

(* The computer keeps its receipt, or notes an outcome or the verification. *)
LEMMA ReceiptAnswered ==
  ASSUME CompanionInv, ServerMoves, NEW d \in Devices, NEW c \in calls[d], NEW state, NEW next,
         Device!Answer(d, c, [engine[d] EXCEPT !.state = state], next),
         state \in Undecided \cup Device!Terminal,
         state = "COMPLETE" => deviceSession'.state = "COMPLETE",
         state = "DUPLICATE" => receipt'.suppressed \/ receipt'.holder \notin {"nobody", d},
         state \in {"REMOVED", "CANCELLED"} => deviceSession'.state \in Device!Gone,
         NextCalls([engine[d] EXCEPT !.state = state], next)
  PROVE  Kept
<1>1. PICK e : e = [engine[d] EXCEPT !.state = state]
  OBVIOUS
<1>2. ASSUME c.awaited PROVE e \in Engines /\ e.state = state /\ FailuresCounted(e)
  BY <1>1, <1>2, AnsweredIsUndecided DEF Engines, Undecided, FailuresCounted
<1>3. ASSUME c.awaited PROVE OutcomeTrue(d, e)'
  BY <1>2, <1>3 DEF OutcomeTrue, ServerMoves, RowsAgree
<1> QED BY <1>1, <1>2, <1>3, AnswerMoves

(* Other answers: the receipt keeps its state, or gives up its cancellation. *)
LEMMA OtherwiseAnswered ==
  ASSUME CompanionInv, ServerMoves, NEW d \in Devices, NEW c \in calls[d], NEW e, NEW next,
         Device!Answer(d, c, e, next),
         engine[d] \in Engines => e \in Engines,
         e.failures \in {0, engine[d].failures},
         \/ e.state = engine[d].state
         \/ e.state = "CANCELLED" /\ deviceSession'.state \in Device!Gone
         \/ e.state = "COMPLETE" /\ deviceSession'.state = "COMPLETE",
         AtMostOneRequest(next), e.state = engine[d].state \/ next = {}
  PROVE  Kept
<1>1. ASSUME c.awaited PROVE e \in Engines /\ FailuresCounted(e) /\ NextCalls(e, next)
  BY <1>1, AnsweredIsUndecided, CompanionAssumption DEF FailuresCounted, NextCalls
<1>2. PICK f : f = e
  OBVIOUS
<1>3. ASSUME c.awaited PROVE OutcomeTrue(d, f)'
  <2>1. \/ f.state \in Undecided
        \/ f.state = "CANCELLED" /\ deviceSession'.state \in Device!Gone
        \/ f.state = "COMPLETE" /\ deviceSession'.state = "COMPLETE"
    BY <1>2, <1>3, AnsweredIsUndecided
  <2> QED BY <2>1 DEF OutcomeTrue, Undecided, ServerMoves, RowsAgree
<1> QED BY <1>1, <1>2, <1>3, AnswerMoves
-----------------------------------------------------------------------------
(* The requests. *)

LEMMA ServedRows ==
  ASSUME CompanionInv, NEW d \in Devices, NEW c \in calls[d]
  PROVE  /\ RowsAgree /\ deviceSession \in Sessions /\ receipt \in Receipts
         /\ engine[d] \in Engines /\ c \in Device!Call /\ (c.op = "PUT" => c.at < Chunks)
  BY DEF CompanionInv, RowsAgree, ComputerInv, CallsOfOne

LEMMA RequestOffered ==
  ASSUME NEW op \in Device!Operations, NEW at \in 0..Chunks, op = "PUT" => at < Chunks
  PROVE  AtMostOneRequest({Device!Request(op, at)})
  BY DEF AtMostOneRequest

LEMMA OpenedMoves ==
  ASSUME CompanionInv, ServerMoves, NEW d \in Devices, NEW c \in calls[d],
         Device!Opened(d, c, engine[d])
  PROVE  Kept
<1>1. PICK e : e = [engine[d] EXCEPT !.id = TRUE]
  OBVIOUS
<1>2. engine[d] \in Engines
  BY ServedRows
<1>3. e \in Engines /\ e.failures = engine[d].failures /\ e.state = engine[d].state
  BY <1>1, <1>2 DEF Engines
<1>4. PICK next : next = IF Device!Runs(d) THEN {Device!Request("GET", 0)} ELSE {}
  OBVIOUS
<1>5. Device!Answer(d, c, e, next)
  BY <1>1, <1>4 DEF Device!Opened
<1>6. AtMostOneRequest(next)
  <2>1. "GET" \in Device!Operations /\ 0 \in 0..Chunks
    BY CompanionAssumption DEF Device!Operations
  <2>2. AtMostOneRequest({Device!Request("GET", 0)})
    BY <2>1, RequestOffered
  <2>3. AtMostOneRequest({})
    BY DEF AtMostOneRequest
  <2> QED BY <1>4, <2>2, <2>3
<1> QED BY <1>2, <1>3, <1>5, <1>6, OtherwiseAnswered

LEMMA SkippedMoves ==
  ASSUME CompanionInv, ServerMoves, NEW d \in Devices, NEW c \in calls[d], NEW state,
         Device!Skipped(d, c, state),
         state \in Undecided \cup Device!Terminal,
         state = "COMPLETE" => deviceSession'.state = "COMPLETE",
         state = "DUPLICATE" => receipt'.suppressed \/ receipt'.holder \notin {"nobody", d},
         state \in {"REMOVED", "CANCELLED"} => deviceSession'.state \in Device!Gone
  PROVE  Kept
  BY ReceiptAnswered DEF Device!Skipped, NextCalls, AtMostOneRequest

(* device_uploads.                                                         *)
LEMMA PostKeeps ==
  ASSUME CompanionInv, NEW d \in Devices, NEW c \in calls[d],
         Device!PostKnown(d, c) \/ Device!PostElsewhere(d, c)
  PROVE  Kept
<1>1. RowsAgree /\ deviceSession \in Sessions /\ receipt \in Receipts
  BY ServedRows
<1>2. CASE Device!PostKnown(d, c)
  <2>1. ServerMoves /\ UNCHANGED <<receipt, deviceSession>>
    BY <1>2, ServerStands DEF Device!PostKnown, Device!serverVars
  <2>2. CASE Device!Skipped(d, c, "REMOVED") /\ deviceSession.state \in Device!Gone
    BY <2>1, <2>2, SkippedMoves DEF Device!Terminal
  <2>3. CASE Device!Skipped(d, c, "DUPLICATE") /\ receipt.holder # d
    BY <1>1, <1>2, <2>1, <2>3, SkippedMoves DEF Device!Terminal, Device!PostKnown, RowsAgree
  <2>4. CASE Device!Opened(d, c, engine[d])
    BY <2>1, <2>4, OpenedMoves
  <2>5. CASE Device!Rejected(d, c)
    BY <2>1, <2>5, FailureAnswered DEF Device!Rejected
  <2>6. \/ deviceSession.state \in Device!Gone /\ Device!Skipped(d, c, "REMOVED")
        \/ receipt.holder # d /\ Device!Skipped(d, c, "DUPLICATE")
        \/ Device!Rejected(d, c)
        \/ Device!Opened(d, c, engine[d])
    BY <1>2 DEF Device!PostKnown
  <2> QED BY <2>2, <2>3, <2>4, <2>5, <2>6
<1>3. CASE Device!PostElsewhere(d, c)
  <2>1. /\ receipt' \in Receipts /\ receipt'.opened = receipt.opened /\ ~receipt.opened
        /\ receipt.holder # "nobody" => receipt'.holder = receipt.holder
        /\ receipt.suppressed => receipt'.suppressed
        /\ receipt'.suppressed \/ receipt'.holder \notin {"nobody", d}
    BY <1>1, <1>3 DEF Device!PostElsewhere, Device!Nobody, Receipts
  <2>2. UNCHANGED <<consent, device, deviceSession, manual>> /\ Device!Skipped(d, c, "DUPLICATE")
    BY <1>3 DEF Device!PostElsewhere
  <2>3. ~Ongoing
    BY <1>1, <2>1 DEF RowsAgree
  <2>4. RowsAgree' /\ Device!RevokedDeviceIdle'
    BY <1>1, <2>1, <2>2, <2>3 DEF RowsAgree, Ongoing, Device!RevokedDeviceIdle
  <2>5. Forward
    BY <2>1, <2>2 DEF SessionForward, Forward
  <2> QED BY <2>1, <2>2, <2>4, <2>5, SkippedMoves DEF ServerMoves, Device!Terminal
<1> QED BY <1>2, <1>3

LEMMA PostOpensKeeps ==
  ASSUME CompanionInv, NEW d \in Devices, NEW c \in calls[d], Device!PostOpens(d, c)
  PROVE  Kept
<1>1. RowsAgree /\ deviceSession \in Sessions /\ receipt \in Receipts
  BY ServedRows
<1>2. /\ UNCHANGED <<consent, code, device, manual>> /\ consent /\ device[d] = "active"
      /\ receipt.holder = d \/ (receipt.holder = "nobody" /\ ~manual)
  BY DEF Device!PostOpens, Device!Handled, Device!Usable, Device!Nobody
<1>3. ~receipt.opened
  BY DEF Device!PostOpens
<1>4. CASE /\ receipt' = [receipt EXCEPT !.holder = d, !.opened = TRUE]
           /\ deviceSession' = IF deviceSession.state = "none"
                               THEN [deviceSession EXCEPT !.state = "UPLOADING"] ELSE deviceSession
           /\ Device!Opened(d, c, engine[d])
  <2>1. /\ receipt' \in Receipts /\ receipt'.holder = d /\ receipt'.opened
        /\ receipt'.suppressed = receipt.suppressed
    BY <1>1, <1>4 DEF Receipts
  <2>2. /\ deviceSession' \in Sessions /\ deviceSession'.overdue = deviceSession.overdue
        /\ deviceSession'.received = deviceSession.received
        /\ deviceSession'.state = IF deviceSession.state = "none" THEN "UPLOADING"
                                  ELSE deviceSession.state
    BY <1>1, <1>4 DEF Sessions
  <2>3. d # "nobody"
    BY CompanionAssumption
  <2>4. RowsAgree'
    BY <1>1, <1>2, <1>3, <2>1, <2>2, <2>3 DEF RowsAgree, Ongoing
  <2>5. Device!RevokedDeviceIdle'
    BY <1>2, <2>1 DEF Device!RevokedDeviceIdle
  <2>6. Forward
    BY <1>2, <2>1, <2>2, <2>3 DEF SessionForward, Device!Gone, Forward
  <2> QED BY <1>4, <2>4, <2>5, <2>6, OpenedMoves DEF ServerMoves
<1>5. CASE /\ deviceSession.state = "none"
           /\ receipt' = [receipt EXCEPT !.holder = d]
           /\ deviceSession' = Device!Removed
           /\ Device!Answer(d, c, Device!Failed(engine[d], FALSE, FALSE), {})
  <2>1. /\ receipt' \in Receipts /\ receipt'.holder = d /\ ~receipt'.opened
        /\ receipt'.suppressed = receipt.suppressed
    BY <1>1, <1>3, <1>5 DEF Receipts
  <2>2. deviceSession' \in Sessions /\ ~deviceSession'.overdue /\ deviceSession'.state = "PURGING"
    BY <1>1, <1>5, RemovedSession
  <2>3. d # "nobody"
    BY CompanionAssumption
  <2>4. RowsAgree' /\ Device!RevokedDeviceIdle'
    BY <1>1, <1>2, <2>1, <2>2 DEF RowsAgree, Ongoing, Device!RevokedDeviceIdle
  <2>5. Forward
    BY <1>2, <1>5, <2>1, <2>2, <2>3 DEF SessionForward, Device!Gone, Forward
  <2> QED BY <1>5, <2>4, <2>5, FailureAnswered DEF ServerMoves
<1>6. CASE /\ Device!Answer(d, c, Device!Failed(engine[d], FALSE, FALSE), {})
           /\ UNCHANGED <<receipt, deviceSession>>
  <2>1. ServerMoves
    BY <1>2, <1>6, ServerStands DEF Device!serverVars
  <2> QED BY <1>6, <2>1, FailureAnswered
<1> QED BY <1>4, <1>5, <1>6 DEF Device!PostOpens

(* device_session.                                                         *)
LEMMA GetKeeps ==
  ASSUME CompanionInv, NEW d \in Devices, NEW c \in calls[d], Device!Get(d, c)
  PROVE  Kept
<1>1. RowsAgree /\ deviceSession \in Sessions /\ engine[d] \in Engines
  BY ServedRows
<1>2. ServerMoves /\ UNCHANGED <<receipt, deviceSession>>
  BY ServerStands DEF Device!Get, Device!serverVars
<1>3. CASE Device!Answer(d, c, engine[d], {})
  BY <1>2, <1>3, OtherwiseAnswered DEF NextCalls, AtMostOneRequest
<1>4. ASSUME NEW state \in {"COMPLETE", "CANCELLED"},
             state = "COMPLETE" => deviceSession.state = "COMPLETE",
             state = "CANCELLED" => deviceSession.state \in Device!Gone,
             Device!Answer(d, c, Device!Cancelled(engine[d], state), {})
      PROVE  Kept
  <2>1. PICK e : e = Device!Cancelled(engine[d], state)
    OBVIOUS
  <2>2. e \in Engines /\ e.failures = engine[d].failures /\ e.state = state
    BY <1>1, <2>1 DEF Device!Cancelled, Engines, Device!Terminal
  <2> QED BY <1>2, <1>4, <2>1, <2>2, OtherwiseAnswered DEF NextCalls, AtMostOneRequest
<1>5. ASSUME NEW op \in Device!Operations, NEW at \in 0..Chunks, op = "PUT" => at < Chunks,
             Device!Answer(d, c, engine[d], {Device!Request(op, at)})
      PROVE  Kept
  BY <1>2, <1>5, OtherwiseAnswered, RequestOffered
<1>6. ASSUME NEW state \in {"REMOVED", "COMPLETE", "CANCELLED", "VERIFYING", "REJECTED"},
             Device!Skipped(d, c, state),
             state = "COMPLETE" => deviceSession.state = "COMPLETE",
             state \in {"REMOVED", "CANCELLED"} => deviceSession.state \in Device!Gone
      PROVE  Kept
  BY <1>1, <1>2, <1>6, SkippedMoves DEF Device!Terminal, Undecided
<1>7. 0 \in 0..Chunks /\ {"DELETE", "PUT", "complete"} \subseteq Device!Operations
  BY CompanionAssumption DEF Device!Operations
<1>8. CASE Device!Answer(d, c, engine[d], {Device!Request("DELETE", 0)})
  BY <1>5, <1>7, <1>8
<1>9. CASE Device!Answer(d, c, engine[d],
             {IF deviceSession.received < Chunks THEN Device!Request("PUT", deviceSession.received)
              ELSE Device!Request("complete", 0)})
  <2>1. deviceSession.received \in 0..Chunks
    BY <1>1 DEF Sessions
  <2>2. CASE deviceSession.received < Chunks
    <3>1. Device!Answer(d, c, engine[d], {Device!Request("PUT", deviceSession.received)})
      BY <1>9, <2>2
    <3> QED BY <1>5, <1>7, <2>1, <2>2, <3>1
  <2>3. CASE ~(deviceSession.received < Chunks)
    <3>1. Device!Answer(d, c, engine[d], {Device!Request("complete", 0)})
      BY <1>9, <2>3
    <3> QED BY <1>5, <1>7, <3>1
  <2> QED BY <2>2, <2>3
<1>10. \/ Device!Answer(d, c, engine[d], {})
       \/ \E state \in {"COMPLETE", "CANCELLED"} :
            /\ state = "COMPLETE" => deviceSession.state = "COMPLETE"
            /\ state = "CANCELLED" => deviceSession.state \in Device!Gone
            /\ Device!Answer(d, c, Device!Cancelled(engine[d], state), {})
       \/ Device!Answer(d, c, engine[d], {Device!Request("DELETE", 0)})
       \/ \E state \in {"REMOVED", "COMPLETE", "CANCELLED", "VERIFYING", "REJECTED"} :
            /\ Device!Skipped(d, c, state)
            /\ state = "COMPLETE" => deviceSession.state = "COMPLETE"
            /\ state \in {"REMOVED", "CANCELLED"} => deviceSession.state \in Device!Gone
       \/ Device!Answer(d, c, engine[d],
            {IF deviceSession.received < Chunks THEN Device!Request("PUT", deviceSession.received)
             ELSE Device!Request("complete", 0)})
       \/ Device!Rejected(d, c)
  BY DEF Device!Get, Device!Gone
<1>11. CASE Device!Rejected(d, c)
  BY <1>2, <1>11, FailureAnswered DEF Device!Rejected
<1> QED BY <1>3, <1>4, <1>6, <1>8, <1>9, <1>10, <1>11

(* device_chunk and device_complete: the row goes on, or the answer fails. *)
LEMMA OngoingMoves ==
  ASSUME CompanionInv, UNCHANGED <<consent, device, receipt>>, Ongoing,
         deviceSession' \in Sessions, deviceSession'.state \in {"UPLOADING", "VERIFYING"},
         deviceSession'.state = "VERIFYING" => deviceSession'.received = Chunks
  PROVE  ServerMoves
<1>1. SessionForward
  BY DEF SessionForward, Ongoing, Device!Gone
<1> QED BY <1>1, SessionMoves DEF Ongoing

LEMMA PutKeeps ==
  ASSUME CompanionInv, NEW d \in Devices, NEW c \in calls[d], Device!Put(d, c)
  PROVE  Kept
<1>1. /\ RowsAgree /\ deviceSession \in Sessions /\ engine[d] \in Engines
      /\ c.at \in 0..Chunks /\ c.at < Chunks
  BY ServedRows DEF Device!Put, Device!Call
<1>2. CASE /\ deviceSession.state = "UPLOADING"
           /\ deviceSession' = [deviceSession EXCEPT !.received = IF c.at = @ THEN @ + 1 ELSE @]
           /\ UNCHANGED <<consent, code, device, receipt, manual>>
           /\ \/ Device!Answer(d, c, [engine[d] EXCEPT !.failures = 0], {})
              \/ Device!Skipped(d, c, "REJECTED")
              \/ Device!Answer(d, c, engine[d],
                   {IF c.at + 1 < Chunks THEN Device!Request("PUT", c.at + 1)
                    ELSE Device!Request("complete", 0)})
  <2>1. deviceSession' \in Sessions /\ deviceSession'.state = "UPLOADING"
    BY <1>1, <1>2, CompanionAssumption DEF Sessions
  <2>2. ServerMoves
    BY <1>2, <2>1, OngoingMoves DEF Ongoing
  <2>3. CASE Device!Answer(d, c, [engine[d] EXCEPT !.failures = 0], {})
    <3>1. PICK e : e = [engine[d] EXCEPT !.failures = 0]
      OBVIOUS
    <3>2. e \in Engines /\ e.failures = 0 /\ e.state = engine[d].state
      BY <1>1, <3>1, CompanionAssumption DEF Engines
    <3> QED BY <2>2, <2>3, <3>1, <3>2, OtherwiseAnswered DEF AtMostOneRequest
  <2>4. CASE Device!Skipped(d, c, "REJECTED")
    BY <2>2, <2>4, SkippedMoves DEF Device!Terminal
  <2>5. CASE Device!Answer(d, c, engine[d],
               {IF c.at + 1 < Chunks THEN Device!Request("PUT", c.at + 1)
                ELSE Device!Request("complete", 0)})
    <3>1. /\ c.at + 1 \in 0..Chunks /\ 0 \in 0..Chunks
          /\ "PUT" \in Device!Operations /\ "complete" \in Device!Operations
      BY <1>1, CompanionAssumption DEF Device!Operations
    <3>2. PICK next : next = {IF c.at + 1 < Chunks THEN Device!Request("PUT", c.at + 1)
                              ELSE Device!Request("complete", 0)}
      OBVIOUS
    <3>3. AtMostOneRequest(next)
      <4>1. CASE c.at + 1 < Chunks
        <5>1. next = {Device!Request("PUT", c.at + 1)}
          BY <3>2, <4>1
        <5> QED BY <3>1, <4>1, <5>1, RequestOffered
      <4>2. CASE ~(c.at + 1 < Chunks)
        <5>1. next = {Device!Request("complete", 0)}
          BY <3>2, <4>2
        <5> QED BY <3>1, <5>1, RequestOffered
      <4> QED BY <4>1, <4>2
    <3> QED BY <1>1, <2>2, <2>5, <3>2, <3>3, OtherwiseAnswered
  <2> QED BY <1>2, <2>3, <2>4, <2>5
<1>3. CASE /\ Device!Answer(d, c, Device!Failed(engine[d], FALSE, TRUE), {})
           /\ UNCHANGED <<consent, code, device, receipt, deviceSession, manual>>
  <2>1. ServerMoves
    BY <1>3, ServerStands DEF Device!serverVars
  <2> QED BY <1>3, <2>1, FailureAnswered
<1> QED BY <1>2, <1>3 DEF Device!Put, Device!Rejected

LEMMA CompleteKeeps ==
  ASSUME CompanionInv, NEW d \in Devices, NEW c \in calls[d], Device!Complete(d, c)
  PROVE  Kept
<1>1. RowsAgree /\ deviceSession \in Sessions /\ engine[d] \in Engines
  BY ServedRows
<1>2. CASE /\ Device!Completable
           /\ deviceSession' = IF deviceSession.state = "COMPLETE" THEN deviceSession
                               ELSE [deviceSession EXCEPT !.state = "VERIFYING"]
           /\ UNCHANGED <<consent, code, device, receipt, manual>>
           /\ Device!Answer(d, c, [engine[d] EXCEPT !.state = "VERIFYING", !.failures = 0], {})
  <2>1. ASSUME deviceSession.state = "COMPLETE" PROVE ServerMoves
    BY <1>2, <2>1, ServerStands DEF Device!serverVars
  <2>2. ServerMoves
    <3>1. CASE deviceSession.state # "COMPLETE"
      <4>1. /\ Ongoing /\ deviceSession.received = Chunks
        BY <1>1, <1>2, <3>1 DEF Device!Completable, Device!InTime, Ongoing, RowsAgree
      <4>2. /\ deviceSession' \in Sessions /\ deviceSession'.state = "VERIFYING"
            /\ deviceSession'.received = deviceSession.received
        BY <1>1, <1>2, <3>1 DEF Sessions
      <4> QED BY <1>2, <4>1, <4>2, OngoingMoves
    <3> QED BY <2>1, <3>1
  <2>3. PICK e : e = [engine[d] EXCEPT !.state = "VERIFYING", !.failures = 0]
    OBVIOUS
  <2>4. e \in Engines /\ e.failures = 0 /\ e.state = "VERIFYING"
    <3>1. 0 \in 0..MaxFailures
      BY CompanionAssumption
    <3>2. PICK old \in Engines : old = engine[d]
      BY <1>1
    <3> QED BY <2>3, <3>1, <3>2 DEF Engines
  <2>5. FailuresCounted(e) /\ NextCalls(e, {})
    BY <2>4, CompanionAssumption DEF FailuresCounted, NextCalls, AtMostOneRequest
  <2>6. OutcomeTrue(d, e)'
    BY <2>4, NothingToProve DEF Undecided
  <2> QED BY <1>2, <2>2, <2>3, <2>4, <2>5, <2>6, AnswerMoves
<1>3. CASE /\ Device!Answer(d, c, Device!Failed(engine[d], FALSE, TRUE), {})
           /\ UNCHANGED <<consent, code, device, receipt, deviceSession, manual>>
  <2>1. ServerMoves
    BY <1>3, ServerStands DEF Device!serverVars
  <2> QED BY <1>3, <2>1, FailureAnswered
<1> QED BY <1>2, <1>3 DEF Device!Complete, Device!Rejected

LEMMA DeleteKeeps ==
  ASSUME CompanionInv, NEW d \in Devices, NEW c \in calls[d], Device!Delete(d, c)
  PROVE  Kept
<1>1. RowsAgree /\ deviceSession \in Sessions /\ engine[d] \in Engines
  BY ServedRows
<1>2. CASE /\ Device!Answer(d, c, Device!Failed(engine[d], FALSE, TRUE), {})
           /\ UNCHANGED <<consent, code, device, receipt, deviceSession, manual>>
  <2>1. ServerMoves
    BY <1>2, ServerStands DEF Device!serverVars
  <2> QED BY <1>2, <2>1, FailureAnswered
<1>3. CASE /\ deviceSession.state # "COMPLETE" /\ receipt.opened
           /\ deviceSession' = IF deviceSession.state = "CANCELLED" THEN deviceSession
                               ELSE Device!Removed
           /\ UNCHANGED <<consent, code, device, receipt, manual>>
           /\ Device!Answer(d, c, Device!Cancelled(engine[d], "CANCELLED"), {})
  <2>1. deviceSession.state # "none" /\ UNCHANGED <<consent, device, receipt>>
    BY <1>1, <1>3 DEF RowsAgree
  <2>2. ServerMoves /\ deviceSession'.state \in Device!Gone
    <3>1. CASE deviceSession.state = "CANCELLED"
      BY <1>3, <3>1, ServerStands DEF Device!serverVars, Device!Gone
    <3>2. CASE deviceSession' = Device!Removed
      BY <1>1, <2>1, <3>2, RemovalMoves, RemovedSession DEF Device!Gone
    <3> QED BY <1>3, <3>1, <3>2
  <2>3. PICK e : e = Device!Cancelled(engine[d], "CANCELLED")
    OBVIOUS
  <2>4. e \in Engines /\ e.failures = engine[d].failures /\ e.state = "CANCELLED"
    BY <1>1, <2>3 DEF Device!Cancelled, Engines, Device!Terminal
  <2>5. AtMostOneRequest({})
    BY DEF AtMostOneRequest
  <2> QED BY <1>3, <2>2, <2>3, <2>4, <2>5, OtherwiseAnswered
<1> QED BY <1>2, <1>3 DEF Device!Delete, Device!Mine, Device!Rejected
-----------------------------------------------------------------------------
(* The steps of a computer that the server does not see. *)

LEMMA EngineMoves ==
  ASSUME CompanionInv, UNCHANGED Device!serverVars, NEW d \in Devices, NEW e \in Engines,
         engine' = [engine EXCEPT ![d] = e],
         \/ UNCHANGED calls
         \/ calls' = [calls EXCEPT ![d] = Device!Late(d)],
         \/ e.state = engine[d].state /\ e.id = engine[d].id
         \/ /\ ~Device!Awaiting(d)
            /\ e.state = "REJECTED" \/ (e.state = "CANCELLED" /\ ~e.id),
         e.failures = engine[d].failures
  PROVE  Kept
<1>1. PICK cs : /\ cs = calls'[d] /\ calls' = [calls EXCEPT ![d] = cs] /\ cs \subseteq calls[d]
  BY DEF CompanionInv, Device!Late
<1>2. /\ calls[d] \in SUBSET Device!Call /\ CallsOfOne(calls[d])
      /\ OutcomeWaitsForNothing(engine[d], calls[d]) /\ FailuresCounted(engine[d])
      /\ OutcomeTrue(d, engine[d])
  BY DEF CompanionInv, ComputerInv
<1>3. cs \in SUBSET Device!Call /\ CallsOfOne(cs)
  BY <1>1, <1>2 DEF CallsOfOne
<1>4. OutcomeWaitsForNothing(e, cs)
  BY <1>1, <1>2 DEF OutcomeWaitsForNothing, Device!Awaiting
<1>5. FailuresCounted(e)
  BY <1>2 DEF FailuresCounted, Device!Terminal
<1>6. ServerMoves
  BY ServerStands
<1>7. OutcomeTrue(d, e)'
  <2>1. OutcomeTrue(d, e)
    BY <1>2 DEF OutcomeTrue
  <2> QED BY <1>6, <2>1, OutcomeLasts DEF ServerMoves
<1> QED BY <1>1, <1>3, <1>4, <1>5, <1>6, <1>7, ComputerMoves

LEMMA CallsMove ==
  ASSUME CompanionInv, UNCHANGED Device!serverVars, UNCHANGED engine, NEW d \in Devices,
         NEW cs \in SUBSET Device!Call, calls' = [calls EXCEPT ![d] = cs], CallsOfOne(cs),
         OutcomeWaitsForNothing(engine[d], cs)
  PROVE  Kept
<1>1. PICK e : e = engine[d]
  OBVIOUS
<1>2. e \in Engines /\ engine' = [engine EXCEPT ![d] = e] /\ FailuresCounted(e) /\ OutcomeTrue(d, e)
  BY <1>1 DEF CompanionInv, ComputerInv
<1>3. ServerMoves
  BY ServerStands
<1>4. OutcomeTrue(d, e)'
  BY <1>2, <1>3, OutcomeLasts DEF ServerMoves
<1> QED BY <1>1, <1>2, <1>3, <1>4, ComputerMoves

LEMMA WindowKeeps ==
  ASSUME CompanionInv, NEW d \in Devices,
         \/ Device!Start(d) \/ Device!Pause(d) \/ Device!Cancel(d) \/ Device!Crash(d)
         \/ Device!FileChanges(d) \/ Device!NothingToCancel(d)
  PROVE  Kept
<1>1. engine[d] \in Engines
  BY DEF CompanionInv
<1>2. UNCHANGED Device!serverVars
  BY DEF Device!Start, Device!Pause, Device!Cancel, Device!Crash, Device!FileChanges,
         Device!NothingToCancel
<1>3. \/ UNCHANGED calls
      \/ calls' = [calls EXCEPT ![d] = Device!Late(d)]
  BY DEF Device!Start, Device!Pause, Device!Cancel, Device!Crash, Device!FileChanges,
         Device!NothingToCancel
<1>4. ASSUME NEW e \in Engines, engine' = [engine EXCEPT ![d] = e],
             e.state = engine[d].state, e.id = engine[d].id, e.failures = engine[d].failures
      PROVE  Kept
  BY <1>2, <1>3, <1>4, EngineMoves
<1>5. CASE Device!Start(d)
  <2>1. PICK e : e = [engine[d] EXCEPT !.enabled = TRUE]
    OBVIOUS
  <2>2. /\ e \in Engines /\ e.state = engine[d].state /\ e.failures = engine[d].failures
        /\ e.id = engine[d].id
    BY <1>1, <2>1 DEF Engines
  <2>3. engine' = [engine EXCEPT ![d] = e]
    BY <1>5, <2>1 DEF Device!Start, CompanionInv
  <2> QED BY <1>4, <2>2, <2>3
<1>6. CASE Device!Pause(d)
  <2>1. PICK e : e = [engine[d] EXCEPT !.enabled = FALSE]
    OBVIOUS
  <2>2. /\ e \in Engines /\ e.state = engine[d].state /\ e.failures = engine[d].failures
        /\ e.id = engine[d].id
    BY <1>1, <2>1 DEF Engines
  <2>3. engine' = [engine EXCEPT ![d] = e]
    BY <1>6, <2>1 DEF Device!Pause, CompanionInv
  <2> QED BY <1>4, <2>2, <2>3
<1>7. CASE Device!Cancel(d)
  <2>1. PICK e : e = [engine[d] EXCEPT !.enabled = TRUE, !.cancel = TRUE]
    OBVIOUS
  <2>2. /\ e \in Engines /\ e.state = engine[d].state /\ e.failures = engine[d].failures
        /\ e.id = engine[d].id
    BY <1>1, <2>1 DEF Engines
  <2>3. engine' = [engine EXCEPT ![d] = e]
    BY <1>7, <2>1 DEF Device!Cancel, CompanionInv
  <2> QED BY <1>4, <2>2, <2>3
<1>8. CASE Device!Crash(d)
  <2>1. PICK e : e = [engine[d] EXCEPT !.enabled = FALSE, !.cancel = FALSE]
    OBVIOUS
  <2>2. /\ e \in Engines /\ e.state = engine[d].state /\ e.failures = engine[d].failures
        /\ e.id = engine[d].id
    BY <1>1, <2>1 DEF Engines
  <2>3. engine' = [engine EXCEPT ![d] = e]
    BY <1>8, <2>1 DEF Device!Crash, CompanionInv
  <2> QED BY <1>4, <2>2, <2>3
<1>9. CASE Device!NothingToCancel(d)
  <2>1. PICK e : e = [engine[d] EXCEPT !.cancel = FALSE, !.enabled = FALSE]
    OBVIOUS
  <2>2. /\ e \in Engines /\ e.state = engine[d].state /\ e.failures = engine[d].failures
        /\ e.id = engine[d].id
    BY <1>1, <2>1 DEF Engines
  <2>3. engine' = [engine EXCEPT ![d] = e]
    BY <1>9, <2>1 DEF Device!NothingToCancel, CompanionInv
  <2> QED BY <1>4, <2>2, <2>3
<1>10. CASE Device!FileChanges(d)
  <2>1. PICK e : e = [engine[d] EXCEPT !.intact = FALSE]
    OBVIOUS
  <2>2. /\ e \in Engines /\ e.state = engine[d].state /\ e.failures = engine[d].failures
        /\ e.id = engine[d].id
    BY <1>1, <2>1 DEF Engines
  <2>3. engine' = [engine EXCEPT ![d] = e]
    BY <1>10, <2>1 DEF Device!FileChanges, CompanionInv
  <2> QED BY <1>4, <2>2, <2>3
<1> QED BY <1>5, <1>6, <1>7, <1>8, <1>9, <1>10

LEMMA TickKeeps ==
  ASSUME CompanionInv, NEW d \in Devices, Device!Tick(d)
  PROVE  Kept
<1>1. /\ engine[d] \in Engines /\ CallsOfOne(calls[d]) /\ calls[d] \in SUBSET Device!Call
      /\ ~Device!Awaiting(d) /\ engine[d].state \notin Device!Terminal
      /\ UNCHANGED Device!serverVars
  BY DEF CompanionInv, ComputerInv, Device!Tick
<1>2. CASE /\ engine' = [engine EXCEPT ![d].state = "CANCELLED", ![d].cancel = FALSE,
                                       ![d].enabled = FALSE]
           /\ UNCHANGED calls /\ ~engine[d].id
  <2>1. PICK e : e = [engine[d] EXCEPT !.state = "CANCELLED", !.cancel = FALSE, !.enabled = FALSE]
    OBVIOUS
  <2>2. e \in Engines /\ e.state = "CANCELLED" /\ e.failures = engine[d].failures /\ ~e.id
    BY <1>1, <1>2, <2>1 DEF Engines, Device!Terminal
  <2>3. engine' = [engine EXCEPT ![d] = e]
    BY <1>2, <2>1 DEF CompanionInv
  <2> QED BY <1>1, <1>2, <2>2, <2>3, EngineMoves
<1>3. CASE engine' = [engine EXCEPT ![d].state = "REJECTED"] /\ UNCHANGED calls
  <2>1. PICK e : e = [engine[d] EXCEPT !.state = "REJECTED"]
    OBVIOUS
  <2>2. e \in Engines /\ e.state = "REJECTED" /\ e.failures = engine[d].failures
    BY <1>1, <2>1 DEF Engines, Device!Terminal
  <2>3. engine' = [engine EXCEPT ![d] = e]
    BY <1>3, <2>1 DEF CompanionInv
  <2> QED BY <1>1, <1>3, <2>2, <2>3, EngineMoves
<1>4. CASE /\ calls' = [calls EXCEPT ![d] =
                          @ \union {Device!Request(IF engine[d].id THEN "GET" ELSE "POST", 0)}]
           /\ UNCHANGED engine
  <2>1. PICK op \in {"GET", "POST"} : op = IF engine[d].id THEN "GET" ELSE "POST"
    OBVIOUS
  <2>2. op \in Device!Operations /\ op # "PUT" /\ 0 \in 0..Chunks
    BY CompanionAssumption, <2>1 DEF Device!Operations
  <2>3. PICK r \in Device!Call : r = Device!Request(op, 0) /\ r.awaited /\ r.op = op
    BY <2>2, RequestIsCall
  <2>4. PICK cs : cs = calls[d] \cup {r}
    OBVIOUS
  <2>5. calls' = [calls EXCEPT ![d] = cs]
    BY <1>4, <2>1, <2>3, <2>4
  <2>6. cs \in SUBSET Device!Call /\ CallsOfOne(cs)
    BY <1>1, <2>2, <2>3, <2>4 DEF CallsOfOne, Device!Awaiting, Device!Call
  <2> QED BY <1>1, <1>4, <2>5, <2>6, CallsMove DEF OutcomeWaitsForNothing
<1> QED BY <1>2, <1>3, <1>4 DEF Device!Tick

(* A request that times out may still be handled; one such is followed.    *)
LEMMA TimesOutKeeps ==
  ASSUME CompanionInv, NEW d \in Devices, NEW c \in calls[d], Device!TimesOut(d, c)
  PROVE  Kept
<1>1. PICK old \in Engines : old = engine[d] /\ old.state \in Undecided /\ old.failures < MaxFailures
  BY AnsweredIsUndecided DEF Device!TimesOut
<1>2. PICK e : e = Device!Failed(old, FALSE, FALSE)
  OBVIOUS
<1>3. e \in Engines /\ FailuresCounted(e)
  BY <1>1, <1>2, FailedIsCounted
<1>4. OutcomeTrue(d, e)'
  BY <1>1, <1>2, FailedIsCounted
<1>5. engine' = [engine EXCEPT ![d] = e]
  BY <1>1, <1>2 DEF Device!TimesOut
<1>6. PICK late : late = [c EXCEPT !.awaited = FALSE]
  OBVIOUS
<1>7. c \in Device!Call /\ CallsOfOne(calls[d])
  BY DEF CompanionInv, ComputerInv
<1>8. late \in Device!Call /\ ~late.awaited /\ late.op = c.op /\ late.at = c.at
  BY <1>6, <1>7 DEF Device!Call
<1>9. PICK cs : cs = IF Device!Late(d) = {} THEN {late} ELSE Device!Late(d)
  OBVIOUS
<1>10. calls' = [calls EXCEPT ![d] = cs]
  BY <1>6, <1>9 DEF Device!TimesOut
<1>11. cs \in SUBSET Device!Call /\ CallsOfOne(cs) /\ \A b \in cs : ~b.awaited
  BY <1>7, <1>8, <1>9 DEF CallsOfOne, Device!Late
<1>12. ServerMoves
  BY ServerStands DEF Device!TimesOut
<1> QED BY <1>3, <1>4, <1>5, <1>10, <1>11, <1>12, ComputerMoves DEF OutcomeWaitsForNothing

(* A late request is lost, or a request is authenticated.                  *)
LEMMA RequestKeeps ==
  ASSUME CompanionInv, NEW d \in Devices, NEW c \in calls[d],
         Device!LateIsLost(d, c) \/ Device!Authenticate(d, c)
  PROVE  Kept
<1>1. /\ calls[d] \in SUBSET Device!Call /\ CallsOfOne(calls[d])
      /\ OutcomeWaitsForNothing(engine[d], calls[d])
  BY DEF CompanionInv, ComputerInv
<1>2. CASE Device!LateIsLost(d, c)
  <2>1. PICK cs : cs = calls[d] \ {c}
    OBVIOUS
  <2>2. calls' = [calls EXCEPT ![d] = cs] /\ UNCHANGED engine /\ UNCHANGED Device!serverVars
    BY <1>2, <2>1 DEF Device!LateIsLost
  <2>3. cs \in SUBSET Device!Call /\ CallsOfOne(cs) /\ OutcomeWaitsForNothing(engine[d], cs)
    BY <1>1, <2>1 DEF CallsOfOne, OutcomeWaitsForNothing
  <2> QED BY <2>2, <2>3, CallsMove
<1>3. CASE Device!Authenticate(d, c)
  <2>1. PICK k : k = [c EXCEPT !.known = TRUE]
    OBVIOUS
  <2>2. k \in Device!Call /\ k.awaited = c.awaited /\ k.op = c.op /\ k.at = c.at
    BY <1>1, <2>1 DEF Device!Call
  <2>3. PICK cs : cs = (calls[d] \ {c}) \cup {k}
    OBVIOUS
  <2>4. calls' = [calls EXCEPT ![d] = cs] /\ UNCHANGED engine /\ UNCHANGED Device!serverVars
    BY <1>3, <2>1, <2>3 DEF Device!Authenticate
  <2>5. cs \in SUBSET Device!Call /\ CallsOfOne(cs)
    BY <1>1, <2>2, <2>3 DEF CallsOfOne
  <2>6. OutcomeWaitsForNothing(engine[d], cs)
    BY <1>1, <2>2, <2>3 DEF OutcomeWaitsForNothing
  <2> QED BY <2>4, <2>5, <2>6, CallsMove
<1> QED BY <1>2, <1>3

LEMMA RefusedKeeps ==
  ASSUME CompanionInv, NEW d \in Devices, NEW c \in calls[d], Device!Refused(d, c)
  PROVE  Kept
<1>1. ServerMoves
  BY ServerStands DEF Device!Refused
<1> QED BY <1>1, FailureAnswered DEF Device!Refused
-----------------------------------------------------------------------------
(* Every step. *)

LEMMA ServerKeeps ==
  ASSUME CompanionInv,
         \/ Device!CreatePairing \/ Device!ManualUpload \/ Device!DeleteRecording
         \/ Device!Verify \/ Device!TimeIsOver \/ Device!Expire \/ Device!Purge
         \/ \E withdraw \in BOOLEAN : Device!RevokeAll(withdraw)
         \/ \E d \in Devices : Device!RedeemPairing(d) \/ Device!RevokeDevice(d)
  PROVE  Kept
<1>1. UNCHANGED <<engine, calls>>
  BY DEF Device!CreatePairing, Device!ManualUpload, Device!DeleteRecording, Device!Verify,
         Device!TimeIsOver, Device!Expire, Device!Purge, Device!RevokeAll, Device!RedeemPairing, Device!RevokeDevice
<1>2. ServerMoves
  BY OwnerMoves, PairingMoves
<1> QED BY <1>1, <1>2, ComputersStand

LEMMA ServeKeeps ==
  ASSUME CompanionInv, NEW d \in Devices, NEW c \in calls[d], Device!Serve(d, c)
  PROVE  Kept
<1>1. CASE Device!Authenticate(d, c)
  BY <1>1, RequestKeeps
<1>2. CASE Device!Refused(d, c)
  BY <1>2, RefusedKeeps
<1>3. CASE Device!PostKnown(d, c) \/ Device!PostElsewhere(d, c)
  BY <1>3, PostKeeps
<1>4. CASE Device!PostOpens(d, c)
  BY <1>4, PostOpensKeeps
<1>5. CASE Device!Get(d, c)
  BY <1>5, GetKeeps
<1>6. CASE Device!Delete(d, c)
  BY <1>6, DeleteKeeps
<1>7. CASE Device!Put(d, c)
  BY <1>7, PutKeeps
<1>8. CASE Device!Complete(d, c)
  BY <1>8, CompleteKeeps
<1> QED BY <1>1, <1>2, <1>3, <1>4, <1>5, <1>6, <1>7, <1>8 DEF Device!Serve

LEMMA CompanionStep ==
  ASSUME CompanionInv, [Device!Next]_(Device!vars)
  PROVE  Kept
<1>1. CASE UNCHANGED Device!vars
  <2>1. UNCHANGED Device!serverVars /\ UNCHANGED <<engine, calls>>
    BY <1>1 DEF Device!vars, Device!serverVars
  <2> QED BY <2>1, ServerStands, ComputersStand
<1>2. ASSUME NEW d \in Devices,
             \/ Device!Start(d) \/ Device!Pause(d) \/ Device!Cancel(d) \/ Device!Crash(d)
             \/ Device!FileChanges(d) \/ Device!NothingToCancel(d)
      PROVE  Kept
  BY <1>2, WindowKeeps
<1>3. ASSUME NEW d \in Devices, Device!Tick(d) PROVE Kept
  BY <1>3, TickKeeps
<1>4. ASSUME NEW d \in Devices, NEW c \in calls[d],
             Device!TimesOut(d, c) \/ Device!LateIsLost(d, c) \/ Device!Serve(d, c)
      PROVE  Kept
  BY <1>4, TimesOutKeeps, RequestKeeps, ServeKeeps
<1> QED BY <1>1, <1>2, <1>3, <1>4, ServerKeeps DEF Device!Next

(* What the device API and the companion keep between them: companion.py,  *)
(* companion_api.py and companion/sync.py.  Only a receipt that was opened *)
(* has an upload in progress, only what is in progress runs out of time,   *)
(* what is verified has arrived whole, a computer awaits one answer and    *)
(* none after its outcome, and each receipt tells the truth about the      *)
(* server's rows.                                                          *)
THEOREM CompanionInvHolds == Device!Spec => []CompanionInv
<1>1. CompanionInv /\ [Device!Next]_(Device!vars) => CompanionInv'
  BY CompanionStep DEF Kept
<1> QED BY CompanionInit, <1>1, PTL DEF Device!Spec

(* Two requests of a computer are followed: one awaited and one late.      *)
LEMMA SameCardinality ==
  ASSUME NEW S PROVE Device!Cardinality(S) = Cardinality(S)
  BY DEF Device!Cardinality, Cardinality

LEMMA TwoCalls ==
  ASSUME NEW cs, CallsOfOne(cs) PROVE Cardinality(cs) <= 2
<1> DEFINE waited == {c \in cs : c.awaited}
           late   == {c \in cs : ~c.awaited}
<1>1. ASSUME NEW S, \A b, c \in S : b = c
      PROVE  IsFiniteSet(S) /\ Cardinality(S) \in {0, 1}
  <2>1. CASE S = {}
    BY <2>1, FS_EmptySet
  <2>2. ASSUME NEW c \in S PROVE IsFiniteSet(S) /\ Cardinality(S) = 1
    <3>1. S = {c}
      BY <1>1, <2>2
    <3> QED BY <3>1, FS_Singleton
  <2> QED BY <2>1, <2>2
<1>2. \A b, c \in waited : b = c
  BY DEF CallsOfOne
<1>3. \A b, c \in late : b = c
  BY DEF CallsOfOne, Device!Call
<1>4. cs = waited \cup late /\ waited \cap late = {}
  OBVIOUS
<1> HIDE DEF waited, late
<1>5. IsFiniteSet(waited) /\ Cardinality(waited) \in {0, 1}
  BY <1>1, <1>2
<1>6. IsFiniteSet(late) /\ Cardinality(late) \in {0, 1}
  BY <1>1, <1>3
<1>7. Cardinality(cs) = Cardinality(waited) + Cardinality(late) - Cardinality({})
  BY <1>4, <1>5, <1>6, FS_Union
<1> QED BY <1>5, <1>6, <1>7, FS_EmptySet

(* A device that was revoked, or whose owner withdrew sync, has nothing in *)
(* progress although its authenticated requests are still under way        *)
(* (require_device and fence_devices in companion.py); and what a computer *)
(* reports as its outcome (transfer in companion/sync.py) is so.           *)
THEOREM CompanionSoundHolds ==
  Device!Spec => []Device!CompanionSound /\ []CompanionSound
<1>1. ASSUME CompanionInv PROVE Device!CompanionSound
  <2>1. Device!TypeOK
    <3>1. ASSUME NEW d \in Devices
          PROVE  /\ calls[d] \subseteq Device!Call /\ Device!Cardinality(calls[d]) <= 2
                 /\ engine[d].failures <= MaxFailures
      <4>1. CallsOfOne(calls[d]) /\ engine[d] \in Engines
        BY <1>1, <3>1 DEF CompanionInv, ComputerInv
      <4>2. calls[d] \subseteq Device!Call /\ Cardinality(calls[d]) <= 2
        BY <4>1, TwoCalls DEF CallsOfOne
      <4>3. engine[d].failures <= MaxFailures
        BY <4>1, CompanionAssumption DEF Engines
      <4> QED BY <4>2, <4>3, SameCardinality
    <3>2. deviceSession.received \in 0..Chunks
      BY <1>1 DEF CompanionInv, RowsAgree, Sessions
    <3> QED BY <3>1, <3>2 DEF Device!TypeOK
  <2>2. Device!RevokedDeviceIdle
    BY <1>1 DEF CompanionInv
  <2>3. Device!LocalOutcomeTrue
    BY <1>1 DEF CompanionInv, ComputerInv, OutcomeTrue, Device!LocalOutcomeTrue, Device!Nobody
  <2> QED BY <2>1, <2>2, <2>3 DEF Device!CompanionSound
<1>2. Device!CompanionSound => CompanionSound
  BY DEF CompanionSound
<1> QED BY <1>1, <1>2, CompanionInvHolds, PTL

(* No retry, late request or new pairing restores a recording its owner    *)
(* removed, and none uploads bytes again that came in by hand              *)
(* (device_uploads in companion_api.py, under the receipt's lock).         *)
THEOREM RemovedStaysRemovedHolds ==
  Device!Spec => Device!RemovedStaysRemoved /\ RemovedStaysRemoved
<1>1. CompanionInv /\ [Device!Next]_(Device!vars) =>
        /\ [Device!NothingRestored]_(Device!vars)
        /\ [focus = "devices" => Device!NothingRestored]_companionVars
  <2> SUFFICES ASSUME CompanionInv, [Device!Next]_(Device!vars) PROVE Device!NothingRestored
    OBVIOUS
  <2>1. Kept
    BY CompanionStep
  <2>2. Forward /\ RowsAgree'
    BY <2>1 DEF Kept, CompanionInv
  <2> QED BY <2>2 DEF SessionForward, Forward, Device!NothingRestored, Device!Nobody
<1> QED BY <1>1, CompanionInvHolds, PTL
        DEF Device!Spec, Device!RemovedStaysRemoved, RemovedStaysRemoved
-----------------------------------------------------------------------------
(***************************************************************************)
(* The match history: for any number of pages and workers, of links, of    *)
(* corrections and analyses of a match.  The invariant has a part for each *)
(* page with its recording and its analyses, a part for the job and who    *)
(* holds its fence, and a part for the cursor.                             *)
(***************************************************************************)

Matches == [state : {"ABSENT", "METADATA_IMPORTED", "REVIEW_REQUIRED", "DELETED"},
            version : Nat, revision : Nat, facts : Nat]
Recordings == [state : {"NONE", "PENDING_REVIEW", "APPROVED", "WITHDRAWN"}, claim : Nat]
RunsOfMatch == [status : {"QUEUED", "ANALYSED", "FAILED", "PUBLISHED", "CANCELLED"}, facts : Nat]
Analyses == [runs : Seq(RunsOfMatch), published : Nat, contribution : Nat]
Players == [state : {"NONE", "CLAIMED", "REVOKED"}, links : Nat]
Jobs == [status : {"none", "PENDING", "PROCESSING", "COMPLETE", "CANCELLED", "ATTENTION_REQUIRED"},
         page : History!Pages, fence : Nat, attempts : Nat, leased : BOOLEAN, waiting : BOOLEAN]
Fetchers == [pc : {"idle", "claimed", "fetched", "invalid", "down"}, token : Nat, page : Nat,
             version : Nat, link : Nat]

(* What a match, its recording and its analyses say of each other.         *)
HeldStates == {"PENDING_REVIEW", "APPROVED"}
NewestOfAll(an, n) ==
  \A i \in 1..Len(an.runs) : an.runs[i].status = "PUBLISHED" => i <= n
MatchSound(m, gone, rec, an) ==
  /\ gone => m.state = "DELETED" /\ rec.state \notin HeldStates
  /\ rec.state = "APPROVED" /\ m.state = "METADATA_IMPORTED" => rec.claim = m.revision
  /\ NewestOfAll(an, an.published)
  /\ an.contribution # 0 =>
       /\ rec.state = "APPROVED" /\ m.state = "METADATA_IMPORTED"
       /\ an.contribution \in 1..Len(an.runs)
       /\ an.runs[an.contribution] = [status |-> "PUBLISHED", facts |-> m.facts]
       /\ NewestOfAll(an, an.contribution)

MatchesInv ==
  /\ match \in [History!Pages -> Matches] /\ suppressed \subseteq History!Pages
  /\ recording \in [History!Pages -> Recordings]
  /\ analyses \in [History!Pages -> Analyses]
  /\ \A p \in History!Pages :
       MatchSound(match[p], p \in suppressed, recording[p], analyses[p])

(* The job moves under a claimed player only, and a worker that holds its  *)
(* fence claimed it under the present link.                                *)
JobInv ==
  /\ processing \in BOOLEAN /\ identity \in Players
  /\ upstream \in [History!Pages -> Nat] /\ attaching \in [History!Pages -> Nat]
  /\ sync \in Jobs /\ fetcher \in [Workers -> Fetchers]
  /\ identity.state = "CLAIMED" => processing
  /\ identity.state # "CLAIMED" => sync.status \in {"none", "CANCELLED"}
  /\ \A w \in Workers :
       /\ fetcher[w].token <= sync.fence
       /\ /\ fetcher[w].pc # "idle" /\ fetcher[w].token = sync.fence
          /\ sync.status = "PROCESSING"
          => fetcher[w].link = identity.links

(* Every page before the cursor has been seen.                             *)
Seen(p) == History!Known(p) \/ p \in suppressed
CursorInv ==
  \A p \in History!Pages : p < sync.page \/ sync.status = "COMPLETE" => Seen(p)

HistoryInv == MatchesInv /\ JobInv /\ CursorInv

LEMMA HistoryInit == History!Init => HistoryInv
<1> SUFFICES ASSUME History!Init PROVE HistoryInv
  OBVIOUS
<1>1. MatchesInv
  BY EmptySeq DEF History!Init, MatchesInv, Matches, Recordings, Analyses, MatchSound, HeldStates,
         NewestOfAll
<1>2. JobInv
  BY HistoryAssumption
     DEF History!Init, History!Idle, History!NoSync, History!None, History!Pages, JobInv, Players,
         Jobs, Fetchers
<1>3. CursorInv
  BY DEF History!Init, History!NoSync, CursorInv, History!Pages
<1> QED BY <1>1, <1>2, <1>3 DEF HistoryInv
-----------------------------------------------------------------------------
(* The matches. *)

LEMMA MatchesStand ==
  ASSUME MatchesInv, UNCHANGED <<match, suppressed, recording, analyses>>
  PROVE  MatchesInv'
  BY DEF MatchesInv

LEMMA MatchMoves ==
  ASSUME MatchesInv, NEW p \in History!Pages,
         NEW m \in Matches, NEW rec \in Recordings, NEW an \in Analyses,
         match' = [match EXCEPT ![p] = m], recording' = [recording EXCEPT ![p] = rec],
         analyses' = [analyses EXCEPT ![p] = an],
         suppressed' \subseteq suppressed \cup {p}, suppressed \subseteq suppressed',
         MatchSound(m, p \in suppressed', rec, an)
  PROVE  MatchesInv'
<1>1. /\ match' \in [History!Pages -> Matches] /\ suppressed' \subseteq History!Pages
      /\ recording' \in [History!Pages -> Recordings]
      /\ analyses' \in [History!Pages -> Analyses]
  BY DEF MatchesInv
<1>2. ASSUME NEW q \in History!Pages
      PROVE  MatchSound(match[q], q \in suppressed, recording[q], analyses[q])'
  <2>1. CASE q = p
    <3>1. match'[q] = m /\ recording'[q] = rec /\ analyses'[q] = an
      BY <2>1 DEF MatchesInv
    <3> QED BY <2>1, <3>1
  <2>2. CASE q # p
    <3>1. /\ match'[q] = match[q] /\ recording'[q] = recording[q]
          /\ analyses'[q] = analyses[q] /\ (q \in suppressed' <=> q \in suppressed)
      BY <2>2 DEF MatchesInv
    <3>2. MatchSound(match[q], q \in suppressed, recording[q], analyses[q])
      BY DEF MatchesInv
    <3> QED BY <3>1, <3>2 DEF MatchSound
  <2> QED BY <2>1, <2>2
<1> QED BY <1>1, <1>2 DEF MatchesInv
-----------------------------------------------------------------------------
(* The job and its workers. *)

JobRest == processing \in BOOLEAN /\ upstream \in [History!Pages -> Nat]
           /\ attaching \in [History!Pages -> Nat]

(* Every revocation of the player fences the job in the same transaction.  *)
LEMMA RevocationFences ==
  ASSUME JobInv, identity' = History!Revoked(identity), sync' = History!Fenced(sync),
         UNCHANGED fetcher, JobRest'
  PROVE  JobInv' /\ sync'.page \in {1, sync.page} /\ sync'.status # "COMPLETE"
<1>1. identity' \in Players /\ identity'.state # "CLAIMED"
  BY DEF JobInv, History!Revoked, Players
<1>2. /\ sync' \in Jobs /\ sync'.status \in {"none", "CANCELLED"} /\ sync'.fence >= sync.fence
      /\ sync'.page \in {1, sync.page}
  <2>1. 1 \in History!Pages
    BY HistoryAssumption DEF History!Pages
  <2>2. CASE sync.status \in {"none", "CANCELLED"}
    <3>1. sync' = sync /\ sync \in Jobs
      BY <2>2 DEF JobInv, History!Fenced
    <3>2. sync.fence \in Nat
      BY <3>1 DEF Jobs
    <3>3. sync'.fence >= sync.fence
      BY <3>1, <3>2
    <3>4. sync'.status = sync.status /\ sync'.page = sync.page /\ sync' \in Jobs
      BY <3>1
    <3> QED BY <2>2, <3>3, <3>4
  <2>3. CASE sync.status \notin {"none", "CANCELLED"}
    <3>1. sync' = [sync EXCEPT !.status = "CANCELLED", !.fence = @ + 1, !.leased = FALSE, !.page = 1]
      BY <2>3 DEF History!Fenced
    <3>2. sync \in Jobs
      BY DEF JobInv
    <3>3. /\ sync' = [status |-> "CANCELLED", page |-> 1, fence |-> sync.fence + 1,
                       attempts |-> sync.attempts, leased |-> FALSE, waiting |-> sync.waiting]
          /\ sync.fence \in Nat /\ sync.attempts \in Nat /\ sync.waiting \in BOOLEAN
      BY <3>1, <3>2 DEF Jobs
    <3>4. sync' \in Jobs
      BY <2>1, <3>3 DEF Jobs
    <3>5. sync'.status = "CANCELLED" /\ sync'.page = 1 /\ sync'.fence >= sync.fence
      BY <3>3
    <3> QED BY <3>4, <3>5
  <2> QED BY <2>2, <2>3
<1>3. ASSUME NEW w \in Workers
      PROVE  fetcher[w].token <= sync'.fence
  BY <1>2 DEF JobInv, Jobs, Fetchers
<1> QED BY <1>1, <1>2, <1>3 DEF JobInv, JobRest

(* A claim raises the fence, so nobody else has a lease; the end of an     *)
(* attempt leaves its worker idle.                                         *)
LEMMA JobTypes ==
  ASSUME JobInv PROVE sync \in Jobs /\ JobRest /\ fetcher \in [Workers -> Fetchers]
                      /\ sync.page \in History!Pages /\ sync.fence \in Nat
  BY DEF JobInv, JobRest, Jobs

LEMMA FetcherMoves ==
  ASSUME JobInv, NEW w \in Workers, NEW f \in Fetchers, fetcher' = [fetcher EXCEPT ![w] = f],
         UNCHANGED identity, JobRest', identity.state = "CLAIMED" => processing',
         sync' \in Jobs, sync'.fence = sync.fence,
         identity.state # "CLAIMED" => sync'.status \in {"none", "CANCELLED"},
         sync'.status = "PROCESSING" => sync.status = "PROCESSING",
         \/ f.pc = "idle" /\ f.token = 0
         \/ f.pc # "idle" /\ fetcher[w].pc # "idle" /\ f.token = fetcher[w].token
            /\ f.link = fetcher[w].link
  PROVE  JobInv'
<1>1. fetcher' \in [Workers -> Fetchers] /\ fetcher'[w] = f
      /\ \A x \in Workers \ {w} : fetcher'[x] = fetcher[x]
  BY DEF JobInv
<1>2. ASSUME NEW x \in Workers
      PROVE  /\ fetcher'[x].token <= sync'.fence
             /\ /\ fetcher'[x].pc # "idle" /\ fetcher'[x].token = sync'.fence
                /\ sync'.status = "PROCESSING"
                => fetcher'[x].link = identity'.links
  <2>1. CASE x = w
    BY <1>1, <2>1, JobTypes DEF JobInv
  <2>2. CASE x # w
    BY <1>1, <2>2 DEF JobInv
  <2> QED BY <2>1, <2>2
<1> QED BY <1>1, <1>2 DEF JobInv, JobRest

(* The fetchers stand, and the job does not begin to be processed.         *)
LEMMA JobMoves ==
  ASSUME JobInv, UNCHANGED <<fetcher, identity>>, JobRest', identity.state = "CLAIMED" => processing',
         sync' \in Jobs, sync'.fence = sync.fence,
         identity.state # "CLAIMED" => sync'.status \in {"none", "CANCELLED"},
         sync'.status = "PROCESSING" => sync.status = "PROCESSING"
  PROVE  JobInv'
<1>1. ASSUME NEW w \in Workers
      PROVE  /\ fetcher'[w].token <= sync'.fence
             /\ /\ fetcher'[w].pc # "idle" /\ fetcher'[w].token = sync'.fence
                /\ sync'.status = "PROCESSING"
                => fetcher'[w].link = identity'.links
  BY DEF JobInv
<1>2. /\ identity' \in Players /\ fetcher' \in [Workers -> Fetchers]
      /\ identity'.state = "CLAIMED" => processing'
      /\ identity'.state # "CLAIMED" => sync'.status \in {"none", "CANCELLED"}
  BY DEF JobInv
<1> QED BY <1>1, <1>2 DEF JobInv, JobRest

LEMMA ClaimMoves ==
  ASSUME JobInv, NEW w \in Workers, History!Claim(w)
  PROVE  JobInv' /\ sync'.page = sync.page /\ sync'.status # "COMPLETE"
<1>1. sync \in Jobs /\ JobRest /\ identity.state = "CLAIMED" /\ identity \in Players
  BY JobTypes DEF History!Claim, History!Claimable, JobInv
<1>2. /\ sync' \in Jobs /\ sync'.fence = sync.fence + 1 /\ sync'.page = sync.page
      /\ sync'.status = "PROCESSING"
  <2>1. PICK job \in Jobs : job = sync
    BY <1>1
  <2>2. sync' = [job EXCEPT !.status = "PROCESSING", !.fence = @ + 1, !.attempts = @ + 1,
                            !.leased = TRUE]
    BY <2>1 DEF History!Claim
  <2>3. /\ sync' = [status |-> "PROCESSING", page |-> job.page, fence |-> job.fence + 1,
                    attempts |-> job.attempts + 1, leased |-> TRUE, waiting |-> job.waiting]
        /\ job.page \in History!Pages /\ job.fence \in Nat /\ job.attempts \in Nat
        /\ job.waiting \in BOOLEAN
    BY <2>2 DEF Jobs
  <2>4. sync' \in Jobs
    BY <2>3 DEF Jobs
  <2>5. sync'.fence = job.fence + 1 /\ sync'.page = job.page /\ sync'.status = "PROCESSING"
    BY <2>3
  <2> QED BY <2>1, <2>4, <2>5
<1>3. PICK f : f = [History!Idle EXCEPT !.pc = "claimed", !.token = sync'.fence, !.link = identity.links]
  OBVIOUS
<1>4. f \in Fetchers /\ f.token = sync'.fence /\ f.link = identity.links
  BY <1>1, <1>2, <1>3 DEF History!Idle, Fetchers, Players, Jobs
<1>5. fetcher' = [fetcher EXCEPT ![w] = f] /\ UNCHANGED <<processing, identity, upstream, attaching>>
  BY <1>3 DEF History!Claim, History!evidence
<1>6. ASSUME NEW x \in Workers
      PROVE  /\ fetcher'[x].token <= sync'.fence
             /\ fetcher'[x].token = sync'.fence => fetcher'[x].link = identity'.links
  <2>1. CASE x = w
    BY <1>2, <1>4, <1>5, <2>1 DEF JobInv, Jobs
  <2>2. CASE x # w
    <3>1. fetcher'[x] = fetcher[x] /\ fetcher[x].token \in Nat /\ fetcher[x].token <= sync.fence
          /\ sync.fence \in Nat
      BY <1>5, <2>2 DEF JobInv, Fetchers, Jobs
    <3> QED BY <1>2, <3>1
  <2> QED BY <2>1, <2>2
<1>7. fetcher' \in [Workers -> Fetchers]
  BY <1>4, <1>5 DEF JobInv
<1> QED BY <1>1, <1>2, <1>5, <1>6, <1>7 DEF JobInv, JobRest
-----------------------------------------------------------------------------
(* Every step keeps the invariant and imports nothing without authority.   *)
HistoryKept == HistoryInv' /\ History!AuthorizedImport

LEMMA CursorStands ==
  ASSUME CursorInv, JobInv, UNCHANGED <<match, suppressed>>, sync' \in Jobs,
         sync'.page \in {1, sync.page}, sync'.status = "COMPLETE" => sync.status = "COMPLETE"
  PROVE  CursorInv'
<1> SUFFICES ASSUME NEW p \in History!Pages, p < sync'.page \/ sync'.status = "COMPLETE"
             PROVE  Seen(p)'
  BY DEF CursorInv
<1>1. p < sync.page \/ sync.status = "COMPLETE"
  BY JobTypes, HistoryAssumption DEF History!Pages
<1>2. Seen(p)
  BY <1>1 DEF CursorInv
<1> QED BY <1>2 DEF Seen, History!Known

(* A step of the link, the consent, the job or a worker that imports       *)
(* nothing.                                                                *)
LEMMA JobStepKeeps ==
  ASSUME HistoryInv, UNCHANGED <<match, suppressed, recording, analyses>>, JobInv',
         sync'.page \in {1, sync.page}, sync'.status = "COMPLETE" => sync.status = "COMPLETE"
  PROVE  HistoryKept
<1>1. MatchesInv'
  BY MatchesStand DEF HistoryInv
<1>2. CursorInv'
  BY CursorStands DEF HistoryInv, JobInv
<1>3. ASSUME NEW p \in History!Pages
      PROVE  ~(match'[p].version > match[p].version)
  BY DEF HistoryInv, MatchesInv, Matches
<1> QED BY <1>1, <1>2, <1>3 DEF HistoryInv, HistoryKept, History!AuthorizedImport

LEMMA LinkKeeps ==
  ASSUME HistoryInv, History!Link
  PROVE  HistoryKept
<1> USE DEF History!Link, History!history, History!evidence
<1>1. JobInv
  BY DEF HistoryInv
<1>2. identity' \in Players /\ identity'.state = "CLAIMED"
  BY <1>1 DEF JobInv, Players
<1>3. sync.status \in {"none", "CANCELLED"}
  BY <1>1 DEF JobInv
<1>4. JobInv'
  BY <1>1, <1>2, <1>3 DEF JobInv
<1> QED BY <1>4, JobStepKeeps

LEMMA UnlinkKeeps ==
  ASSUME HistoryInv, History!Unlink
  PROVE  HistoryKept
<1> USE DEF History!Unlink, History!history, History!evidence
<1>1. JobInv
  BY DEF HistoryInv
<1>2. JobRest'
  BY <1>1 DEF JobInv, JobRest
<1>3. JobInv' /\ sync'.page \in {1, sync.page} /\ sync'.status # "COMPLETE"
  BY <1>1, <1>2, RevocationFences
<1> QED BY <1>3, JobStepKeeps

LEMMA GrantConsentKeeps ==
  ASSUME HistoryInv, History!GrantConsent
  PROVE  HistoryKept
<1> USE DEF History!GrantConsent, History!history, History!evidence
<1>1. JobInv
  BY DEF HistoryInv
<1>2. JobInv'
  BY <1>1 DEF JobInv
<1> QED BY <1>2, JobStepKeeps

LEMMA StartSyncKeeps ==
  ASSUME HistoryInv, History!StartSync
  PROVE  HistoryKept
<1> USE DEF History!StartSync, History!history, History!evidence
<1>1. JobInv /\ sync \in Jobs /\ 1 \in History!Pages
  BY JobTypes, HistoryAssumption DEF HistoryInv, History!Pages
<1>2. /\ sync' = [status |-> "PENDING", page |-> 1, fence |-> sync.fence, attempts |-> 0,
                  leased |-> FALSE, waiting |-> FALSE]
      /\ sync.fence \in Nat /\ 0 \in Nat
  BY <1>1 DEF Jobs
<1>3. sync' \in Jobs
  BY <1>1, <1>2 DEF Jobs
<1>4. sync'.fence = sync.fence /\ sync'.status = "PENDING" /\ sync'.page = 1
  BY <1>2
<1>5. JobInv'
  BY <1>1, <1>3, <1>4, JobMoves, JobTypes DEF JobInv, JobRest
<1> QED BY <1>4, <1>5, JobStepKeeps

LEMMA TimerKeeps ==
  ASSUME HistoryInv, History!LeaseExpires \/ History!RetryTimeComes \/ History!GiveUp
  PROVE  HistoryKept
<1> USE DEF History!LeaseExpires, History!RetryTimeComes, History!GiveUp, History!Claimable,
            History!history, History!evidence
<1>1. JobInv /\ sync \in Jobs
  BY JobTypes DEF HistoryInv
<1>2. /\ sync' \in Jobs /\ sync'.page = sync.page /\ sync'.fence = sync.fence
      /\ sync'.status \in {sync.status, "ATTENTION_REQUIRED"}
      /\ sync'.status # sync.status => identity.state = "CLAIMED"
  <2>1. CASE History!LeaseExpires
    <3>1. sync' = [sync EXCEPT !.leased = FALSE]
      BY <2>1
    <3>2. sync' \in Jobs /\ sync'.page = sync.page /\ sync'.fence = sync.fence
          /\ sync'.status = sync.status
      BY <1>1, <3>1 DEF Jobs
    <3> QED BY <3>2
  <2>2. CASE History!RetryTimeComes
    <3>1. sync' = [sync EXCEPT !.waiting = FALSE]
      BY <2>2
    <3>2. sync' \in Jobs /\ sync'.page = sync.page /\ sync'.fence = sync.fence
          /\ sync'.status = sync.status
      BY <1>1, <3>1 DEF Jobs
    <3> QED BY <3>2
  <2>3. CASE History!GiveUp
    <3>1. sync' = [sync EXCEPT !.status = "ATTENTION_REQUIRED"] /\ identity.state = "CLAIMED"
      BY <2>3
    <3>2. sync' \in Jobs /\ sync'.page = sync.page /\ sync'.fence = sync.fence
          /\ sync'.status = "ATTENTION_REQUIRED"
      BY <1>1, <3>1 DEF Jobs
    <3> QED BY <3>1, <3>2
  <2> QED BY <2>1, <2>2, <2>3
<1>3. JobInv'
  BY <1>1, <1>2, JobMoves, JobTypes DEF JobInv, JobRest
<1> QED BY <1>2, <1>3, JobStepKeeps

LEMMA ClaimKeeps ==
  ASSUME HistoryInv, NEW w \in Workers, History!Claim(w)
  PROVE  HistoryKept
<1>1. JobInv' /\ sync'.page = sync.page /\ sync'.status # "COMPLETE"
  BY ClaimMoves DEF HistoryInv
<1> QED BY <1>1, JobStepKeeps DEF History!Claim, History!history, History!evidence

LEMMA ProviderCorrectsKeeps ==
  ASSUME HistoryInv, NEW p \in History!Pages, History!ProviderCorrects(p)
  PROVE  HistoryKept
<1> USE DEF History!ProviderCorrects, History!history, History!evidence
<1>1. JobInv
  BY DEF HistoryInv
<1>2. upstream' \in [History!Pages -> Nat]
  BY <1>1 DEF JobInv
<1>3. JobInv'
  BY <1>1, <1>2 DEF JobInv
<1> QED BY <1>3, JobStepKeeps

LEMMA AbandonKeeps ==
  ASSUME HistoryInv, NEW w \in Workers, History!Abandon(w)
  PROVE  HistoryKept
<1> USE DEF History!Abandon, History!history, History!evidence
<1>1. JobInv
  BY DEF HistoryInv
<1>2. History!Idle \in Fetchers /\ History!Idle.pc = "idle" /\ History!Idle.token = 0
  BY DEF History!Idle, Fetchers
<1>3. JobInv'
  BY <1>1, <1>2, FetcherMoves, JobTypes DEF JobInv, JobRest
<1> QED BY <1>1, <1>3, JobStepKeeps, JobTypes

LEMMA FetchKeeps ==
  ASSUME HistoryInv, NEW w \in Workers, History!Fetch(w)
  PROVE  HistoryKept
<1> USE DEF History!Fetch, History!history, History!evidence
<1>1. JobInv /\ sync.page \in History!Pages /\ upstream \in [History!Pages -> Nat]
  BY JobTypes DEF HistoryInv, JobInv
<1>2. PICK g \in Fetchers : g = fetcher[w]
  BY <1>1 DEF JobInv
<1>3. \E f \in Fetchers : /\ fetcher' = [fetcher EXCEPT ![w] = f]
                          /\ f.pc # "idle" /\ f.token = g.token /\ f.link = g.link
  <2>1. CASE \E v \in 1..upstream[sync.page] :
               fetcher' = [fetcher EXCEPT ![w].pc = "fetched", ![w].page = sync.page,
                                          ![w].version = v]
    <3>1. PICK v \in 1..upstream[sync.page] :
            fetcher' = [fetcher EXCEPT ![w].pc = "fetched", ![w].page = sync.page,
                                       ![w].version = v]
      BY <2>1
    <3>2. PICK f : f = [g EXCEPT !.pc = "fetched", !.page = sync.page, !.version = v]
      OBVIOUS
    <3>3. f = [pc |-> "fetched", token |-> g.token, page |-> sync.page, version |-> v,
               link |-> g.link]
      BY <3>2 DEF Fetchers
    <3>4. fetcher' = [fetcher EXCEPT ![w] = f]
      <4>1. fetcher \in [Workers -> Fetchers]
        BY <1>1, JobTypes
      <4>2. fetcher' = [fetcher EXCEPT ![w] = [g EXCEPT !.pc = "fetched", !.page = sync.page,
                                                      !.version = v]]
        BY <1>2, <3>1, <4>1 DEF Fetchers
      <4> QED BY <3>2, <4>2
    <3>5. v \in Nat /\ sync.page \in Nat
      BY <1>1, HistoryAssumption DEF History!Pages
    <3>6. g.token \in Nat /\ g.link \in Nat
      BY DEF Fetchers
    <3>7. f \in Fetchers
      BY <3>3, <3>5, <3>6 DEF Fetchers
    <3>8. f.pc = "fetched" /\ f.token = g.token /\ f.link = g.link
      BY <3>3
    <3> QED BY <3>4, <3>7, <3>8
  <2>2. CASE \E answer \in {"invalid", "down"} : fetcher' = [fetcher EXCEPT ![w].pc = answer]
    <3>1. PICK answer \in {"invalid", "down"} : fetcher' = [fetcher EXCEPT ![w].pc = answer]
      BY <2>2
    <3>2. PICK f : f = [g EXCEPT !.pc = answer]
      OBVIOUS
    <3>3. f \in Fetchers /\ f.pc = answer /\ f.token = g.token /\ f.link = g.link
      BY <3>2 DEF Fetchers
    <3>4. fetcher' = [fetcher EXCEPT ![w] = f]
      BY <1>2, <3>1, <3>2
    <3> QED BY <3>3, <3>4
  <2> QED BY <2>1, <2>2
<1>4. PICK f \in Fetchers : /\ fetcher' = [fetcher EXCEPT ![w] = f]
                            /\ f.pc # "idle" /\ f.token = g.token /\ f.link = g.link
  BY <1>3
<1>5. UNCHANGED <<identity, sync>> /\ JobRest' /\ fetcher[w].pc = "claimed"
  BY <1>1, JobTypes DEF JobRest
<1>6. JobInv'
  <2>1. /\ sync' \in Jobs /\ sync'.fence = sync.fence /\ sync'.status = sync.status
        /\ identity.state = "CLAIMED" => processing'
        /\ identity.state # "CLAIMED" => sync'.status \in {"none", "CANCELLED"}
    BY <1>1, <1>5, JobTypes DEF JobInv
  <2> HIDE DEF History!Fetch
  <2> QED BY <1>1, <1>2, <1>4, <1>5, <2>1, FetcherMoves
<1> QED BY <1>1, <1>6, JobStepKeeps, JobTypes

LEMMA RefusePageKeeps ==
  ASSUME HistoryInv, NEW w \in Workers, History!RefusePage(w)
  PROVE  HistoryKept
<1> USE DEF History!RefusePage, History!history, History!evidence
<1>1. JobInv
  BY DEF HistoryInv
<1>2. PICK g \in Fetchers : g = fetcher[w]
  BY <1>1 DEF JobInv
<1>3. PICK f : f = [g EXCEPT !.pc = "invalid"]
  OBVIOUS
<1>4. f \in Fetchers /\ f.pc = "invalid" /\ f.token = g.token /\ f.link = g.link
  BY <1>3 DEF Fetchers
<1>5. fetcher' = [fetcher EXCEPT ![w] = f] /\ fetcher[w].pc # "idle"
  BY <1>2, <1>3
<1>6. JobInv'
  BY <1>1, <1>2, <1>4, <1>5, FetcherMoves, JobTypes DEF JobInv, JobRest
<1> QED BY <1>1, <1>6, JobStepKeeps, JobTypes

LEMMA EndAttemptKeeps ==
  ASSUME HistoryInv, NEW w \in Workers, History!EndAttempt(w)
  PROVE  HistoryKept
<1>1. JobInv /\ sync \in Jobs /\ identity.state = "CLAIMED" /\ sync.status = "PROCESSING"
  BY JobTypes DEF HistoryInv, History!ValidLease, History!EndAttempt
<1>2. History!Idle \in Fetchers /\ History!Idle.pc = "idle" /\ History!Idle.token = 0
  BY DEF History!Idle, Fetchers
<1>3. PICK job \in Jobs : job = sync
  BY <1>1
<1>4. PICK s, later :
        /\ s \in {"ATTENTION_REQUIRED", "PENDING"} /\ later \in BOOLEAN
        /\ sync' = [job EXCEPT !.status = s, !.waiting = later, !.leased = FALSE]
  BY <1>3 DEF History!EndAttempt
<1>5. sync' = [status |-> s, page |-> job.page, fence |-> job.fence,
               attempts |-> job.attempts, leased |-> FALSE, waiting |-> later]
  BY <1>4 DEF Jobs
<1>6. sync'.fence = sync.fence /\ sync'.status = s /\ sync'.page = sync.page
  BY <1>3, <1>5
<1>7. sync' \in Jobs
  <2>1. job.page \in History!Pages /\ job.fence \in Nat /\ job.attempts \in Nat
    BY DEF Jobs
  <2> QED BY <1>4, <1>5, <2>1 DEF Jobs
<1>8. fetcher' = [fetcher EXCEPT ![w] = History!Idle]
      /\ UNCHANGED <<processing, identity, upstream, match, suppressed, recording, attaching,
                     analyses>>
  BY DEF History!EndAttempt, History!history, History!evidence
<1>9. JobInv'
  BY <1>1, <1>2, <1>6, <1>7, <1>8, FetcherMoves, JobTypes DEF JobInv, JobRest
<1> QED BY <1>1, <1>4, <1>6, <1>8, <1>9, JobStepKeeps
-----------------------------------------------------------------------------
(* The recordings of a match. *)

(* A step of one page's recording, which leaves the match as it is.        *)
LEMMA RecordingStepKeeps ==
  ASSUME HistoryInv, NEW p \in History!Pages,
         UNCHANGED <<processing, identity, upstream, sync, fetcher, match, suppressed>>,
         attaching' \in [History!Pages -> Nat], NEW rec \in Recordings, NEW an \in Analyses,
         recording' = [recording EXCEPT ![p] = rec], analyses' = [analyses EXCEPT ![p] = an],
         MatchSound(match[p], p \in suppressed, rec, an)
  PROVE  HistoryKept
<1>1. match[p] \in Matches /\ match' = [match EXCEPT ![p] = match[p]]
  BY DEF HistoryInv, MatchesInv
<1>2. MatchesInv'
  <2>1. PICK m \in Matches : m = match[p]
    BY <1>1
  <2> QED BY <1>1, <2>1, MatchMoves DEF HistoryInv
<1>3. JobInv'
  BY DEF HistoryInv, JobInv
<1>4. CursorInv'
  BY <1>3, CursorStands DEF HistoryInv, JobInv
<1>5. ASSUME NEW q \in History!Pages
      PROVE  ~(match'[q].version > match[q].version)
  BY DEF HistoryInv, MatchesInv, Matches
<1> QED BY <1>2, <1>3, <1>4, <1>5 DEF HistoryInv, HistoryKept, History!AuthorizedImport

(* What the invariant says of one page.                                    *)
LEMMA PageSound ==
  ASSUME HistoryInv, NEW p \in History!Pages
  PROVE  /\ match[p] \in Matches /\ recording[p] \in Recordings /\ analyses[p] \in Analyses
         /\ recording = [recording EXCEPT ![p] = recording[p]]
         /\ analyses = [analyses EXCEPT ![p] = analyses[p]]
         /\ attaching \in [History!Pages -> Nat]
         /\ MatchSound(match[p], p \in suppressed, recording[p], analyses[p])
  BY DEF HistoryInv, MatchesInv, JobInv

LEMMA BeginAttachKeeps ==
  ASSUME HistoryInv, NEW p \in History!Pages, History!BeginAttach(p)
  PROVE  HistoryKept
<1>1. attaching' \in [History!Pages -> Nat]
  <2>1. match[p].revision \in Nat
    BY PageSound DEF Matches
  <2> QED BY <2>1, PageSound DEF History!BeginAttach
<1> QED BY <1>1, PageSound, RecordingStepKeeps DEF History!BeginAttach, History!history

(* The recordings of a page that has none in its history may count for     *)
(* nothing: what counts rests on an approved one.                          *)
WithNewRun(an) == [an EXCEPT !.runs = Append(@, [status |-> "QUEUED", facts |-> 0])]

LEMMA EnqueuedSound ==
  ASSUME NEW an \in Analyses, NEW an2, an2 = WithNewRun(an)
  PROVE  /\ an2 \in Analyses /\ an2.published = an.published
         /\ an2.contribution = an.contribution
         /\ \A n \in Nat : NewestOfAll(an, n) => NewestOfAll(an2, n)
         /\ \A i \in 1..Len(an.runs) : i \in 1..Len(an2.runs) /\ an2.runs[i] = an.runs[i]
<1>1. PICK runs \in Seq(RunsOfMatch) : runs = an.runs
  BY DEF Analyses
<1>2. PICK new \in RunsOfMatch : new = [status |-> "QUEUED", facts |-> 0]
  BY DEF RunsOfMatch
<1>3. PICK runs2 : runs2 = Append(runs, new)
  OBVIOUS
<1>4. /\ runs2 \in Seq(RunsOfMatch) /\ Len(runs2) = Len(runs) + 1 /\ Len(runs) \in Nat
      /\ \A i \in 1..Len(runs) : runs2[i] = runs[i]
      /\ runs2[Len(runs) + 1] = new
  BY <1>3
<1>5. /\ an2.runs = runs2 /\ an2.published = an.published
      /\ an2.contribution = an.contribution /\ an2 \in Analyses
  BY <1>1, <1>2, <1>3, <1>4 DEF Analyses, WithNewRun
<1>6. ASSUME NEW n \in Nat, NewestOfAll(an, n)
      PROVE  NewestOfAll(an2, n)
  BY <1>1, <1>2, <1>4, <1>5, <1>6 DEF NewestOfAll
<1>7. \A i \in 1..Len(an.runs) : i \in 1..Len(an2.runs) /\ an2.runs[i] = an.runs[i]
  BY <1>1, <1>4, <1>5
<1> QED BY <1>5, <1>6, <1>7

LEMMA EnqueueSound ==
  ASSUME NEW m \in Matches, NEW rec \in Recordings, NEW an \in Analyses, NEW an2,
         NEW p, NEW gone, MatchSound(m, p \in gone, rec, an),
         an2 = WithNewRun(an)
  PROVE  an2 \in Analyses /\ MatchSound(m, p \in gone, rec, an2)
<1>1. an.published \in Nat /\ an.contribution \in Nat
  BY DEF Analyses
<1>2. an.contribution # 0 =>
        /\ an2.contribution \in 1..Len(an2.runs)
        /\ an2.runs[an2.contribution] = [status |-> "PUBLISHED", facts |-> m.facts]
  BY EnqueuedSound DEF MatchSound
<1> QED BY <1>1, <1>2, EnqueuedSound DEF MatchSound

LEMMA ReprocessKeeps ==
  ASSUME HistoryInv, NEW p \in History!Pages, History!Reprocess(p)
  PROVE  HistoryKept
<1>1. PICK an2 : an2 = WithNewRun(analyses[p])
  OBVIOUS
<1>2. an2 \in Analyses /\ MatchSound(match[p], p \in suppressed, recording[p], an2)
  BY <1>1, PageSound, EnqueueSound
<1>3. analyses' = [analyses EXCEPT ![p] = an2]
  BY <1>1, PageSound DEF History!Reprocess, History!Enqueued, WithNewRun
<1> QED BY <1>2, <1>3, PageSound, RecordingStepKeeps DEF History!Reprocess, History!history

LEMMA CommitAttachKeeps ==
  ASSUME HistoryInv, NEW p \in History!Pages, History!CommitAttach(p)
  PROVE  HistoryKept
<1>1. attaching' \in [History!Pages -> Nat] /\ attaching[p] \in Nat
  BY PageSound DEF History!CommitAttach, History!None
<1>2. CASE ~(History!Attachable(p, attaching[p]) /\ ~History!Held(p) /\ processing)
  BY <1>1, <1>2, PageSound, RecordingStepKeeps DEF History!CommitAttach, History!history
<1>3. CASE History!Attachable(p, attaching[p]) /\ ~History!Held(p) /\ processing
  <2>1. PICK rec : rec = [state |-> "PENDING_REVIEW", claim |-> attaching[p]]
    OBVIOUS
  <2>2. PICK an2 : an2 = WithNewRun(analyses[p])
    OBVIOUS
  <2>3. recording' = [recording EXCEPT ![p] = rec] /\ analyses' = [analyses EXCEPT ![p] = an2]
    BY <1>3, <2>1, <2>2, PageSound DEF History!CommitAttach, History!Enqueued, WithNewRun
  <2>4. rec \in Recordings /\ rec.state = "PENDING_REVIEW"
    BY <1>1, <2>1 DEF Recordings
  <2>5. match[p].state = "METADATA_IMPORTED" /\ recording[p].state # "APPROVED"
    BY <1>3 DEF History!Attachable, History!Held
  <2>6. MatchSound(match[p], p \in suppressed, rec, analyses[p])
    BY <2>4, <2>5, PageSound DEF MatchSound
  <2>7. an2 \in Analyses /\ MatchSound(match[p], p \in suppressed, rec, an2)
    BY <2>2, <2>4, <2>6, PageSound, EnqueueSound
  <2> QED BY <1>1, <2>3, <2>4, <2>7, RecordingStepKeeps DEF History!CommitAttach, History!history
<1> QED BY <1>2, <1>3

LEMMA ReviewKeeps ==
  ASSUME HistoryInv, NEW p \in History!Pages, History!Review(p)
  PROVE  HistoryKept
<1>1. PICK rec : rec = [recording[p] EXCEPT !.state = "APPROVED"]
  OBVIOUS
<1>2. /\ rec \in Recordings /\ rec.state = "APPROVED" /\ rec.claim = recording[p].claim
      /\ recording' = [recording EXCEPT ![p] = rec]
  BY <1>1, PageSound DEF Recordings, History!Review
<1>3. MatchSound(match[p], p \in suppressed, rec, analyses[p])
  BY <1>2, PageSound DEF MatchSound, History!Review, History!Attachable
<1> QED BY <1>2, <1>3, PageSound, RecordingStepKeeps DEF History!Review, History!history

(* What an analysis comes to changes nothing that was published, as only   *)
(* runs that are still queued come to anything.                            *)
LEMMA AnalysisEndsKeeps ==
  ASSUME HistoryInv, NEW p \in History!Pages, History!AnalysisEnds(p)
  PROVE  HistoryKept
<1>1. PICK an \in Analyses : an = analyses[p]
  BY PageSound
<1>2. PICK runs \in Seq(RunsOfMatch) : runs = an.runs
  BY DEF Analyses
<1>3. PICK n \in DOMAIN analyses[p].runs, outcome \in {"ANALYSED", "FAILED"} :
        /\ analyses[p].runs[n].status = "QUEUED"
        /\ analyses' = [analyses EXCEPT ![p].runs[n].status = outcome]
  BY DEF History!AnalysisEnds
<1>3a. n \in 1..Len(runs) /\ runs[n].status = "QUEUED" /\ runs[n] \in RunsOfMatch
  <2>1. DOMAIN runs = 1..Len(runs) /\ runs \in [1..Len(runs) -> RunsOfMatch]
    BY LenProperties
  <2> QED BY <1>1, <1>2, <1>3, <2>1
<1>4. PICK one : one = [runs[n] EXCEPT !.status = outcome]
  OBVIOUS
<1>5. one \in RunsOfMatch /\ one.status = outcome
  BY <1>3, <1>3a, <1>4 DEF RunsOfMatch
<1>6. PICK runs2 : runs2 = [runs EXCEPT ![n] = one]
  OBVIOUS
<1>7. /\ runs2 \in Seq(RunsOfMatch) /\ Len(runs2) = Len(runs)
      /\ \A i \in 1..Len(runs) : runs2[i] = IF i = n THEN one ELSE runs[i]
  BY <1>3a, <1>5, <1>6, ExceptSeq
<1>8. PICK an2 : an2 = [an EXCEPT !.runs = runs2]
  OBVIOUS
<1>9. /\ an2 \in Analyses /\ an2.runs = runs2 /\ an2.published = an.published
      /\ an2.contribution = an.contribution
  BY <1>7, <1>8 DEF Analyses
<1>10. analyses' = [analyses EXCEPT ![p] = an2]
  BY <1>1, <1>2, <1>3, <1>4, <1>6, <1>8
<1>11. MatchSound(match[p], p \in suppressed, recording[p], an)
  BY <1>1, PageSound
<1>12. NewestOfAll(an2, an.published)
  BY <1>2, <1>5, <1>7, <1>9, <1>11 DEF MatchSound, NewestOfAll
<1>13. ASSUME an2.contribution # 0
       PROVE  /\ an2.contribution \in 1..Len(an2.runs)
              /\ an2.runs[an2.contribution] = [status |-> "PUBLISHED", facts |-> match[p].facts]
              /\ NewestOfAll(an2, an2.contribution)
  <2>1. an.contribution \in 1..Len(runs) /\ runs[an.contribution].status = "PUBLISHED"
        /\ runs[an.contribution] = [status |-> "PUBLISHED", facts |-> match[p].facts]
    BY <1>2, <1>9, <1>11, <1>13 DEF MatchSound
  <2>2. an.contribution # n
    BY <1>3a, <2>1
  <2>3. NewestOfAll(an2, an.contribution)
    BY <1>2, <1>5, <1>7, <1>9, <1>11, <1>13 DEF MatchSound, NewestOfAll
  <2> QED BY <1>7, <1>9, <2>1, <2>2, <2>3
<1>14. MatchSound(match[p], p \in suppressed, recording[p], an2)
  BY <1>9, <1>11, <1>12, <1>13 DEF MatchSound
<1>15. UNCHANGED <<processing, identity, upstream, sync, fetcher, match, suppressed, recording,
                   attaching>>
  BY DEF History!AnalysisEnds, History!history
<1> QED BY <1>9, <1>10, <1>14, <1>15, PageSound, RecordingStepKeeps

(* What is published is newer than everything published before.            *)
LEMMA PublishKeeps ==
  ASSUME HistoryInv, NEW p \in History!Pages, History!Publish(p)
  PROVE  HistoryKept
<1>1. PICK an \in Analyses : an = analyses[p]
  BY PageSound
<1>2. PICK runs \in Seq(RunsOfMatch) : runs = an.runs
  BY DEF Analyses
<1>3. PICK n \in DOMAIN analyses[p].runs :
        /\ History!Publishable(p, n)
        /\ analyses' = [analyses EXCEPT
               ![p].runs[n] = [status |-> "PUBLISHED", facts |-> match[p].facts],
               ![p].published = n, ![p].contribution = n]
  BY DEF History!Publish
<1>3a. n \in 1..Len(runs)
  BY <1>1, <1>2, <1>3, LenProperties
<1>4. PICK one : one = [status |-> "PUBLISHED", facts |-> match[p].facts]
  OBVIOUS
<1>5. one \in RunsOfMatch /\ one.status = "PUBLISHED"
  BY <1>4, PageSound DEF RunsOfMatch, Matches
<1>6. PICK runs2 : runs2 = [runs EXCEPT ![n] = one]
  OBVIOUS
<1>7. /\ runs2 \in Seq(RunsOfMatch) /\ Len(runs2) = Len(runs)
      /\ \A i \in 1..Len(runs) : runs2[i] = IF i = n THEN one ELSE runs[i]
  BY <1>3a, <1>5, <1>6, ExceptSeq
<1>8. PICK an2 : an2 = [an EXCEPT !.runs = runs2, !.published = n, !.contribution = n]
  OBVIOUS
<1>9. an2 = [runs |-> runs2, published |-> n, contribution |-> n]
  BY <1>8 DEF Analyses
<1>10. /\ an2.runs = runs2 /\ an2.published = n /\ an2.contribution = n
       /\ an2 \in Analyses
  <2>1. n \in Nat
    BY <1>3a, LenProperties
  <2> QED BY <1>7, <1>9, <2>1 DEF Analyses
<1>11. analyses' = [analyses EXCEPT ![p] = an2]
  <2>1. PICK fs : fs = [an EXCEPT !.runs[n] = one, !.published = n, !.contribution = n]
    OBVIOUS
  <2>2. analyses' = [analyses EXCEPT ![p] = fs]
    BY <1>1, <1>3, <1>4, <2>1
  <2>3. fs = an2
    BY <1>2, <1>6, <1>8, <2>1 DEF Analyses
  <2> QED BY <2>2, <2>3
<1>12. MatchSound(match[p], p \in suppressed, recording[p], an)
  BY <1>1, PageSound
<1>13. n > an.published /\ an.published \in Nat /\ n \in Nat /\ n # 0
       /\ recording[p].state = "APPROVED" /\ match[p].state = "METADATA_IMPORTED"
  BY <1>1, <1>3, <1>3a DEF History!Publishable, Analyses
<1>14. NewestOfAll(an2, n)
  BY <1>2, <1>7, <1>10, <1>12, <1>13 DEF MatchSound, NewestOfAll
<1>15. n \in 1..Len(an2.runs) /\ an2.runs[n] = [status |-> "PUBLISHED", facts |-> match[p].facts]
  BY <1>3a, <1>4, <1>7, <1>10
<1>16. MatchSound(match[p], p \in suppressed, recording[p], an2)
  BY <1>10, <1>12, <1>13, <1>14, <1>15 DEF MatchSound
<1>17. UNCHANGED <<processing, identity, upstream, sync, fetcher, match, suppressed, recording,
                   attaching>>
  BY DEF History!Publish, History!history
<1> QED BY <1>10, <1>11, <1>16, <1>17, PageSound, RecordingStepKeeps

(* Runs that are changed one by one, none into a published one.            *)
LEMMA RunsMapped ==
  ASSUME NEW runs \in Seq(RunsOfMatch), NEW runs2, DOMAIN runs2 = DOMAIN runs,
         runs2 = [i \in DOMAIN runs |-> runs2[i]],
         \A i \in DOMAIN runs :
           runs2[i] \in RunsOfMatch /\ (runs2[i].status = "PUBLISHED" => runs2[i] = runs[i])
  PROVE  /\ runs2 \in Seq(RunsOfMatch) /\ Len(runs2) = Len(runs)
         /\ \A i \in 1..Len(runs) : runs2[i].status = "PUBLISHED" => runs[i].status = "PUBLISHED"
<1>1. Len(runs) \in Nat /\ DOMAIN runs = 1..Len(runs)
  BY LenProperties
<1>2. runs2 \in [1..Len(runs) -> RunsOfMatch]
  BY <1>1
<1>3. runs2 \in Seq(RunsOfMatch) /\ Len(runs2) = Len(runs)
  BY <1>1, <1>2, IsASeq, LenProperties
<1> QED BY <1>1, <1>3

LEMMA DeleteRecordingKeeps ==
  ASSUME HistoryInv, NEW p \in History!Pages, History!DeleteRecording(p)
  PROVE  HistoryKept
<1>1. PICK an \in Analyses : an = analyses[p]
  BY PageSound
<1>2. PICK runs \in Seq(RunsOfMatch) : runs = an.runs
  BY DEF Analyses
<1>3. PICK runs2 : runs2 = [n \in DOMAIN runs |-> [runs[n] EXCEPT !.status = "CANCELLED"]]
  OBVIOUS
<1>4. /\ runs2 \in Seq(RunsOfMatch)
      /\ \A i \in 1..Len(runs2) : runs2[i].status = "CANCELLED"
  <2>1. DOMAIN runs = 1..Len(runs) /\ Len(runs) \in Nat
    BY LenProperties
  <2>2. ASSUME NEW i \in DOMAIN runs
        PROVE  runs2[i] \in RunsOfMatch /\ runs2[i].status = "CANCELLED"
    <3>1. PICK one \in RunsOfMatch : one = runs[i]
      BY <2>1
    <3>2. runs2[i] = [one EXCEPT !.status = "CANCELLED"]
      BY <1>3, <3>1
    <3> QED BY <3>2 DEF RunsOfMatch
  <2>3. /\ DOMAIN runs2 = DOMAIN runs /\ runs2 = [i \in DOMAIN runs |-> runs2[i]]
    BY <1>3
  <2>4. runs2 \in Seq(RunsOfMatch) /\ Len(runs2) = Len(runs)
    BY <2>2, <2>3, RunsMapped
  <2> QED BY <2>1, <2>2, <2>4
<1>5. PICK an2 : an2 = [an EXCEPT !.runs = runs2, !.contribution = 0]
  OBVIOUS
<1>6. an2 = [runs |-> runs2, published |-> an.published, contribution |-> 0]
      /\ an.published \in Nat /\ 0 \in Nat
  BY <1>5 DEF Analyses
<1>7. an2 \in Analyses
  BY <1>4, <1>6 DEF Analyses
<1>8. an2.runs = runs2 /\ an2.contribution = 0
  BY <1>6
<1>9. analyses' = [analyses EXCEPT ![p] = an2]
  BY <1>1, <1>2, <1>3, <1>5, PageSound DEF History!DeleteRecording
<1>10. PICK rec : rec = [recording[p] EXCEPT !.state = "WITHDRAWN"]
  OBVIOUS
<1>11. rec \in Recordings /\ rec.state = "WITHDRAWN" /\ recording' = [recording EXCEPT ![p] = rec]
  BY <1>10, PageSound DEF Recordings, History!DeleteRecording
<1>12. NewestOfAll(an2, an2.published)
  BY <1>4, <1>8 DEF NewestOfAll
<1>13. MatchSound(match[p], p \in suppressed, rec, an2)
  BY <1>8, <1>11, <1>12, PageSound DEF MatchSound, HeldStates
<1>14. UNCHANGED <<processing, identity, upstream, sync, fetcher, match, suppressed, attaching>>
  BY DEF History!DeleteRecording, History!history
<1> QED BY <1>7, <1>9, <1>11, <1>13, <1>14, PageSound, RecordingStepKeeps

(* A withdrawal of the consent cancels what is queued, for every match.    *)
QueuedCancelled(runs) ==
  [n \in DOMAIN runs |-> IF runs[n].status = "QUEUED"
                         THEN [runs[n] EXCEPT !.status = "CANCELLED"] ELSE runs[n]]
WithoutQueued(an) == [an EXCEPT !.runs = QueuedCancelled(@)]

LEMMA QueuedCancelledSound ==
  ASSUME NEW m \in Matches, NEW rec \in Recordings, NEW an \in Analyses, NEW an2,
         NEW p, NEW gone, MatchSound(m, p \in gone, rec, an),
         an2 = WithoutQueued(an)
  PROVE  an2 \in Analyses /\ MatchSound(m, p \in gone, rec, an2)
<1>1. PICK runs \in Seq(RunsOfMatch) : runs = an.runs
  BY DEF Analyses
<1>2. PICK runs2 : runs2 = QueuedCancelled(runs)
  OBVIOUS
<1>3. DOMAIN runs = 1..Len(runs) /\ Len(runs) \in Nat
  BY LenProperties
<1>4. ASSUME NEW i \in DOMAIN runs
      PROVE  /\ runs2[i] \in RunsOfMatch
             /\ runs2[i].status = "PUBLISHED" \/ runs[i].status = "PUBLISHED" => runs2[i] = runs[i]
  <2>1. PICK one \in RunsOfMatch : one = runs[i]
    BY <1>3
  <2>2. runs2[i] = IF one.status = "QUEUED" THEN [one EXCEPT !.status = "CANCELLED"] ELSE one
    BY <1>2, <2>1 DEF QueuedCancelled
  <2>3. CASE one.status = "QUEUED"
    BY <2>1, <2>2, <2>3 DEF RunsOfMatch
  <2>4. CASE one.status # "QUEUED"
    BY <2>1, <2>2, <2>4
  <2> QED BY <2>3, <2>4
<1>5. DOMAIN runs2 = DOMAIN runs /\ runs2 = [i \in DOMAIN runs |-> runs2[i]]
  BY <1>2 DEF QueuedCancelled
<1>6. /\ runs2 \in Seq(RunsOfMatch) /\ Len(runs2) = Len(runs)
      /\ \A i \in 1..Len(runs) : runs2[i].status = "PUBLISHED" => runs[i].status = "PUBLISHED"
  BY <1>4, <1>5, RunsMapped
<1>7. PICK an3 : an3 = [an EXCEPT !.runs = runs2]
  OBVIOUS
<1>8. an2 = an3
  BY <1>1, <1>2, <1>7 DEF WithoutQueued
<1>9. /\ an2 \in Analyses /\ an2.runs = runs2 /\ an2.published = an.published
      /\ an2.contribution = an.contribution
  BY <1>6, <1>7, <1>8 DEF Analyses
<1>10. ASSUME NEW n, NewestOfAll(an, n) PROVE NewestOfAll(an2, n)
  BY <1>1, <1>6, <1>9, <1>10 DEF NewestOfAll
<1>11. ASSUME an2.contribution # 0
       PROVE  /\ an2.contribution \in 1..Len(an2.runs)
              /\ an2.runs[an2.contribution] = [status |-> "PUBLISHED", facts |-> m.facts]
  <2>1. /\ an.contribution \in 1..Len(runs)
        /\ runs[an.contribution] = [status |-> "PUBLISHED", facts |-> m.facts]
    BY <1>1, <1>9, <1>11 DEF MatchSound
  <2>2. runs[an.contribution].status = "PUBLISHED"
    BY <2>1
  <2> QED BY <1>3, <1>4, <1>6, <1>9, <2>1, <2>2
<1> QED BY <1>9, <1>10, <1>11 DEF MatchSound

LEMMA WithdrawConsentKeeps ==
  ASSUME HistoryInv, History!WithdrawConsent
  PROVE  HistoryKept
<1>1. JobInv /\ JobRest' /\ identity' = History!Revoked(identity) /\ sync' = History!Fenced(sync)
      /\ UNCHANGED <<upstream, fetcher, match, suppressed, recording, attaching>>
  BY DEF HistoryInv, JobInv, JobRest, History!WithdrawConsent, History!history
<1>2. JobInv' /\ sync'.page \in {1, sync.page} /\ sync'.status # "COMPLETE"
  BY <1>1, RevocationFences
<1>3. ASSUME NEW p \in History!Pages
      PROVE  analyses'[p] \in Analyses
             /\ MatchSound(match[p], p \in suppressed, recording[p], analyses[p])'
  <2>1. PICK an2 : an2 = WithoutQueued(analyses[p])
    OBVIOUS
  <2>2. analyses'[p] = an2
    BY <2>1 DEF History!WithdrawConsent, WithoutQueued, QueuedCancelled
  <2>3. an2 \in Analyses /\ MatchSound(match[p], p \in suppressed, recording[p], an2)
    BY <2>1, PageSound, QueuedCancelledSound
  <2> QED BY <1>1, <2>2, <2>3
<1>4. analyses' \in [History!Pages -> Analyses]
  BY <1>3 DEF History!WithdrawConsent
<1>5. MatchesInv'
  BY <1>1, <1>3, <1>4 DEF HistoryInv, MatchesInv
<1>6. CursorInv'
  BY <1>1, <1>2, CursorStands DEF HistoryInv, JobInv
<1>7. ASSUME NEW p \in History!Pages
      PROVE  ~(match'[p].version > match[p].version)
  BY <1>1, PageSound DEF Matches
<1> QED BY <1>2, <1>5, <1>6, <1>7 DEF HistoryInv, HistoryKept, History!AuthorizedImport

(* A deletion suppresses the match and revokes the player with it.         *)
LEMMA DeleteMatchKeeps ==
  ASSUME HistoryInv, NEW p \in History!Pages, History!DeleteMatch(p)
  PROVE  HistoryKept
<1>1. JobInv /\ JobRest' /\ identity' = History!Revoked(identity) /\ sync' = History!Fenced(sync)
      /\ UNCHANGED fetcher
  BY DEF HistoryInv, JobInv, JobRest, History!DeleteMatch
<1>2. JobInv' /\ sync'.page \in {1, sync.page} /\ sync'.status # "COMPLETE"
  BY <1>1, RevocationFences
<1>3. PICK m : m = [match[p] EXCEPT !.state = "DELETED"]
  OBVIOUS
<1>4. /\ m \in Matches /\ m.state = "DELETED" /\ m.version = match[p].version
      /\ match' = [match EXCEPT ![p] = m]
  BY <1>3, PageSound DEF Matches, History!DeleteMatch
<1>5. PICK an2 : an2 = [analyses[p] EXCEPT !.contribution = 0]
  OBVIOUS
<1>6. /\ an2 \in Analyses /\ an2.runs = analyses[p].runs /\ an2.published = analyses[p].published
      /\ an2.contribution = 0 /\ analyses' = [analyses EXCEPT ![p] = an2]
  BY <1>5, PageSound DEF Analyses, History!DeleteMatch
<1>7. recording[p].state \notin HeldStates
  BY DEF History!DeleteMatch, History!Held, HeldStates
<1>8. suppressed' = suppressed \cup {p} /\ recording' = [recording EXCEPT ![p] = recording[p]]
  BY PageSound DEF History!DeleteMatch
<1>9. MatchSound(m, p \in suppressed', recording[p], an2)
  BY <1>4, <1>6, <1>7, PageSound DEF MatchSound, NewestOfAll, HeldStates
<1>10. MatchesInv'
  <2>1. PICK rec \in Recordings : rec = recording[p]
    BY PageSound
  <2> QED BY <1>4, <1>6, <1>8, <1>9, <2>1, MatchMoves DEF HistoryInv
<1>11. ASSUME NEW q \in History!Pages
       PROVE  ~(match'[q].version > match[q].version) /\ (Seen(q) => Seen(q)')
  <2>1. CASE q = p
    <3>1. match'[q].version = match[q].version /\ match[q].version \in Nat
      BY <1>4, <2>1, PageSound DEF Matches, HistoryInv, MatchesInv
    <3> QED BY <1>8, <2>1, <3>1 DEF Seen
  <2>2. CASE q # p
    <3>1. match'[q] = match[q] /\ match[q].version \in Nat
      BY <1>4, <2>2, PageSound DEF Matches
    <3> QED BY <1>8, <3>1 DEF Seen, History!Known
  <2> QED BY <2>1, <2>2
<1>12. CursorInv'
  <2> SUFFICES ASSUME NEW q \in History!Pages, q < sync'.page \/ sync'.status = "COMPLETE"
               PROVE  Seen(q)'
    BY DEF CursorInv
  <2>1. q < sync.page
    BY <1>1, <1>2, JobTypes, HistoryAssumption DEF History!Pages
  <2> QED BY <1>11, <2>1 DEF HistoryInv, CursorInv
<1> QED BY <1>2, <1>10, <1>11, <1>12 DEF HistoryInv, HistoryKept, History!AuthorizedImport

(* An import: of a match that is not suppressed, whose facts it leaves     *)
(* alone and takes out of every measurement when its evidence was reviewed.*)
LEMMA ImportSound ==
  ASSUME HistoryInv, NEW p \in History!Pages, p \notin suppressed, NEW v \in Nat,
         History!Import(p, v), UNCHANGED <<recording, suppressed>>
  PROVE  /\ MatchesInv' /\ History!Known(p)'
         /\ \A q \in History!Pages \ {p} : match'[q] = match[q]
<1>1. PICK m : m = [state |-> IF History!Protected(p) THEN "REVIEW_REQUIRED" ELSE "METADATA_IMPORTED",
                    version |-> v,
                    revision |-> IF History!Known(p) THEN match[p].revision + 1 ELSE 1,
                    facts |-> IF History!Protected(p) THEN match[p].facts ELSE v]
  OBVIOUS
<1>2. match[p].revision \in Nat /\ match[p].facts \in Nat /\ match[p].revision + 1 \in Nat
      /\ 1 \in Nat
  BY PageSound DEF Matches
<1>3. m \in Matches
  BY <1>1, <1>2 DEF Matches
<1>4. /\ m.state \in {"METADATA_IMPORTED", "REVIEW_REQUIRED"}
      /\ History!Protected(p) => m.state = "REVIEW_REQUIRED"
  BY <1>1
<1>5. match' = [match EXCEPT ![p] = m]
  BY <1>1, PageSound DEF History!Import, HistoryInv, MatchesInv
<1>6. PICK an2 : an2 = IF History!Protected(p) THEN [analyses[p] EXCEPT !.contribution = 0]
                       ELSE analyses[p]
  OBVIOUS
<1>7. /\ an2 \in Analyses /\ an2.runs = analyses[p].runs /\ an2.published = analyses[p].published
      /\ an2.contribution \in {0, analyses[p].contribution}
      /\ History!Protected(p) => an2.contribution = 0
  BY <1>6, PageSound DEF Analyses
<1>8. analyses' = [analyses EXCEPT ![p] = an2]
  BY <1>6, PageSound DEF History!Import
<1>9. recording[p].state = "APPROVED" => History!Protected(p)
  BY DEF History!Protected
<1>10. an2.contribution = 0
  BY <1>7, <1>9, PageSound DEF MatchSound
<1>11. MatchSound(m, p \in suppressed', recording[p], an2)
  BY <1>4, <1>7, <1>9, <1>10, PageSound DEF MatchSound, NewestOfAll
<1>12. MatchesInv'
  <2>1. PICK rec \in Recordings : rec = recording[p]
    BY PageSound
  <2>2. recording' = [recording EXCEPT ![p] = rec]
    BY <2>1, PageSound
  <2> QED BY <1>3, <1>5, <1>7, <1>8, <1>11, <2>1, <2>2, MatchMoves DEF HistoryInv
<1>13. match'[p] = m /\ \A q \in History!Pages \ {p} : match'[q] = match[q]
  BY <1>5 DEF HistoryInv, MatchesInv
<1> QED BY <1>4, <1>12, <1>13 DEF History!Known

LEMMA CommitPageKeeps ==
  ASSUME HistoryInv, NEW w \in Workers, History!CommitPage(w)
  PROVE  HistoryKept
<1>1. JobInv /\ sync \in Jobs /\ sync.page \in History!Pages /\ fetcher[w] \in Fetchers
  BY JobTypes DEF HistoryInv, JobInv
<1>2. PICK p, v : p = fetcher[w].page /\ v = fetcher[w].version
  OBVIOUS
<1>3. /\ fetcher[w].pc = "fetched" /\ identity.state = "CLAIMED" /\ sync.status = "PROCESSING"
      /\ sync.fence = fetcher[w].token /\ sync.page = p
  BY <1>2 DEF History!CommitPage, History!ValidLease
<1>4. p \in History!Pages /\ v \in Nat
  BY <1>1, <1>2, <1>3 DEF Fetchers
<1>5. /\ sync' = [sync EXCEPT !.status = IF p = LastPage THEN "COMPLETE" ELSE "PENDING",
                              !.page = IF p = LastPage THEN 1 ELSE p + 1,
                              !.leased = FALSE, !.waiting = FALSE, !.attempts = 0]
      /\ fetcher' = [fetcher EXCEPT ![w] = History!Idle]
      /\ IF History!Unchanged(p, v) THEN UNCHANGED <<match, analyses>> ELSE History!Import(p, v)
      /\ UNCHANGED <<processing, identity, upstream, suppressed, recording, attaching>>
  BY <1>2 DEF History!CommitPage
<1>6. MatchesInv' /\ Seen(p)' /\ \A q \in History!Pages \ {p} : match'[q] = match[q]
  <2>1. CASE History!Unchanged(p, v)
    <3>1. UNCHANGED <<match, analyses, suppressed, recording>>
      BY <1>5, <2>1
    <3> QED BY <2>1, <3>1, MatchesStand DEF HistoryInv, Seen, History!Known, History!Unchanged
  <2>2. CASE ~History!Unchanged(p, v)
    <3>1. History!Import(p, v) /\ p \notin suppressed
      BY <1>5, <2>2 DEF History!Unchanged
    <3>2. MatchesInv' /\ History!Known(p)' /\ \A q \in History!Pages \ {p} : match'[q] = match[q]
      BY <1>4, <1>5, <3>1, ImportSound
    <3> QED BY <3>2 DEF Seen
  <2> QED BY <2>1, <2>2
<1>7. /\ sync' \in Jobs /\ sync'.fence = sync.fence
      /\ sync'.status = IF p = LastPage THEN "COMPLETE" ELSE "PENDING"
      /\ sync'.page = IF p = LastPage THEN 1 ELSE p + 1
  <2>1. PICK job \in Jobs : job = sync
    BY <1>1
  <2>2. PICK s, next : /\ s = IF p = LastPage THEN "COMPLETE" ELSE "PENDING"
                       /\ next = IF p = LastPage THEN 1 ELSE p + 1
    OBVIOUS
  <2>3. s \in {"COMPLETE", "PENDING"} /\ next \in History!Pages
    BY <1>4, <2>2, HistoryAssumption DEF History!Pages
  <2>4. sync' = [job EXCEPT !.status = s, !.page = next, !.leased = FALSE, !.waiting = FALSE,
                            !.attempts = 0]
    BY <1>5, <2>1, <2>2
  <2>5. sync' = [status |-> s, page |-> next, fence |-> job.fence, attempts |-> 0,
                 leased |-> FALSE, waiting |-> FALSE]
    BY <2>4 DEF Jobs
  <2>6. job.fence \in Nat /\ 0 \in Nat
    BY DEF Jobs
  <2>7. sync' \in Jobs
    BY <2>3, <2>5, <2>6 DEF Jobs
  <2>8. sync'.fence = job.fence /\ sync'.status = s /\ sync'.page = next
    BY <2>5
  <2> QED BY <2>1, <2>2, <2>7, <2>8
<1>8. JobInv'
  <2>1. History!Idle \in Fetchers /\ History!Idle.pc = "idle" /\ History!Idle.token = 0
    BY DEF History!Idle, Fetchers
  <2>2. JobRest' /\ UNCHANGED identity /\ (identity.state = "CLAIMED" => processing')
    BY <1>1, <1>5, JobTypes DEF JobInv, JobRest
  <2>3. sync'.status # "PROCESSING"
    BY <1>7
  <2> QED BY <1>1, <1>3, <1>5, <1>7, <2>1, <2>2, <2>3, FetcherMoves
<1>9. CursorInv'
  <2> SUFFICES ASSUME NEW q \in History!Pages, q < sync'.page \/ sync'.status = "COMPLETE"
               PROVE  Seen(q)'
    BY DEF CursorInv
  <2>1. CASE q = p
    BY <1>6, <2>1
  <2>2. CASE q # p
    <3>1. q < sync.page
      BY <1>3, <1>4, <1>7, <2>2, HistoryAssumption DEF History!Pages
    <3>2. Seen(q)
      BY <3>1 DEF HistoryInv, CursorInv
    <3>3. match'[q] = match[q] /\ suppressed' = suppressed
      BY <1>5, <1>6, <2>2
    <3> QED BY <3>2, <3>3 DEF Seen, History!Known
  <2> QED BY <2>1, <2>2
<1>10. History!AuthorizedImport
  <2>1. processing /\ fetcher[w].link = identity.links
    BY <1>1, <1>3 DEF JobInv
  <2>2. fetcher'[w].pc = "idle"
    BY <1>1, <1>5, JobTypes DEF History!Idle
  <2> QED BY <1>3, <2>1, <2>2 DEF History!AuthorizedImport
<1> QED BY <1>6, <1>8, <1>9, <1>10 DEF HistoryInv, HistoryKept

LEMMA RecordingStepsKeep ==
  ASSUME HistoryInv, NEW p \in Recorded, History!ProviderCorrects(p) \/ History!RecordingStep(p)
  PROVE  HistoryKept
<1>1. p \in History!Pages
  BY HistoryAssumption DEF History!Pages
<1> QED BY <1>1, ProviderCorrectsKeeps, BeginAttachKeeps, CommitAttachKeeps, AnalysisEndsKeeps,
        ReprocessKeeps, ReviewKeeps, PublishKeeps, DeleteRecordingKeeps DEF History!RecordingStep

LEMMA HistoryStep == HistoryInv /\ [History!Next]_(History!vars) => HistoryKept
<1> SUFFICES ASSUME HistoryInv, [History!Next]_(History!vars) PROVE HistoryKept
  OBVIOUS
<1>1. CASE UNCHANGED History!vars
  <2> USE DEF History!vars
  <2>1. JobInv'
    BY <1>1 DEF HistoryInv, JobInv
  <2> QED BY <1>1, <2>1, JobStepKeeps
<1>2. CASE \/ History!Link \/ History!Unlink \/ History!WithdrawConsent \/ History!GrantConsent
           \/ History!StartSync \/ History!LeaseExpires \/ History!RetryTimeComes \/ History!GiveUp
  BY <1>2, LinkKeeps, UnlinkKeeps, WithdrawConsentKeeps, GrantConsentKeeps, StartSyncKeeps,
     TimerKeeps
<1>3. CASE \E w \in Workers : History!WorkerStep(w)
  BY <1>3, ClaimKeeps, FetchKeeps, CommitPageKeeps, RefusePageKeeps, EndAttemptKeeps, AbandonKeeps
     DEF History!WorkerStep
<1>4. CASE \E p \in History!Pages : History!DeleteMatch(p)
  BY <1>4, DeleteMatchKeeps
<1>5. CASE \E p \in Recorded : History!ProviderCorrects(p) \/ History!RecordingStep(p)
  BY <1>5, RecordingStepsKeep
<1> QED BY <1>1, <1>2, <1>3, <1>4, <1>5 DEF History!Next

(* The invariant of the match history: a deleted match has no recording, an*)
(* approved recording was claimed for the facts the match has, what counts *)
(* is the newest published analysis; every page before the cursor was seen *)
(* (commit_local_page in match_ingestion.py); and whoever holds the fence  *)
(* of a running job claimed it under the present link (claim_local_sync).  *)
THEOREM HistoryInvHolds == History!Spec => []HistoryInv
<1>1. HistoryInv /\ [History!Next]_(History!vars) => HistoryInv'
  BY HistoryStep DEF HistoryKept
<1> QED BY HistoryInit, <1>1, PTL DEF History!Spec

LEMMA InvIsSound == HistoryInv => History!MatchesSound
<1> SUFFICES ASSUME HistoryInv PROVE History!MatchesSound
  OBVIOUS
<1>1. History!TypeOK
  BY PageSound, JobTypes DEF History!TypeOK, HistoryInv, JobInv, Players, Jobs, Matches, Recordings
<1>2. History!DeletedStaysDeleted
  BY PageSound DEF History!DeletedStaysDeleted, History!Held, HeldStates, MatchSound, HistoryInv,
     MatchesInv
<1>3. History!ContributionIsCurrent
  <2> SUFFICES ASSUME NEW p \in History!Pages
               PROVE  /\ recording[p].state = "APPROVED" /\ match[p].state = "METADATA_IMPORTED"
                            => recording[p].claim = match[p].revision
                      /\ analyses[p].contribution # 0 =>
                           LET n == analyses[p].contribution
                           IN  /\ recording[p].state = "APPROVED"
                               /\ match[p].state = "METADATA_IMPORTED"
                               /\ analyses[p].runs[n] =
                                    [status |-> "PUBLISHED", facts |-> match[p].facts]
                               /\ \A m \in DOMAIN analyses[p].runs :
                                    analyses[p].runs[m].status = "PUBLISHED" => m <= n
    BY DEF History!ContributionIsCurrent
  <2>1. DOMAIN analyses[p].runs = 1..Len(analyses[p].runs)
    BY PageSound, LenProperties DEF Analyses
  <2> QED BY <2>1, PageSound DEF MatchSound, NewestOfAll
<1>4. History!CompleteIsComplete
  BY DEF HistoryInv, CursorInv, Seen, History!CompleteIsComplete
<1> QED BY <1>1, <1>2, <1>3, <1>4 DEF History!MatchesSound

(* A match the owner deleted never comes back, whatever was being fetched  *)
(* or attached (_import_metadata in match_ingestion.py); what counts for it*)
(* is the newest analysis published of a recording that was reviewed       *)
(* against the facts the match still has (publish_annotations in           *)
(* evidence.py, validate_claim in recordings.py); and a finished sync has  *)
(* seen every page.                                                        *)
THEOREM MatchesSoundHolds == History!Spec => []History!MatchesSound /\ []MatchesSound
<1>1. HistoryInv => MatchesSound
  BY InvIsSound DEF MatchesSound
<1> QED BY HistoryInvHolds, InvIsSound, <1>1, PTL

(* A page is imported under the link and the consent it was asked for: what*)
(* was fetched before an unlink, a deletion or a withdrawal finds the fence*)
(* raised (valid_lease in match_ingestion.py; unlink_identity in           *)
(* match_api.py, record_consent in consents.py).                           *)
THEOREM ImportsAreAuthorizedHolds ==
  History!Spec => History!ImportsAreAuthorized /\ ImportsAreAuthorized
<1>1. HistoryInv /\ [History!Next]_(History!vars) =>
        [History!AuthorizedImport]_(History!vars)
        /\ [focus = "history" => History!AuthorizedImport]_matchVars
  BY HistoryStep DEF HistoryKept
<1> QED BY HistoryInvHolds, <1>1, PTL
        DEF History!Spec, History!ImportsAreAuthorized, ImportsAreAuthorized
-----------------------------------------------------------------------------
(***************************************************************************)
(* The accounts: for any number of clients and addresses, of passwords,    *)
(* session epochs and links.  The invariant has a part for the account's   *)
(* row, a part for the links and their envelopes, and one for each client. *)
(***************************************************************************)

(* The rows of an account and its links. *)
Rows == [exists : BOOLEAN, active : BOOLEAN, deleted : BOOLEAN, password : 0..MaxPassword,
         epoch : 0..MaxEpoch, address : Addresses, verified : BOOLEAN]
Asked == [purpose : {"VERIFY", "RESET"}, email : Addresses, verified : BOOLEAN]

(* An activating link carries the first address, and works only while that *)
(* is the address; another verification carries the address wanted last.   *)
LinkSound(l) ==
  /\ l.number \in mailbox /\ l.number <= issued
  /\ l.purpose = "VERIFY" => l.email = IF l.activates THEN FirstAddress ELSE wanted

AccountRows ==
  /\ account \in Rows
  /\ ~account.exists => ~account.active /\ ~account.deleted /\ links = {}
  /\ account.exists => registering = AccountOf!None
  /\ asking # AccountOf!None => account.exists
  /\ account.deleted => ~account.active /\ links = {}
  /\ ~account.verified /\ ~account.deleted => account.address = FirstAddress

LinksInv ==
  /\ links \subseteq AccountOf!Link /\ mailbox \subseteq 1..issued
  /\ issued \in 0..MaxMails /\ mails \in Nat /\ wanted \in Addresses
  /\ \A l \in links : LinkSound(l)
  /\ \A l, m \in links : l.purpose = m.purpose => l = m
  /\ \/ registering = AccountOf!None
     \/ registering \in AccountOf!Link /\ LinkSound(registering)
        /\ registering.purpose = "VERIFY" /\ registering.activates
  /\ \/ asking = AccountOf!None
     \/ asking \in Asked /\ (~asking.verified => asking.email = FirstAddress)

(* A client whose session was ended has none that is still good; passwords *)
(* and epochs of the account only grow, so it stays so.                    *)
Browser == [session : AccountOf!Session \cup {AccountOf!None},
            step : {"idle", "login", "tracking"}, password : 0..MaxPassword]
Ended(s) ==
  \/ account.deleted \/ s.entry = "revoked"
  \/ s.password < account.password \/ s.epoch < account.epoch
ClientSound(client, b, out) ==
  /\ client.step = "tracking" =>
       client.session # AccountOf!None /\ client.session.entry = "untracked"
  /\ client.session # AccountOf!None =>
       /\ account.deleted \/ client.session.password <= account.password
       /\ client.session.epoch <= account.epoch
       /\ b \in out => Ended(client.session)
ClientsInv ==
  /\ browser \in [Browsers -> Browser]
  /\ \A b \in Browsers : ClientSound(browser[b], b, cut)
  /\ servedCut = FALSE

AccountsInv == AccountRows /\ LinksInv /\ ClientsInv

LEMMA AccountsInit == AccountOf!Init => AccountsInv
<1> SUFFICES ASSUME AccountOf!Init PROVE AccountsInv
  OBVIOUS
<1> USE AccountsAssumption DEF AccountOf!Init
<1>1. AccountRows
  BY DEF AccountOf!NoAccount, AccountRows, Rows
<1>2. LinksInv
  BY DEF LinksInv
<1>3. ClientsInv
  BY DEF ClientsInv, ClientSound, Browser, AccountOf!SignedOut, AccountOf!Unusable
<1> QED BY <1>1, <1>2, <1>3 DEF AccountsInv
-----------------------------------------------------------------------------
(* Every step keeps the invariant, and changes the address only as it is   *)
(* proved to be the owner's.                                               *)
AccountKept == AccountsInv' /\ AccountOf!ProvedChange

LEMMA RowTypes ==
  ASSUME AccountRows
  PROVE  /\ account.exists \in BOOLEAN /\ account.active \in BOOLEAN
         /\ account.deleted \in BOOLEAN /\ account.verified \in BOOLEAN
         /\ account.password \in Nat /\ account.password <= MaxPassword
         /\ account.epoch \in Nat /\ account.epoch <= MaxEpoch /\ account.address \in Addresses
  BY AccountsAssumption DEF AccountRows, Rows

LEMMA ResetIsProved ==
  ASSUME account'.address # account.address => account'.address = wanted
  PROVE  AccountOf!ProvedChange
  BY DEF AccountOf!ProvedChange, AccountOf!Reset

LEMMA RowsStand ==
  ASSUME AccountRows, UNCHANGED account, registering' \in {registering, AccountOf!None},
         asking' \in {asking, AccountOf!None}, links' = {} \/ links' = links
  PROVE  AccountRows'
  BY DEF AccountRows

LEMMA LinksStand ==
  ASSUME LinksInv, UNCHANGED <<mailbox, issued, mails, wanted>>,
         registering' \in {registering, AccountOf!None}, asking' \in {asking, AccountOf!None},
         links' \subseteq links
  PROVE  LinksInv'
  BY DEF LinksInv, LinkSound

(* The account only moves forward.                                         *)
AccountForward ==
  /\ account.deleted => account'.deleted
  /\ account'.deleted \/ account.password <= account'.password
  /\ account.epoch <= account'.epoch

LEMMA EndedLasts ==
  ASSUME AccountRows, AccountRows', AccountForward, NEW s \in AccountOf!Session, Ended(s)
  PROVE  Ended(s)'
<1>1. s.password \in Nat /\ s.epoch \in Nat
  BY AccountsAssumption DEF AccountOf!Session
<1>2. account'.password \in Nat /\ account'.epoch \in Nat
  BY AccountsAssumption DEF AccountRows, Rows
<1> QED BY <1>1, <1>2, RowTypes DEF Ended, AccountForward

LEMMA ClientLasts ==
  ASSUME AccountRows, AccountRows', AccountForward, NEW client \in Browser, NEW b,
         ClientSound(client, b, cut), b \in cut' => b \in cut
  PROVE  ClientSound(client, b, cut)'
<1>1. CASE client.session = AccountOf!None
  BY <1>1 DEF ClientSound
<1>2. CASE client.session # AccountOf!None
  <2>1. PICK s \in AccountOf!Session : s = client.session
    BY <1>2 DEF Browser
  <2>2. s.password \in Nat /\ s.epoch \in Nat
    BY AccountsAssumption DEF AccountOf!Session
  <2>3. account'.password \in Nat /\ account'.epoch \in Nat
    BY AccountsAssumption DEF AccountRows, Rows
  <2>4. b \in cut => Ended(s)'
    BY <1>2, <2>1, EndedLasts DEF ClientSound
  <2> QED BY <1>2, <2>1, <2>2, <2>3, <2>4, RowTypes DEF ClientSound, AccountForward
<1> QED BY <1>1, <1>2

LEMMA ClientsStand ==
  ASSUME ClientsInv, AccountRows, AccountRows', AccountForward,
         UNCHANGED <<browser, cut, servedCut>>
  PROVE  ClientsInv'
<1>1. ASSUME NEW b \in Browsers PROVE ClientSound(browser[b], b, cut)'
  <2>1. PICK client \in Browser : client = browser[b]
    BY DEF ClientsInv
  <2>2. ClientSound(client, b, cut)
    BY <2>1 DEF ClientsInv
  <2>3. ClientSound(client, b, cut)'
    BY <2>2, ClientLasts
  <2> QED BY <2>1, <2>3 DEF ClientSound
<1> QED BY <1>1 DEF ClientsInv

(* A step of one client that leaves the account as it is.                  *)
LEMMA ClientMoves ==
  ASSUME AccountsInv,
         UNCHANGED <<account, links, mailbox, issued, mails, registering, asking, wanted>>,
         NEW b \in Browsers, NEW client \in Browser, browser' = [browser EXCEPT ![b] = client],
         cut' \subseteq cut \cup {b}, ClientSound(client, b, cut'), servedCut' = FALSE
  PROVE  AccountKept
<1>1. AccountRows' /\ LinksInv' /\ AccountForward
  BY RowsStand, LinksStand, RowTypes DEF AccountsInv, AccountForward
<1>2. ASSUME NEW x \in Browsers PROVE ClientSound(browser[x], x, cut)'
  <2>1. CASE x = b
    <3>1. browser'[x] = client
      BY <2>1 DEF AccountsInv, ClientsInv
    <3> QED BY <2>1, <3>1 DEF ClientSound, Ended
  <2>2. CASE x # b
    <3>1. PICK other \in Browser : other = browser[x] /\ other = browser'[x]
      BY <2>2 DEF AccountsInv, ClientsInv
    <3>2. ClientSound(other, x, cut) /\ (x \in cut' => x \in cut)
      BY <2>2, <3>1 DEF AccountsInv, ClientsInv
    <3>3. ClientSound(other, x, cut)'
      BY <1>1, <3>2, ClientLasts DEF AccountsInv
    <3> QED BY <3>1, <3>3 DEF ClientSound
  <2> QED BY <2>1, <2>2
<1>3. browser' \in [Browsers -> Browser]
  BY DEF AccountsInv, ClientsInv
<1>4. AccountOf!ProvedChange
  BY ResetIsProved
<1> QED BY <1>1, <1>2, <1>3, <1>4 DEF AccountKept, AccountsInv, ClientsInv

LEMMA BrowserOf ==
  ASSUME AccountsInv, NEW b \in Browsers
  PROVE  /\ browser[b] \in Browser /\ ClientSound(browser[b], b, cut) /\ servedCut = FALSE
         /\ browser = [browser EXCEPT ![b] = browser[b]]
         /\ browser[b].session # AccountOf!None => browser[b].session \in AccountOf!Session
  BY DEF AccountsInv, ClientsInv, Browser

(* The client keeps its session.                                           *)
LEMMA AuthenticateKeeps ==
  ASSUME AccountsInv, NEW b \in Browsers, AccountOf!Authenticate(b)
  PROVE  AccountKept
<1>1. PICK client : client = [browser[b] EXCEPT !.step = "login", !.password = account.password]
  OBVIOUS
<1>2. client = [session |-> browser[b].session, step |-> "login", password |-> account.password]
  BY <1>1, BrowserOf DEF Browser
<1>3. /\ account.password \in 0..MaxPassword
      /\ browser[b].session \in AccountOf!Session \cup {AccountOf!None}
  BY BrowserOf DEF AccountsInv, AccountRows, Rows, Browser
<1>4. client \in Browser /\ client.step = "login" /\ client.session = browser[b].session
  BY <1>2, <1>3 DEF Browser
<1>5. browser' = [browser EXCEPT ![b] = client] /\ cut' = cut
  BY <1>1 DEF AccountOf!Authenticate
<1>6. ClientSound(client, b, cut')
  BY <1>4, <1>5, BrowserOf DEF ClientSound
<1> QED BY <1>4, <1>5, <1>6, BrowserOf, ClientMoves DEF AccountOf!Authenticate, AccountOf!mailVars

(* A client that has just got a session as the account is now.             *)
LEMMA NewSession ==
  ASSUME AccountsInv, NEW b \in Browsers, NEW client, NEW s, NEW epoch \in {0, account.epoch},
         NEW tracked \in {"untracked", "live"}, NEW password \in 0..MaxPassword,
         NEW out, b \notin out,
         s = [password |-> account.password, epoch |-> epoch, entry |-> tracked],
         client = [session |-> s, step |-> "idle", password |-> password]
  PROVE  client \in Browser /\ ClientSound(client, b, out)
<1>1. account.password \in 0..MaxPassword /\ account.epoch \in 0..MaxEpoch
      /\ account.password \in Nat /\ account.epoch \in Nat /\ epoch \in 0..MaxEpoch
  BY AccountsAssumption DEF AccountsInv, AccountRows, Rows
<1>2. s \in AccountOf!Session
  BY <1>1 DEF AccountOf!Session
<1>3. client \in Browser
  BY <1>2 DEF Browser
<1>4. /\ client.step = "idle" /\ client.session = s
      /\ s.password = account.password /\ s.epoch = epoch /\ epoch <= account.epoch
  BY <1>1
<1>5. s.password <= account.password /\ s.epoch <= account.epoch
  BY <1>1, <1>4
<1>6. ClientSound(client, b, out)
  BY <1>4, <1>5 DEF ClientSound
<1> QED BY <1>3, <1>6

LEMMA SignInKeeps ==
  ASSUME AccountsInv, NEW b \in Browsers, AccountOf!SignIn(b)
  PROVE  AccountKept
<1>0. 0 \in 0..MaxPassword
  BY AccountsAssumption
<1>1. CASE account.active /\ browser[b].password = account.password
  <2>1. PICK s : s = [password |-> account.password, epoch |-> account.epoch, entry |-> "live"]
    OBVIOUS
  <2>2. PICK client : client = [session |-> s, step |-> "idle", password |-> 0]
    OBVIOUS
  <2>3. client \in Browser /\ ClientSound(client, b, cut \ {b})
    BY <1>0, <2>1, <2>2, NewSession
  <2>4. [AccountOf!SignedOut EXCEPT !.session = s] = client
    BY <2>2 DEF AccountOf!SignedOut, AccountOf!Unusable
  <2>5. browser' = [browser EXCEPT ![b] = client] /\ cut' = cut \ {b}
    BY <1>1, <2>1, <2>4 DEF AccountOf!SignIn
  <2> QED BY <2>3, <2>5, BrowserOf, ClientMoves DEF AccountOf!SignIn, AccountOf!mailVars
<1>2. CASE ~(account.active /\ browser[b].password = account.password)
  <2>1. PICK client : client = [browser[b] EXCEPT !.step = "idle", !.password = 0]
    OBVIOUS
  <2>2. client = [session |-> browser[b].session, step |-> "idle", password |-> 0]
    BY <2>1, BrowserOf DEF Browser
  <2>3. browser[b].session \in AccountOf!Session \cup {AccountOf!None}
    BY BrowserOf DEF Browser
  <2>4. client \in Browser /\ client.step = "idle" /\ client.session = browser[b].session
    BY <1>0, <2>2, <2>3 DEF Browser
  <2>5. browser' = [browser EXCEPT ![b] = client] /\ cut' = cut
    BY <1>2, <2>1 DEF AccountOf!SignIn, AccountOf!Unusable
  <2>6. ClientSound(client, b, cut')
    BY <2>4, <2>5, BrowserOf DEF ClientSound
  <2> QED BY <2>4, <2>5, <2>6, BrowserOf, ClientMoves DEF AccountOf!SignIn, AccountOf!mailVars
<1> QED BY <1>1, <1>2

LEMMA AdminSignInKeeps ==
  ASSUME AccountsInv, NEW b \in Browsers, AccountOf!AdminSignIn(b)
  PROVE  AccountKept
<1>1. PICK s : s = [password |-> account.password, epoch |-> 0, entry |-> "untracked"]
  OBVIOUS
<1>2. PICK client : client = [browser[b] EXCEPT !.session = s]
  OBVIOUS
<1>3. client = [session |-> s, step |-> "idle", password |-> browser[b].password]
  BY <1>2, BrowserOf DEF Browser, AccountOf!AdminSignIn
<1>4. browser[b].password \in 0..MaxPassword
  BY BrowserOf DEF Browser
<1>5. client \in Browser /\ ClientSound(client, b, cut \ {b})
  BY <1>1, <1>3, <1>4, NewSession
<1>6. browser' = [browser EXCEPT ![b] = client] /\ cut' = cut \ {b}
  BY <1>1, <1>2 DEF AccountOf!AdminSignIn
<1>7. /\ UNCHANGED <<account, links, mailbox, issued, mails, registering, asking, wanted>>
      /\ servedCut' = FALSE
  BY BrowserOf DEF AccountOf!AdminSignIn, AccountOf!mailVars
<1>8. ClientSound(client, b, cut') /\ cut' \subseteq cut \cup {b}
  BY <1>5, <1>6
<1> QED BY <1>5, <1>6, <1>7, <1>8, ClientMoves

LEMMA SessionEndsKeeps ==
  ASSUME AccountsInv, NEW b \in Browsers, AccountOf!SessionEnds(b),
         UNCHANGED <<account, links, mailbox, issued, mails, registering, asking, wanted, cut,
                     servedCut>>
  PROVE  AccountKept
<1>1. PICK client : client = [browser[b] EXCEPT !.session = AccountOf!None, !.step = "idle"]
  OBVIOUS
<1>2. client = [session |-> AccountOf!None, step |-> "idle", password |-> browser[b].password]
      /\ browser[b].password \in 0..MaxPassword
  BY <1>1, BrowserOf DEF Browser
<1>3. client \in Browser /\ client.step = "idle" /\ client.session = AccountOf!None
  BY <1>2 DEF Browser
<1>4. browser' = [browser EXCEPT ![b] = client]
  BY <1>1 DEF AccountOf!SessionEnds
<1>5. ClientSound(client, b, cut')
  BY <1>3 DEF ClientSound
<1> QED BY <1>3, <1>4, <1>5, BrowserOf, ClientMoves

(* What is served has not been ended: an ended session is not admitted.    *)
LEMMA AccountRequestKeeps ==
  ASSUME AccountsInv, NEW b \in Browsers, AccountOf!Request(b)
  PROVE  AccountKept
<1>1. CASE ~AccountOf!Admits(b)
  BY <1>1, SessionEndsKeeps DEF AccountOf!Request, AccountOf!mailVars
<1>2. CASE AccountOf!Admits(b)
  <2>1. PICK s \in AccountOf!Session : s = browser[b].session /\ s # AccountOf!None
    BY BrowserOf DEF AccountOf!Request, AccountOf!HasSession
  <2>2. ~Ended(s)
    BY <1>2, <2>1, RowTypes DEF AccountsInv, AccountOf!Admits, AccountOf!KnownUser, Ended
  <2>3. b \notin cut
    BY <2>1, <2>2, BrowserOf DEF ClientSound
  <2>4. CASE s.entry = "untracked"
    <3>1. PICK client : client = [browser[b] EXCEPT !.step = "tracking"]
      OBVIOUS
    <3>2. client \in Browser /\ client.step = "tracking" /\ client.session = s
      BY <2>1, <3>1, BrowserOf DEF Browser
    <3>3. browser' = [browser EXCEPT ![b] = client] /\ UNCHANGED servedCut
      BY <1>2, <2>1, <2>4, <3>1 DEF AccountOf!Request
    <3>4. ClientSound(client, b, cut)
      BY <2>1, <2>4, <3>2, BrowserOf DEF ClientSound
    <3> QED BY <3>2, <3>3, <3>4, BrowserOf, ClientMoves DEF AccountOf!Request, AccountOf!mailVars
  <2>5. CASE s.entry # "untracked"
    <3>1. UNCHANGED browser /\ servedCut' = FALSE
      BY <1>2, <2>1, <2>3, <2>5, BrowserOf DEF AccountOf!Request, AccountOf!Serve
    <3>2. PICK client \in Browser : client = browser[b]
      BY BrowserOf
    <3> QED BY <3>1, <3>2, BrowserOf, ClientMoves DEF AccountOf!Request, AccountOf!mailVars
  <2> QED BY <2>4, <2>5
<1> QED BY <1>1, <1>2

LEMMA TrackKeeps ==
  ASSUME AccountsInv, NEW b \in Browsers, AccountOf!Track(b)
  PROVE  AccountKept
<1>1. CASE ~(AccountOf!KnownUser(b) /\ ~account.deleted /\ browser[b].session.epoch = account.epoch)
  BY <1>1, SessionEndsKeeps DEF AccountOf!Track, AccountOf!mailVars
<1>2. CASE AccountOf!KnownUser(b) /\ ~account.deleted /\ browser[b].session.epoch = account.epoch
  <2>1. PICK s \in AccountOf!Session : s = browser[b].session /\ s # AccountOf!None
    BY BrowserOf DEF AccountOf!Track, AccountOf!HasSession
  <2>2. s.entry = "untracked"
    BY <2>1, BrowserOf DEF AccountOf!Track, ClientSound
  <2>3. ~Ended(s)
    BY <1>2, <2>1, <2>2, RowTypes DEF AccountsInv, AccountOf!KnownUser, Ended
  <2>4. b \notin cut
    BY <2>1, <2>3, BrowserOf DEF ClientSound
  <2>5. PICK t : t = [s EXCEPT !.entry = "live"]
    OBVIOUS
  <2>6. t \in AccountOf!Session /\ t.password = s.password /\ t.epoch = s.epoch
    BY <2>5 DEF AccountOf!Session
  <2>7. PICK client : client = [browser[b] EXCEPT !.step = "idle", !.session = t]
    OBVIOUS
  <2>8. client = [session |-> t, step |-> "idle", password |-> browser[b].password]
        /\ browser[b].password \in 0..MaxPassword
    BY <2>7, BrowserOf DEF Browser
  <2>9. client \in Browser /\ client.step = "idle" /\ client.session = t
    BY <2>6, <2>8 DEF Browser
  <2>10. browser' = [browser EXCEPT ![b] = client] /\ servedCut' = FALSE /\ cut' = cut
    <3> DEFINE tracked == [browser[b] EXCEPT !.step = "idle", !.session.entry = "live"]
    <3>1. browser' = [browser EXCEPT ![b] = tracked] /\ servedCut' = FALSE /\ cut' = cut
      BY <1>2, <2>4, BrowserOf DEF AccountOf!Track, AccountOf!Serve
    <3>2. tracked = client
      BY <2>1, <2>5, <2>7
    <3> HIDE DEF tracked
    <3> QED BY <3>1, <3>2
  <2>11. ClientSound(client, b, cut)
    BY <2>1, <2>4, <2>6, <2>9, BrowserOf DEF ClientSound
  <2> QED BY <2>9, <2>10, <2>11, ClientMoves DEF AccountOf!Track, AccountOf!mailVars
<1> QED BY <1>1, <1>2

LEMMA RevokeSessionKeeps ==
  ASSUME AccountsInv, NEW b \in Browsers, AccountOf!RevokeSession(b)
  PROVE  AccountKept
<1>1. PICK s \in AccountOf!Session : s = browser[b].session /\ s # AccountOf!None
  BY BrowserOf DEF AccountOf!RevokeSession, AccountOf!HasSession
<1>2. PICK t : t = [s EXCEPT !.entry = "revoked"]
  OBVIOUS
<1>3. /\ t \in AccountOf!Session /\ t.password = s.password /\ t.epoch = s.epoch
      /\ t.entry = "revoked"
  BY <1>2 DEF AccountOf!Session
<1>4. PICK client : client = [browser[b] EXCEPT !.session = t]
  OBVIOUS
<1>5. client \in Browser /\ client.step = browser[b].step /\ client.session = t
  BY <1>3, <1>4, BrowserOf DEF Browser
<1>6. browser[b].step # "tracking"
  BY <1>1, BrowserOf DEF AccountOf!RevokeSession, ClientSound
<1>7. browser' = [browser EXCEPT ![b] = client] /\ cut' = cut \cup {b}
  BY <1>1, <1>2, <1>4 DEF AccountOf!RevokeSession
<1>8. ClientSound(client, b, cut')
  BY <1>1, <1>3, <1>5, <1>6, BrowserOf DEF ClientSound, Ended
<1> QED BY <1>5, <1>7, <1>8, BrowserOf, ClientMoves DEF AccountOf!RevokeSession, AccountOf!mailVars

LEMMA ClientStepsKeep ==
  ASSUME AccountsInv, NEW b \in Browsers,
         \/ AccountOf!Authenticate(b) \/ AccountOf!SignIn(b) \/ AccountOf!AdminSignIn(b)
         \/ AccountOf!Request(b) \/ AccountOf!Track(b) \/ AccountOf!RevokeSession(b)
         \/ AccountOf!Logout(b)
  PROVE  AccountKept
<1>1. CASE AccountOf!Logout(b)
  BY <1>1, SessionEndsKeeps DEF AccountOf!Logout, AccountOf!mailVars
<1> QED BY <1>1, AuthenticateKeeps, SignInKeeps, AdminSignInKeeps, AccountRequestKeeps, TrackKeeps,
        RevokeSessionKeeps
-----------------------------------------------------------------------------
(* Links. *)

LEMMA LinkMade ==
  ASSUME AccountsInv, issued < MaxMails,
         NEW purpose \in {"VERIFY", "RESET"}, NEW email \in Addresses,
         NEW activates \in BOOLEAN, NEW link, link = AccountOf!NewLink(purpose, email, activates)
  PROVE  /\ link \in AccountOf!Link /\ link.number = issued + 1 /\ link.purpose = purpose
         /\ link.email = email /\ link.activates = activates /\ link.auth = account.password
         /\ issued + 1 \in 1..MaxMails
<1>1. issued + 1 \in 1..MaxMails /\ account.password \in 0..MaxPassword
  BY AccountsAssumption DEF AccountsInv, LinksInv, AccountRows, Rows
<1>2. link = [number |-> issued + 1, purpose |-> purpose, email |-> email,
              activates |-> activates, auth |-> account.password]
  BY DEF AccountOf!NewLink
<1>3. link \in AccountOf!Link
  BY <1>1, <1>2 DEF AccountOf!Link
<1> QED BY <1>1, <1>2, <1>3

LEMMA LinkTypes ==
  ASSUME AccountsInv, NEW l \in links
  PROVE  l \in AccountOf!Link /\ l.number \in Nat /\ l.number \in mailbox /\ l.number <= issued
         /\ LinkSound(l) /\ issued \in Nat /\ l.email \in Addresses
         /\ l.purpose \in {"VERIFY", "RESET"} /\ mailbox \subseteq 1..issued
  BY AccountsAssumption DEF AccountsInv, LinksInv, LinkSound, AccountOf!Link

(* A link that is issued replaces that of the same purpose, and its        *)
(* envelope is written.                                                    *)
LEMMA IssueMoves ==
  ASSUME AccountsInv, account.exists, ~account.deleted, UNCHANGED <<account, registering>>,
         asking' \in {asking, AccountOf!None}, wanted' \in Addresses,
         NEW purpose \in {"VERIFY", "RESET"}, NEW email \in Addresses, NEW activates \in BOOLEAN,
         AccountOf!Issue(AccountOf!NewLink(purpose, email, activates)),
         purpose = "VERIFY" => email = IF activates THEN FirstAddress ELSE wanted',
         links' = links => wanted' = wanted,
         purpose # "VERIFY" => wanted' = wanted
  PROVE  AccountRows' /\ LinksInv'
<1>1. PICK link : link = AccountOf!NewLink(purpose, email, activates)
  OBVIOUS
<1>2. /\ issued < MaxMails /\ issued' = link.number /\ mailbox' = mailbox \cup {link.number}
      /\ \/ mails' = mails + 1 /\ links' = {l \in links : l.purpose # link.purpose} \cup {link}
         \/ UNCHANGED <<mails, links>>
  BY <1>1 DEF AccountOf!Issue
<1>3. /\ link \in AccountOf!Link /\ link.number = issued + 1 /\ link.purpose = purpose
      /\ link.email = email /\ link.activates = activates /\ issued + 1 \in 1..MaxMails
      /\ issued \in Nat /\ issued' = issued + 1
  BY <1>1, <1>2, LinkMade, AccountsAssumption DEF AccountsInv, LinksInv
<1>4. AccountRows'
  BY DEF AccountsInv, AccountRows
<1>5. registering = AccountOf!None
  BY DEF AccountsInv, AccountRows
<1>6. /\ mailbox' \subseteq 1..issued' /\ issued' \in 0..MaxMails /\ mails' \in Nat
      /\ links' \subseteq AccountOf!Link
  BY <1>2, <1>3, AccountsAssumption DEF AccountsInv, LinksInv
<1>7. ASSUME NEW l \in links'
      PROVE  LinkSound(l)'
  <2>1. CASE l = link /\ links' # links
    BY <1>2, <1>3, <2>1 DEF LinkSound
  <2>2. CASE l \in links /\ (links' = links \/ l.purpose # purpose)
    <3>1. l.number \in mailbox' /\ l.number <= issued'
      BY <1>2, <1>3, <2>2, LinkTypes
    <3>2. l.purpose = "VERIFY" => wanted' = wanted
      BY <2>2, LinkTypes
    <3> QED BY <2>2, <3>1, <3>2, LinkTypes DEF LinkSound
  <2> QED BY <1>2, <1>3, <2>1, <2>2
<1>8. \A l, m \in links' : l.purpose = m.purpose => l = m
  BY <1>2 DEF AccountsInv, LinksInv
<1>9. \/ asking' = AccountOf!None
      \/ asking' \in Asked /\ (~asking'.verified => asking'.email = FirstAddress)
  <2>1. CASE asking' = AccountOf!None
    BY <2>1
  <2>2. CASE asking' = asking
    BY <2>2 DEF AccountsInv, LinksInv
  <2> QED BY <2>1, <2>2
<1> QED BY <1>4, <1>5, <1>6, <1>7, <1>8, <1>9 DEF LinksInv

LEMMA AccountStays ==
  ASSUME AccountsInv, UNCHANGED <<account, browser, cut, servedCut>>, AccountRows', LinksInv'
  PROVE  AccountKept
<1>1. AccountForward
  BY RowTypes DEF AccountsInv, AccountForward
<1> QED BY <1>1, ClientsStand, ResetIsProved DEF AccountsInv, AccountKept

LEMMA AskIssuesKeeps ==
  ASSUME AccountsInv, AccountOf!AskIssues
  PROVE  AccountKept
<1>1. /\ asking \in Asked /\ asking' = AccountOf!None /\ account.exists
      /\ UNCHANGED <<account, registering, browser, cut, servedCut, wanted>>
      /\ ~asking.verified => asking.email = FirstAddress
  BY DEF AccountOf!AskIssues, AccountOf!clientVars, AccountsInv, LinksInv, AccountRows
<1>2. CASE UNCHANGED <<links, mailbox, issued, mails>>
  <2>1. AccountRows' /\ LinksInv'
    BY <1>1, <1>2, RowsStand, LinksStand DEF AccountsInv
  <2> QED BY <1>1, <2>1, AccountStays
<1>3. CASE /\ AccountOf!Answerable
           /\ AccountOf!Issue(AccountOf!NewLink(asking.purpose, asking.email, ~asking.verified))
  <2>1. /\ asking.purpose \in {"VERIFY", "RESET"} /\ asking.email \in Addresses
        /\ (~asking.verified) \in BOOLEAN /\ ~account.deleted
    BY <1>1, <1>3 DEF Asked, AccountOf!Answerable
  <2>2. PICK purpose, email : purpose = asking.purpose /\ email = asking.email
    OBVIOUS
  <2>3. CASE ~asking.verified
    <3>1. AccountOf!Issue(AccountOf!NewLink(purpose, email, TRUE))
      BY <1>3, <2>2, <2>3
    <3>2. email = FirstAddress /\ wanted' = wanted /\ wanted \in Addresses
      BY <1>1, <2>2, <2>3 DEF AccountsInv, LinksInv
    <3>3. AccountRows' /\ LinksInv'
      BY <1>1, <2>1, <2>2, <3>1, <3>2, IssueMoves
    <3> QED BY <1>1, <3>3, AccountStays
  <2>4. CASE asking.verified
    <3>1. AccountOf!Issue(AccountOf!NewLink(purpose, email, FALSE)) /\ purpose = "RESET"
      BY <1>3, <2>1, <2>2, <2>4 DEF AccountOf!Answerable
    <3>2. wanted' = wanted /\ wanted \in Addresses
      BY <1>1 DEF AccountsInv, LinksInv
    <3>3. AccountRows' /\ LinksInv'
      BY <1>1, <2>1, <2>2, <3>1, <3>2, IssueMoves
    <3> QED BY <1>1, <3>3, AccountStays
  <2> QED BY <2>3, <2>4
<1> QED BY <1>2, <1>3 DEF AccountOf!AskIssues, AccountOf!IssueOrDrop, AccountOf!mailVars

LEMMA ChangeEmailKeeps ==
  ASSUME AccountsInv, NEW email \in Addresses, AccountOf!ChangeEmail(email)
  PROVE  AccountKept
<1>1. /\ account.exists /\ ~account.deleted
      /\ UNCHANGED <<account, registering, asking, browser, cut, servedCut>>
      /\ wanted' = IF \E l \in links' \ links : l.email = email THEN email ELSE wanted
      /\ wanted \in Addresses
  BY RowTypes DEF AccountOf!ChangeEmail, AccountOf!clientVars, AccountsInv, AccountRows, LinksInv
<1>2. CASE UNCHANGED <<links, mailbox, issued, mails>>
  <2>1. wanted' = wanted
    BY <1>1, <1>2
  <2>2. AccountRows' /\ LinksInv'
    BY <1>1, <1>2, <2>1, RowsStand, LinksStand DEF AccountsInv
  <2> QED BY <1>1, <2>2, AccountStays
<1>3. CASE AccountOf!Issue(AccountOf!NewLink("VERIFY", email, FALSE))
  <2>1. PICK link : link = AccountOf!NewLink("VERIFY", email, FALSE)
    OBVIOUS
  <2>2. link.number = issued + 1 /\ link.email = email
    BY <2>1 DEF AccountOf!NewLink
  <2>3. link \notin links
    BY <2>2, LinkTypes
  <2>4. CASE UNCHANGED links
    <3>1. wanted' = wanted
      BY <1>1, <2>4
    <3>2. AccountRows'
      BY <1>1, <2>4, RowsStand DEF AccountsInv
    <3>3. /\ issued < MaxMails /\ issued' = issued + 1 /\ mailbox' = mailbox \cup {issued + 1}
          /\ mails' \in {mails, mails + 1}
      BY <1>3, <2>1, <2>2 DEF AccountOf!Issue
    <3>4. registering = AccountOf!None
      BY <1>1 DEF AccountsInv, AccountRows
    <3>5. /\ mailbox' \subseteq 1..issued' /\ issued' \in 0..MaxMails /\ mails' \in Nat
      BY <3>3, AccountsAssumption DEF AccountsInv, LinksInv
    <3>6. \A l \in links' : LinkSound(l)'
      BY <2>4, <3>1, <3>3, LinkTypes DEF LinkSound
    <3>7. LinksInv'
      BY <1>1, <2>4, <3>1, <3>4, <3>5, <3>6 DEF AccountsInv, LinksInv
    <3> QED BY <1>1, <3>2, <3>7, AccountStays
  <2>5. CASE links' # links
    <3>1. link \in links'
      BY <1>3, <2>1, <2>5 DEF AccountOf!Issue
    <3>2. wanted' = email
      BY <1>1, <2>2, <2>3, <3>1
    <3>3. UNCHANGED <<account, registering>> /\ asking' \in {asking, AccountOf!None}
          /\ email = (IF FALSE THEN FirstAddress ELSE wanted') /\ wanted' \in Addresses
      BY <1>1, <3>2
    <3>4. PICK activates \in BOOLEAN : activates = FALSE
      OBVIOUS
    <3>5. AccountOf!Issue(AccountOf!NewLink("VERIFY", email, activates))
      BY <1>3, <3>4
    <3>6. AccountRows' /\ LinksInv'
      BY <1>1, <2>5, <3>3, <3>4, <3>5, IssueMoves
    <3> QED BY <1>1, <3>6, AccountStays
  <2> QED BY <2>4, <2>5
<1> QED BY <1>2, <1>3 DEF AccountOf!ChangeEmail, AccountOf!IssueOrDrop, AccountOf!mailVars

LEMMA AskReadsKeeps ==
  ASSUME AccountsInv, NEW purpose \in {"VERIFY", "RESET"}, AccountOf!AskReads(purpose)
  PROVE  AccountKept
<1> USE DEF AccountOf!AskReads, AccountOf!mailVars, AccountOf!clientVars
<1>1. PICK asked : asked = [purpose |-> purpose, email |-> account.address,
                            verified |-> account.verified]
  OBVIOUS
<1>2. asked \in Asked /\ asked.email = account.address /\ asked.verified = account.verified
  BY <1>1, RowTypes DEF AccountsInv, Asked
<1>3. asking' = asked /\ account.exists /\ ~account.deleted
  BY <1>1
<1>4. ~asked.verified => asked.email = FirstAddress
  BY <1>2, <1>3 DEF AccountsInv, AccountRows
<1>5. AccountRows'
  BY <1>3 DEF AccountsInv, AccountRows
<1>6. LinksInv'
  BY <1>2, <1>3, <1>4 DEF AccountsInv, LinksInv, LinkSound
<1> QED BY <1>5, <1>6, AccountStays

(* register writes the envelope before the rows are there.                 *)
LEMMA RegisterWritesKeeps ==
  ASSUME AccountsInv, AccountOf!RegisterWrites
  PROVE  AccountKept
<1> USE DEF AccountOf!RegisterWrites, AccountOf!clientVars
<1>1. PICK link : link = AccountOf!NewLink("VERIFY", FirstAddress, TRUE)
  OBVIOUS
<1>2. link = [number |-> issued + 1, purpose |-> "VERIFY", email |-> FirstAddress,
              activates |-> TRUE, auth |-> account.password]
  BY <1>1 DEF AccountOf!NewLink
<1>3. /\ link.number = issued + 1 /\ link.purpose = "VERIFY" /\ link.email = FirstAddress
      /\ link.activates
  BY <1>2
<1>4. issued + 1 \in 1..MaxMails /\ issued \in Nat /\ account.password \in 0..MaxPassword
  BY AccountsAssumption DEF AccountsInv, LinksInv, AccountRows, Rows
<1>5. link \in AccountOf!Link
  BY <1>2, <1>4, AccountsAssumption DEF AccountOf!Link
<1>6. registering' = link /\ issued' = issued + 1 /\ mailbox' = mailbox \cup {issued + 1}
  BY <1>1
<1>7. AccountRows'
  BY DEF AccountsInv, AccountRows
<1>8. LinkSound(registering)'
  <2> HIDE DEF AccountOf!RegisterWrites, AccountOf!clientVars
  <2>1. registering'.number = issued'
    BY <1>3, <1>6
  <2>2. issued' \in mailbox' /\ issued' <= issued'
    BY <1>4, <1>6
  <2>3. registering'.number \in mailbox' /\ registering'.number <= issued'
    BY <2>1, <2>2
  <2>4. registering'.email = FirstAddress /\ registering'.activates
    BY <1>3, <1>6
  <2> QED BY <2>3, <2>4 DEF LinkSound
<1>9. /\ mailbox' \subseteq 1..issued' /\ issued' \in 0..MaxMails /\ mails' \in Nat
  BY <1>4, <1>6 DEF AccountsInv, LinksInv
<1>10. links' = {} /\ UNCHANGED <<asking, wanted>>
  BY DEF AccountsInv, AccountRows
<1>11. LinksInv'
  BY <1>3, <1>5, <1>6, <1>8, <1>9, <1>10 DEF AccountsInv, LinksInv
<1> QED BY <1>7, <1>11, AccountStays

LEMMA RegisterCommitsKeeps ==
  ASSUME AccountsInv, AccountOf!RegisterCommits
  PROVE  AccountKept
<1> USE DEF AccountOf!RegisterCommits, AccountOf!clientVars
<1>1. /\ registering \in AccountOf!Link /\ LinkSound(registering) /\ ~account.exists
      /\ registering # AccountOf!None
  BY DEF AccountsInv, AccountRows, LinksInv
<1>2. ~account.active /\ ~account.deleted
  BY <1>1 DEF AccountsInv, AccountRows
<1>3. /\ account' \in Rows /\ account'.exists /\ account'.active = account.active
      /\ account'.deleted = account.deleted /\ account'.password = account.password
      /\ account'.epoch = account.epoch /\ account'.address = account.address
      /\ account'.verified = account.verified
  <2>1. account \in Rows /\ account' = [account EXCEPT !.exists = TRUE]
    BY DEF AccountsInv, AccountRows
  <2> QED BY <2>1 DEF Rows
<1>4. links' = {registering} /\ registering' = AccountOf!None
  OBVIOUS
<1>5. AccountRows'
  BY <1>2, <1>3, <1>4 DEF AccountsInv, AccountRows
<1>6. LinksInv'
  BY <1>1, <1>4 DEF AccountsInv, LinksInv, LinkSound
<1>7. AccountForward
  BY <1>3, RowTypes DEF AccountsInv, AccountForward
<1>8. ClientsInv'
  BY <1>5, <1>7, ClientsStand DEF AccountsInv
<1> QED BY <1>3, <1>5, <1>6, <1>8, ResetIsProved DEF AccountsInv, AccountKept

LEMMA MailStepsKeep ==
  ASSUME AccountsInv,
         AccountOf!RegisterRollsBack \/ AccountOf!LinksExpire \/ AccountOf!HourPasses
  PROVE  AccountKept
<1> USE DEF AccountOf!mailVars, AccountOf!clientVars
<1>1. /\ UNCHANGED <<account, mailbox, issued, wanted, browser, cut, servedCut, asking>>
      /\ registering' \in {registering, AccountOf!None} /\ links' \in {links, {}}
      /\ mails' \in {mails, 0}
  BY DEF AccountOf!RegisterRollsBack, AccountOf!LinksExpire, AccountOf!HourPasses
<1>2. AccountRows'
  BY <1>1, RowsStand DEF AccountsInv
<1>3. LinksInv'
  <2>1. mails' \in Nat /\ links' \subseteq links
    BY <1>1 DEF AccountsInv, LinksInv
  <2> QED BY <1>1, <2>1 DEF AccountsInv, LinksInv, LinkSound
<1> QED BY <1>1, <1>2, <1>3, AccountStays

(* No envelope of a live link is taken, and none of a registration that    *)
(* may still commit.                                                       *)
LEMMA CleanupKeeps ==
  ASSUME AccountsInv, NEW n \in mailbox, AccountOf!Cleanup(n)
  PROVE  AccountKept
<1> USE DEF AccountOf!Cleanup, AccountOf!clientVars
<1>1. AccountRows'
  BY RowsStand DEF AccountsInv
<1>2. \A l \in links : l.number # n
  BY DEF AccountOf!Live
<1>3. \A l \in links : LinkSound(l)'
  BY <1>2, LinkTypes DEF LinkSound
<1>4. registering # AccountOf!None => LinkSound(registering)'
  BY DEF AccountsInv, LinksInv, LinkSound
<1>5. LinksInv'
  BY <1>3, <1>4 DEF AccountsInv, LinksInv
<1> QED BY <1>1, <1>5, AccountStays

LEMMA EraseMailKeeps ==
  ASSUME AccountsInv, AccountOf!EraseMail
  PROVE  AccountKept
<1> USE DEF AccountOf!EraseMail, AccountOf!clientVars
<1>1. AccountRows'
  BY RowsStand DEF AccountsInv
<1>2. links = {} /\ registering = AccountOf!None
  BY DEF AccountsInv, AccountRows
<1>3. LinksInv'
  BY <1>2 DEF AccountsInv, LinksInv
<1> QED BY <1>1, <1>3, AccountStays
-----------------------------------------------------------------------------
(* Credentials. *)

(* Every tracked session is revoked, and no client gets another one.       *)
LEMMA SessionsEnd ==
  ASSUME AccountsInv, AccountRows', AccountOf!EndEverySession, AccountForward,
         account'.epoch = account.epoch + 1,
         cut' \subseteq cut \cup Browsers
  PROVE  ClientsInv'
<1>1. ASSUME NEW b \in Browsers
      PROVE  browser'[b] \in Browser /\ ClientSound(browser[b], b, cut)'
  <2>1. PICK client \in Browser : client = browser[b]
    BY BrowserOf
  <2>2. ClientSound(client, b, cut)
    BY <2>1, BrowserOf
  <2>3. CASE client.session = AccountOf!None
    <3>1. browser'[b] = client
      BY <2>1, <2>3 DEF AccountOf!EndEverySession, AccountOf!HasSession
    <3> QED BY <2>2, <2>3, <3>1 DEF ClientSound
  <2>4. CASE client.session # AccountOf!None
    <3>1. PICK s \in AccountOf!Session : s = client.session
      BY <2>4 DEF Browser
    <3>2. /\ s.password \in Nat /\ s.epoch \in Nat /\ s.epoch <= account.epoch
          /\ account.deleted \/ s.password <= account.password
          /\ client.step = "tracking" => s.entry = "untracked"
      BY <2>2, <2>4, <3>1, AccountsAssumption DEF ClientSound, AccountOf!Session
    <3>3. account'.password \in Nat /\ account'.epoch \in Nat
      BY AccountsAssumption DEF AccountRows, Rows
    <3>4. CASE s.entry = "live"
      <4>1. PICK t : t = [s EXCEPT !.entry = "revoked"]
        OBVIOUS
      <4>2. t \in AccountOf!Session /\ t.password = s.password /\ t.epoch = s.epoch
            /\ t.entry = "revoked"
        BY <4>1 DEF AccountOf!Session
      <4>3. PICK c2 : c2 = [client EXCEPT !.session = t]
        OBVIOUS
      <4>4. c2 \in Browser /\ c2.session = t /\ c2.step = client.step
        BY <4>2, <4>3 DEF Browser
      <4>5. browser'[b] = c2
        BY <2>1, <2>4, <3>1, <3>4, <4>1, <4>3 DEF AccountOf!EndEverySession, AccountOf!HasSession
      <4>6. t.epoch < account'.epoch
        BY <3>2, <4>2, RowTypes DEF AccountsInv
      <4>7. account'.deleted \/ t.password <= account'.password
        BY <3>2, <3>3, <4>2, RowTypes DEF AccountsInv, AccountForward
      <4>8. c2.step # "tracking"
        BY <3>2, <3>4, <4>4
      <4>9. ClientSound(c2, b, cut)'
        BY <3>2, <3>3, <4>2, <4>4, <4>6, <4>7, <4>8 DEF ClientSound, Ended
      <4> QED BY <4>4, <4>5, <4>9 DEF ClientSound
    <3>5. CASE s.entry # "live"
      <4>1. browser'[b] = client
        BY <2>1, <2>4, <3>1, <3>5 DEF AccountOf!EndEverySession, AccountOf!HasSession
      <4>2. s.epoch < account'.epoch
        BY <3>2, RowTypes DEF AccountsInv
      <4>3. account'.deleted \/ s.password <= account'.password
        BY <3>2, <3>3, RowTypes DEF AccountsInv, AccountForward
      <4>4. ClientSound(client, b, cut)'
        BY <2>2, <2>4, <3>1, <3>2, <3>3, <4>2, <4>3 DEF ClientSound, Ended
      <4> QED BY <4>1, <4>4 DEF ClientSound
    <3> QED BY <3>4, <3>5
  <2> QED BY <2>3, <2>4
<1>2. DOMAIN browser' = Browsers /\ browser' = [b \in Browsers |-> browser'[b]]
  BY DEF AccountOf!EndEverySession
<1>3. browser' \in [Browsers -> Browser]
  BY <1>1, <1>2
<1>4. servedCut' = FALSE
  BY DEF AccountsInv, ClientsInv, AccountOf!EndEverySession
<1> QED BY <1>1, <1>3, <1>4 DEF ClientsInv

(* A new password takes every link with it.                                *)
LEMMA SetPasswordKeeps ==
  ASSUME AccountsInv, account.active, AccountOf!SetPassword,
         UNCHANGED <<mailbox, issued, mails, registering, asking, wanted>>
  PROVE  AccountKept
<1>1. account.exists /\ ~account.deleted /\ account \in Rows
  BY DEF AccountsInv, AccountRows
<1>2. PICK password, epoch : password = account.password + 1 /\ epoch = account.epoch + 1
  OBVIOUS
<1>3. password \in 0..MaxPassword /\ epoch \in 0..MaxEpoch
  BY <1>2, RowTypes, AccountsAssumption
     DEF AccountsInv, AccountOf!SetPassword, AccountOf!EndEverySession
<1>4. account' = [account EXCEPT !.password = password, !.epoch = epoch]
  BY <1>2 DEF AccountOf!SetPassword
<1>5. account' = [exists |-> account.exists, active |-> account.active,
                  deleted |-> account.deleted, password |-> password, epoch |-> epoch,
                  address |-> account.address, verified |-> account.verified]
  BY <1>1, <1>4 DEF Rows
<1>6. /\ account'.exists = account.exists /\ account'.active = account.active
      /\ account'.deleted = account.deleted /\ account'.password = password
      /\ account'.epoch = epoch /\ account'.address = account.address
      /\ account'.verified = account.verified
  BY <1>5
<1>7. account' \in Rows
  BY <1>1, <1>3, <1>5 DEF Rows
<1>8. links' = {} /\ AccountOf!EndEverySession /\ cut' = cut \cup AccountOf!Holding
  BY DEF AccountOf!SetPassword
<1>9. AccountRows'
  BY <1>1, <1>6, <1>7, <1>8 DEF AccountsInv, AccountRows
<1>10. LinksInv'
  BY <1>8, LinksStand DEF AccountsInv
<1>11. AccountForward /\ account'.epoch = account.epoch + 1
  BY <1>2, <1>6, RowTypes DEF AccountsInv, AccountForward
<1>12. cut' \subseteq cut \cup Browsers
  BY <1>8 DEF AccountOf!Holding
<1>13. ClientsInv'
  BY <1>8, <1>9, <1>11, <1>12, SessionsEnd
<1> QED BY <1>6, <1>9, <1>10, <1>13, ResetIsProved DEF AccountsInv, AccountKept

LEMMA LogoutAllKeeps ==
  ASSUME AccountsInv, AccountOf!LogoutAll
  PROVE  AccountKept
<1>1. account \in Rows
  BY DEF AccountsInv, AccountRows
<1>2. PICK epoch : epoch = account.epoch + 1
  OBVIOUS
<1>3. epoch \in 0..MaxEpoch
  BY <1>2, RowTypes, AccountsAssumption
     DEF AccountsInv, AccountOf!LogoutAll, AccountOf!EndEverySession
<1>4. account' = [account EXCEPT !.epoch = epoch]
  BY <1>2 DEF AccountOf!LogoutAll
<1>5. /\ account' \in Rows /\ account'.exists = account.exists /\ account'.active = account.active
      /\ account'.deleted = account.deleted /\ account'.password = account.password
      /\ account'.epoch = epoch /\ account'.address = account.address
      /\ account'.verified = account.verified
  BY <1>1, <1>3, <1>4 DEF Rows
<1>6. /\ AccountOf!EndEverySession /\ cut' \subseteq cut \cup Browsers
      /\ UNCHANGED <<links, mailbox, issued, mails, registering, asking, wanted>>
  BY DEF AccountOf!LogoutAll, AccountOf!Tracked, AccountOf!mailVars
<1>7. AccountRows'
  BY <1>5, <1>6 DEF AccountsInv, AccountRows
<1>8. LinksInv'
  BY <1>6, LinksStand DEF AccountsInv
<1>9. AccountForward /\ account'.epoch = account.epoch + 1
  BY <1>2, <1>5, RowTypes DEF AccountsInv, AccountForward
<1>10. ClientsInv'
  BY <1>6, <1>7, <1>9, SessionsEnd
<1> QED BY <1>5, <1>7, <1>8, <1>10, ResetIsProved DEF AccountsInv, AccountKept

LEMMA DeleteAccountKeeps ==
  ASSUME AccountsInv, AccountOf!DeleteAccount
  PROVE  AccountKept
<1>1. account \in Rows /\ account.exists
  BY DEF AccountsInv, AccountRows, AccountOf!DeleteAccount
<1>2. PICK epoch : epoch = account.epoch + 1
  OBVIOUS
<1>3. epoch \in 0..MaxEpoch /\ 0 \in 0..MaxPassword
  BY <1>2, RowTypes, AccountsAssumption
     DEF AccountsInv, AccountOf!DeleteAccount, AccountOf!EndEverySession
<1>4. account' = [account EXCEPT !.active = FALSE, !.deleted = TRUE, !.password = 0,
                                 !.epoch = epoch, !.verified = FALSE]
  BY <1>2 DEF AccountOf!DeleteAccount, AccountOf!Unusable
<1>5. account' = [exists |-> account.exists, active |-> FALSE, deleted |-> TRUE, password |-> 0,
                  epoch |-> epoch, address |-> account.address, verified |-> FALSE]
  BY <1>1, <1>4 DEF Rows
<1>6. /\ account'.exists = account.exists /\ ~account'.active /\ account'.deleted
      /\ account'.epoch = epoch /\ account'.address = account.address
  BY <1>5
<1>7. account.exists \in BOOLEAN /\ account.address \in Addresses
  BY <1>1 DEF Rows
<1>8. account' \in Rows
  BY <1>3, <1>5, <1>7 DEF Rows
<1>9. /\ links' = {} /\ AccountOf!EndEverySession /\ cut' \subseteq cut \cup Browsers
      /\ UNCHANGED <<mailbox, issued, mails, registering, asking, wanted>>
  BY DEF AccountOf!DeleteAccount, AccountOf!Holding
<1>10. AccountRows'
  BY <1>1, <1>6, <1>8, <1>9 DEF AccountsInv, AccountRows
<1>11. LinksInv'
  BY <1>9, LinksStand DEF AccountsInv
<1>12. AccountForward /\ account'.epoch = account.epoch + 1
  BY <1>2, <1>6, RowTypes DEF AccountsInv, AccountForward
<1>13. ClientsInv'
  BY <1>9, <1>10, <1>12, SessionsEnd
<1> QED BY <1>6, <1>10, <1>11, <1>13, ResetIsProved DEF AccountsInv, AccountKept

(* A link that activates can only confirm the address that is there; any   *)
(* other carries the one the owner asked for last.                         *)
LEMMA VerifyKeeps ==
  ASSUME AccountsInv, NEW l \in links, AccountOf!Verify(l)
  PROVE  AccountKept
<1>1. /\ account \in Rows /\ ~account.deleted /\ account.exists /\ LinkSound(l)
      /\ l.purpose = "VERIFY" /\ l.email \in Addresses /\ ~(l.activates /\ account.verified)
  BY LinkTypes DEF AccountsInv, AccountRows, AccountOf!Verify, AccountOf!Good
<1>2. account' = [account EXCEPT !.address = l.email, !.verified = TRUE, !.active = TRUE]
  BY DEF AccountOf!Verify
<1>3. account' = [exists |-> account.exists, active |-> TRUE, deleted |-> account.deleted,
                  password |-> account.password, epoch |-> account.epoch,
                  address |-> l.email, verified |-> TRUE]
  BY <1>1, <1>2 DEF Rows
<1>4. /\ account'.exists = account.exists /\ account'.active /\ account'.verified
      /\ account'.deleted = account.deleted /\ account'.password = account.password
      /\ account'.epoch = account.epoch /\ account'.address = l.email
  BY <1>3
<1>5. account' \in Rows
  BY <1>1, <1>3 DEF Rows
<1>6. /\ links' \subseteq links /\ UNCHANGED <<mailbox, issued, mails, registering, asking, wanted>>
      /\ UNCHANGED <<browser, cut, servedCut>>
  BY DEF AccountOf!Verify, AccountOf!clientVars
<1>7. AccountRows'
  BY <1>1, <1>4, <1>5, <1>6 DEF AccountsInv, AccountRows
<1>8. LinksInv'
  BY <1>6, LinksStand DEF AccountsInv
<1>9. AccountForward
  BY <1>1, <1>4, RowTypes DEF AccountsInv, AccountForward
<1>10. ClientsInv'
  BY <1>6, <1>7, <1>9, ClientsStand DEF AccountsInv
<1>11. account'.address # account.address => account'.address = wanted
  <2>1. CASE l.activates
    BY <1>1, <1>4, <2>1 DEF LinkSound, AccountsInv, AccountRows
  <2>2. CASE ~l.activates
    BY <1>1, <1>4, <2>2 DEF LinkSound
  <2> QED BY <2>1, <2>2
<1> QED BY <1>7, <1>8, <1>10, <1>11, ResetIsProved DEF AccountsInv, AccountKept

LEMMA LinkStepsKeep ==
  ASSUME AccountsInv, NEW l \in links, AccountOf!Reset(l) \/ AccountOf!Verify(l)
  PROVE  AccountKept
<1>1. CASE AccountOf!Reset(l)
  BY <1>1, SetPasswordKeeps DEF AccountOf!Reset
<1>2. CASE AccountOf!Verify(l)
  BY <1>2, VerifyKeeps
<1> QED BY <1>1, <1>2

LEMMA AccountStep == AccountsInv /\ [AccountOf!Next]_(AccountOf!vars) => AccountKept
<1> SUFFICES ASSUME AccountsInv, [AccountOf!Next]_(AccountOf!vars) PROVE AccountKept
  OBVIOUS
<1>1. CASE UNCHANGED AccountOf!vars
  <2> USE DEF AccountOf!vars
  <2>1. AccountRows' /\ LinksInv'
    BY <1>1, RowsStand, LinksStand DEF AccountsInv
  <2> QED BY <1>1, <2>1, AccountStays
<1>2. CASE \/ AccountOf!RegisterWrites \/ AccountOf!RegisterCommits \/ AccountOf!RegisterRollsBack
           \/ AccountOf!AskIssues \/ AccountOf!LinksExpire \/ AccountOf!HourPasses
           \/ AccountOf!EraseMail
  BY <1>2, RegisterWritesKeeps, RegisterCommitsKeeps, MailStepsKeep, AskIssuesKeeps, EraseMailKeeps
<1>3. CASE \E purpose \in {"VERIFY", "RESET"} : AccountOf!AskReads(purpose)
  BY <1>3, AskReadsKeeps
<1>4. CASE \E email \in Addresses : AccountOf!ChangeEmail(email)
  BY <1>4, ChangeEmailKeeps
<1>5. CASE \E l \in links : AccountOf!Reset(l) \/ AccountOf!Verify(l)
  BY <1>5, LinkStepsKeep
<1>6. CASE AccountOf!ChangePassword
  BY <1>6, SetPasswordKeeps DEF AccountOf!ChangePassword
<1>7. CASE AccountOf!LogoutAll \/ AccountOf!DeleteAccount
  BY <1>7, LogoutAllKeeps, DeleteAccountKeeps
<1>8. CASE \E b \in Browsers :
             \/ AccountOf!Authenticate(b) \/ AccountOf!SignIn(b) \/ AccountOf!AdminSignIn(b)
             \/ AccountOf!Request(b) \/ AccountOf!Track(b) \/ AccountOf!RevokeSession(b)
             \/ AccountOf!Logout(b)
  BY <1>8, ClientStepsKeep
<1>9. CASE \E n \in mailbox : AccountOf!Cleanup(n)
  BY <1>9, CleanupKeeps
<1> QED BY <1>1, <1>2, <1>3, <1>4, <1>5, <1>6, <1>7, <1>8, <1>9 DEF AccountOf!Next

(* The invariant of an account: its live links and what they may do to its *)
(* address, and for each client whether its session was ended and by what  *)
(* (accounts.py).                                                          *)
THEOREM AccountsInvHolds == AccountOf!Spec => []AccountsInv
<1>1. AccountsInv /\ [AccountOf!Next]_(AccountOf!vars) => AccountsInv'
  BY AccountStep DEF AccountKept
<1> QED BY AccountsInit, <1>1, PTL DEF AccountOf!Spec

LEMMA AccountsInvIsSound == AccountsInv => AccountOf!AccountsSound
<1> SUFFICES ASSUME AccountsInv PROVE AccountOf!AccountsSound
  OBVIOUS
<1>1. AccountOf!TypeOK
  <2>1. mailbox \subseteq 1..MaxMails
    <3>1. issued \in Nat /\ issued <= MaxMails /\ mailbox \subseteq 1..issued
      BY AccountsAssumption DEF AccountsInv, LinksInv
    <3> QED BY <3>1, AccountsAssumption
  <2> QED BY <2>1, BrowserOf DEF AccountOf!TypeOK, AccountsInv, LinksInv, Browser
<1>2. AccountOf!LiveLinkDelivered
  BY DEF AccountOf!LiveLinkDelivered, AccountsInv, LinksInv, LinkSound
<1>3. AccountOf!EndedSessionsStayOut
  BY DEF AccountOf!EndedSessionsStayOut, AccountsInv, ClientsInv
<1> QED BY <1>1, <1>2, <1>3 DEF AccountOf!AccountsSound

(* A live link has its envelope, although a registration may still commit  *)
(* when the maintenance looks (cleanup_account_mail); and no session that  *)
(* was ended is served again, nor a sign-in that had checked the old       *)
(* password (AccountSessionMiddleware and track_session in accounts.py).   *)
THEOREM AccountsSoundHolds == AccountOf!Spec => []AccountOf!AccountsSound /\ []AccountsSound
<1>1. AccountsInv => AccountsSound
  BY AccountsInvIsSound DEF AccountsSound
<1> QED BY AccountsInvHolds, AccountsInvIsSound, <1>1, PTL

(* The address changes only to the one the owner asked for last, whatever  *)
(* older links are around, and a reset works only from the mailbox the     *)
(* account has now (consume_challenge in accounts.py).                     *)
THEOREM AccountChangesAreProvedHolds ==
  AccountOf!Spec => AccountOf!AccountChangesAreProved /\ AccountChangesAreProved
<1>1. AccountsInv /\ [AccountOf!Next]_(AccountOf!vars) =>
        [AccountOf!ProvedChange]_(AccountOf!vars)
        /\ [focus = "accounts" => AccountOf!ProvedChange]_accountVars
  BY AccountStep DEF AccountKept
<1> QED BY AccountsInvHolds, <1>1, PTL
        DEF AccountOf!Spec, AccountOf!AccountChangesAreProved, AccountChangesAreProved
-----------------------------------------------------------------------------
(***************************************************************************)
(* The practice loop: for any number of captures, assignments, analyses of *)
(* a capture and reports.  The invariant has a part for the captures, a    *)
(* part for assignments, plans and practice, and one for each report.      *)
(***************************************************************************)

(* The rows.  A trial is a capture with the number of one of its analyses. *)
Played == Practice!Captures \X Nat
Capture == [state : {"none", "recorded", "published", "removed", "deleted", "gone"},
            run : Nat, corrected : BOOLEAN]
Plan == [frozen : BOOLEAN, protocol : BOOLEAN, baseline : SUBSET Played]
Entry == [state : {"none", "RECORDED", "MISSING", "SKIPPED", "DELETED"}, revision : Nat,
          matches : SUBSET Practice!Captures]
Info == [trials : SUBSET Played, unpublished : Nat, matches : Nat,
         entry : [state : {"none", "RECORDED", "MISSING", "SKIPPED", "DELETED"}, revision : Nat],
         unresolved : BOOLEAN]
Initial == [phase : Practice!Phases, baseline : SUBSET Played, followup : SUBSET Played,
            practice : SUBSET Played, collection : Info, referenced : BOOLEAN,
            initial : {<<>>}, reference : SUBSET Played, measured : BOOLEAN,
            invalidated : BOOLEAN]
Report == [phase : Practice!Phases, baseline : SUBSET Played, followup : SUBSET Played,
           practice : SUBSET Played, collection : Info, referenced : BOOLEAN,
           initial : Seq(Initial), reference : SUBSET Played, measured : BOOLEAN,
           invalidated : BOOLEAN]

Known(t) == t \in Played /\ 1 <= t[2] /\ t[2] <= capture[t[1]].run
Spoilt(t) == capture[t[1]].state \in {"removed", "deleted"} \/ capture[t[1]].corrected

CaptureRows ==
  /\ capture \in [Practice!Captures -> Capture]
  /\ \A c \in Practice!Captures :
       /\ capture[c].run <= Practice!RunBound(c)
       /\ capture[c].state = "published" => 1 <= capture[c].run
LoopRows ==
  /\ drill \in {"effective", "retired", "withdrawn"}
  /\ assignment \in [Assignments -> {"none", "ASSIGNED", "PRACTICED", "CANCELLED", "WITHDRAWN"}]
  /\ plan \in [Assignments -> Plan]
  /\ linked \in [Assignments -> SUBSET Played]
  /\ entry \in [Assignments -> [Practice!Phases -> Entry]]
  /\ \A a \in Assignments : \A t \in plan[a].baseline \cup linked[a] : Known(t)

(* A report rests on analyses that took place, on the baseline of its plan *)
(* and on practice that is still linked.  One that was measured had a      *)
(* complete collection, and nothing it counts has been taken back unless   *)
(* it is marked; one that refers to another counts what that one counted.  *)
ReportSound(a, f, r) ==
  /\ r.phase = f
  /\ \A t \in Practice!Members(r) : Known(t)
  /\ plan[a].frozen /\ r.baseline = plan[a].baseline /\ r.practice \subseteq linked[a]
  /\ r.measured => /\ r.practice # {}
                   /\ plan[a].protocol => Practice!Complete(r.collection)
                   /\ r.invalidated \/ \A t \in Practice!Members(r) : ~Spoilt(t)
  /\ f = "FOLLOWUP" => r.initial = <<>> /\ ~r.referenced
  /\ r.referenced => /\ reports[a]["FOLLOWUP"] # <<>>
                     /\ r.reference = r.initial[1].followup
ReportsInv ==
  /\ reports \in [Assignments -> [Practice!Phases -> Seq(Report)]]
  /\ \A a \in Assignments, f \in Practice!Phases : \A i \in DOMAIN reports[a][f] :
       ReportSound(a, f, reports[a][f][i])

PracticeInv == CaptureRows /\ LoopRows /\ Practice!PracticeCountsOnce /\ ReportsInv

LEMMA PracticeInit == Practice!Init => PracticeInv
<1> SUFFICES ASSUME Practice!Init PROVE PracticeInv
  OBVIOUS
<1> USE DEF Practice!Init
<1>1. CaptureRows
  BY DEF CaptureRows, Capture, Practice!RunBound
<1>2. LoopRows
  BY DEF LoopRows, Plan, Entry, Practice!NoPlan, Practice!NoEntry
<1>3. Practice!PracticeCountsOnce
  BY DEF Practice!PracticeCountsOnce
<1>4. ReportsInv
  BY EmptySeq DEF ReportsInv
<1> QED BY <1>1, <1>2, <1>3, <1>4 DEF PracticeInv
-----------------------------------------------------------------------------
(* The reports. *)

Marked(r, mark) == [r EXCEPT !.invalidated = mark]

LEMMA MarkedFields ==
  ASSUME NEW r \in Report, NEW mark \in BOOLEAN
  PROVE  /\ Marked(r, mark) \in Report
         /\ Marked(r, mark).phase = r.phase /\ Marked(r, mark).baseline = r.baseline
         /\ Marked(r, mark).followup = r.followup /\ Marked(r, mark).practice = r.practice
         /\ Marked(r, mark).collection = r.collection
         /\ Marked(r, mark).referenced = r.referenced /\ Marked(r, mark).initial = r.initial
         /\ Marked(r, mark).reference = r.reference /\ Marked(r, mark).measured = r.measured
         /\ Marked(r, mark).invalidated = mark
<1>1. Marked(r, mark) =
        [phase |-> r.phase, baseline |-> r.baseline, followup |-> r.followup,
         practice |-> r.practice, collection |-> r.collection, referenced |-> r.referenced,
         initial |-> r.initial, reference |-> r.reference, measured |-> r.measured,
         invalidated |-> mark]
  BY DEF Marked, Report
<1>2. /\ r.phase \in Practice!Phases /\ r.baseline \in SUBSET Played
      /\ r.followup \in SUBSET Played /\ r.practice \in SUBSET Played
      /\ r.collection \in Info /\ r.referenced \in BOOLEAN /\ r.initial \in Seq(Initial)
      /\ r.reference \in SUBSET Played /\ r.measured \in BOOLEAN
  BY DEF Report
<1>3. Marked(r, mark) \in Report
  BY <1>1, <1>2 DEF Report
<1> QED BY <1>1, <1>3

LEMMA MarkedIsSame ==
  ASSUME NEW r \in Report
  PROVE  Marked(r, r.invalidated) = r /\ r.invalidated \in BOOLEAN
  BY DEF Marked, Report

(* What may happen around a report, and what it keeps.                     *)
LoopForward ==
  /\ \A c \in Practice!Captures : capture[c].run <= capture'[c].run
  /\ \A a \in Assignments : /\ plan[a].frozen => plan'[a] = plan[a]
                            /\ linked[a] \subseteq linked'[a]
                            /\ reports[a]["FOLLOWUP"] # <<>> => reports'[a]["FOLLOWUP"] # <<>>

LEMMA KnownLasts ==
  ASSUME CaptureRows, CaptureRows', \A c \in Practice!Captures : capture[c].run <= capture'[c].run,
         NEW t, Known(t)
  PROVE  Known(t)'
<1>1. t \in Played /\ t[1] \in Practice!Captures /\ t[2] \in Nat
  BY DEF Known, Played
<1>2. capture[t[1]].run \in Nat /\ capture'[t[1]].run \in Nat
  BY <1>1 DEF CaptureRows, Capture
<1> QED BY <1>1, <1>2 DEF Known

LEMMA ReportLasts ==
  ASSUME CaptureRows, CaptureRows', LoopForward, NEW a \in Assignments, NEW f \in Practice!Phases,
         NEW r \in Report, ReportSound(a, f, r), NEW mark \in BOOLEAN, r.invalidated => mark,
         mark \/ \A t \in Practice!Members(r) : Spoilt(t)' => Spoilt(t)
  PROVE  ReportSound(a, f, Marked(r, mark))'
<1>1. Practice!Members(Marked(r, mark)) = Practice!Members(r)
  BY MarkedFields DEF Practice!Members
<1>2. \A t \in Practice!Members(r) : Known(t)'
  BY KnownLasts DEF ReportSound, LoopForward
<1>3. r.measured =>
        /\ r.practice # {}
        /\ plan'[a].protocol => Practice!Complete(r.collection)
        /\ mark \/ \A t \in Practice!Members(r) : ~Spoilt(t)'
  BY DEF ReportSound, LoopForward
<1>4. plan'[a].frozen /\ r.baseline = plan'[a].baseline /\ r.practice \subseteq linked'[a]
  BY DEF ReportSound, LoopForward
<1>5. r.referenced => reports'[a]["FOLLOWUP"] # <<>> /\ r.reference = r.initial[1].followup
  BY DEF ReportSound, LoopForward
<1> QED BY <1>1, <1>2, <1>3, <1>4, <1>5, MarkedFields DEF ReportSound, Practice!Complete

(* The reports are marked, and those that rest on what is taken back are.  *)
ReportsMarked ==
  /\ reports' \in [Assignments -> [Practice!Phases -> Seq(Report)]]
  /\ \A a \in Assignments, f \in Practice!Phases :
       /\ DOMAIN reports'[a][f] = DOMAIN reports[a][f]
       /\ \A i \in DOMAIN reports[a][f] : \E mark \in BOOLEAN :
            /\ reports'[a][f][i] = Marked(reports[a][f][i], mark)
            /\ reports[a][f][i].invalidated => mark
            /\ mark \/ \A t \in Practice!Members(reports[a][f][i]) : Spoilt(t)' => Spoilt(t)
RowsForward ==
  /\ \A c \in Practice!Captures : capture[c].run <= capture'[c].run
  /\ \A a \in Assignments : /\ plan[a].frozen => plan'[a] = plan[a]
                            /\ linked[a] \subseteq linked'[a]

LEMMA ReportsStand ==
  ASSUME PracticeInv, CaptureRows', RowsForward, ReportsMarked
  PROVE  ReportsInv'
<1>1. ASSUME NEW a \in Assignments, reports[a]["FOLLOWUP"] # <<>>
      PROVE  reports'[a]["FOLLOWUP"] # <<>>
  <2>1. "FOLLOWUP" \in Practice!Phases
    BY DEF Practice!Phases
  <2>2. /\ reports[a]["FOLLOWUP"] \in Seq(Report) /\ reports'[a]["FOLLOWUP"] \in Seq(Report)
        /\ DOMAIN reports'[a]["FOLLOWUP"] = DOMAIN reports[a]["FOLLOWUP"]
    BY <2>1 DEF PracticeInv, ReportsInv, ReportsMarked
  <2> QED BY <1>1, <2>2
<1>2. LoopForward
  BY <1>1 DEF LoopForward, RowsForward
<1>3. ASSUME NEW a \in Assignments, NEW f \in Practice!Phases, NEW i \in DOMAIN reports'[a][f]
      PROVE  ReportSound(a, f, reports[a][f][i])'
  <2>1. i \in DOMAIN reports[a][f]
    BY <1>3 DEF ReportsMarked
  <2>2. reports[a][f] \in Seq(Report)
    BY DEF PracticeInv, ReportsInv
  <2>3. PICK r \in Report : r = reports[a][f][i]
    BY <2>1, <2>2
  <2>4. PICK mark \in BOOLEAN :
          /\ reports'[a][f][i] = Marked(r, mark)
          /\ r.invalidated => mark
          /\ mark \/ \A t \in Practice!Members(r) : Spoilt(t)' => Spoilt(t)
    BY <2>1, <2>3 DEF ReportsMarked
  <2>5. ReportSound(a, f, r)
    BY <2>1, <2>3 DEF PracticeInv, ReportsInv
  <2>6. ReportSound(a, f, Marked(r, mark))'
    BY <1>2, <2>4, <2>5, ReportLasts DEF PracticeInv
  <2> QED BY <2>4, <2>6
<1> QED BY <1>3 DEF ReportsInv, ReportsMarked

LEMMA SameReports ==
  ASSUME ReportsInv, reports' = reports, \A t \in Played : Spoilt(t)' => Spoilt(t)
  PROVE  ReportsMarked
<1>1. ASSUME NEW a \in Assignments, NEW f \in Practice!Phases, NEW i \in DOMAIN reports[a][f]
      PROVE  \E mark \in BOOLEAN :
               /\ reports'[a][f][i] = Marked(reports[a][f][i], mark)
               /\ reports[a][f][i].invalidated => mark
               /\ mark \/ \A t \in Practice!Members(reports[a][f][i]) : Spoilt(t)' => Spoilt(t)
  <2>1. PICK r \in Report : r = reports[a][f][i]
    BY DEF ReportsInv
  <2>2. Practice!Members(r) \subseteq Played
    BY DEF Report, Practice!Members
  <2> QED BY <2>1, <2>2, MarkedIsSame
<1> QED BY <1>1 DEF ReportsMarked, ReportsInv

LEMMA HistoryMarked ==
  ASSUME NEW h \in Seq(Report), NEW marks \in [DOMAIN h -> BOOLEAN]
  PROVE  [i \in DOMAIN h |-> Marked(h[i], marks[i])] \in Seq(Report)
<1>1. \A i \in 1..Len(h) : Marked(h[i], marks[i]) \in Report
  BY MarkedFields
<1>2. DOMAIN h = 1..Len(h) /\ Len(h) \in Nat
  OBVIOUS
<1>3. [i \in 1..Len(h) |-> Marked(h[i], marks[i])] \in Seq(Report)
  BY <1>1, <1>2, IsASeq
<1> QED BY <1>2, <1>3

LEMMA WithdrawMarks ==
  ASSUME ReportsInv, NEW trials, Practice!Withdraw(trials),
         \A t : Known(t) /\ Spoilt(t)' => Spoilt(t) \/ t \in trials
  PROVE  ReportsMarked
<1> DEFINE Mark(r) == r.invalidated \/ Practice!InvalidatedBy(r, trials)
<1>1. ASSUME NEW a \in Assignments, NEW f \in Practice!Phases
      PROVE  /\ reports'[a][f] \in Seq(Report) /\ DOMAIN reports'[a][f] = DOMAIN reports[a][f]
             /\ \A i \in DOMAIN reports[a][f] :
                  reports'[a][f][i] = Marked(reports[a][f][i], Mark(reports[a][f][i]))
  <2>1. reports[a][f] \in Seq(Report)
    BY DEF ReportsInv
  <2>2. PICK h \in Seq(Report) : h = reports[a][f]
    BY <2>1
  <2>3. reports'[a][f] = [i \in DOMAIN h |-> Marked(h[i], Mark(h[i]))]
    BY <2>2 DEF Practice!Withdraw, Marked
  <2>4. PICK marks \in [DOMAIN h -> BOOLEAN] : marks = [i \in DOMAIN h |-> Mark(h[i])]
    <3>1. \A i \in DOMAIN h : Mark(h[i]) \in BOOLEAN
      BY DEF Practice!InvalidatedBy
    <3> QED BY <3>1
  <2>5. reports'[a][f] = [i \in DOMAIN h |-> Marked(h[i], marks[i])]
    BY <2>3, <2>4
  <2> QED BY <2>2, <2>3, <2>5, HistoryMarked
<1>2. ASSUME NEW a \in Assignments, NEW f \in Practice!Phases, NEW i \in DOMAIN reports[a][f]
      PROVE  \E mark \in BOOLEAN :
               /\ reports'[a][f][i] = Marked(reports[a][f][i], mark)
               /\ reports[a][f][i].invalidated => mark
               /\ mark \/ \A t \in Practice!Members(reports[a][f][i]) : Spoilt(t)' => Spoilt(t)
  <2>1. PICK r \in Report : r = reports[a][f][i]
    BY DEF ReportsInv
  <2>2. \A t \in Practice!Members(r) : Known(t)
    BY <2>1 DEF ReportsInv, ReportSound
  <2>3. Mark(r) \in BOOLEAN /\ (r.invalidated => Mark(r))
    BY DEF Practice!InvalidatedBy
  <2>4. Mark(r) \/ \A t \in Practice!Members(r) : Spoilt(t)' => Spoilt(t)
    BY <2>2 DEF Practice!InvalidatedBy
  <2> QED BY <1>1, <2>1, <2>3, <2>4
<1>3. reports' \in [Assignments -> [Practice!Phases -> Seq(Report)]]
  BY <1>1 DEF Practice!Withdraw
<1> QED BY <1>1, <1>2, <1>3 DEF ReportsMarked
-----------------------------------------------------------------------------
(* The evidence: one capture moves, and the trials that this spoils are    *)
(* withdrawn.                                                              *)

LEMMA CaptureOf ==
  ASSUME PracticeInv, NEW c \in Practice!Captures
  PROVE  /\ capture[c] \in Capture /\ capture[c].run \in Nat /\ capture[c].corrected \in BOOLEAN
         /\ capture[c].run <= Practice!RunBound(c)
         /\ capture[c].state = "published" => 1 <= capture[c].run
  BY DEF PracticeInv, CaptureRows, Capture

LEMMA CaptureMoves ==
  ASSUME PracticeInv, NEW c \in Practice!Captures, NEW row \in Capture,
         capture' = [capture EXCEPT ![c] = row], capture[c].run <= row.run,
         row.run <= Practice!RunBound(c), row.state = "published" => 1 <= row.run,
         UNCHANGED <<assignment, plan, linked, entry>>,
         drill' \in {"effective", "retired", "withdrawn"}
  PROVE  /\ CaptureRows' /\ LoopRows' /\ Practice!PracticeCountsOnce' /\ RowsForward
         /\ \A t \in Played : t[1] # c => Spoilt(t)' = Spoilt(t)
         /\ \A t \in Played : t[1] = c => Spoilt(t)' = (\/ row.state \in {"removed", "deleted"}
                                                        \/ row.corrected)
<1>1. /\ capture' \in [Practice!Captures -> Capture] /\ capture'[c] = row
      /\ \A x \in Practice!Captures : x # c => capture'[x] = capture[x]
  BY DEF PracticeInv, CaptureRows
<1>2. \A x \in Practice!Captures : capture[x].run <= capture'[x].run
  <2>1. \A x \in Practice!Captures : capture[x].run \in Nat
    BY CaptureOf
  <2> QED BY <1>1, <2>1
<1>3. CaptureRows'
  BY <1>1, CaptureOf DEF CaptureRows, Practice!RunBound
<1>4. RowsForward
  BY <1>2 DEF RowsForward
<1>5. ASSUME NEW a \in Assignments, NEW t \in (plan[a].baseline \cup linked[a])'
      PROVE  Known(t)'
  BY <1>2, <1>3, KnownLasts DEF PracticeInv, LoopRows
<1>6. LoopRows'
  BY <1>5 DEF PracticeInv, LoopRows
<1>7. Practice!PracticeCountsOnce'
  BY DEF PracticeInv, Practice!PracticeCountsOnce
<1>8. \A t \in Played : t[1] \in Practice!Captures
  BY DEF Played
<1> QED BY <1>1, <1>3, <1>4, <1>6, <1>7, <1>8 DEF Spoilt

LEMMA UploadKeeps ==
  ASSUME PracticeInv, NEW c \in Practice!Captures, Practice!Upload(c)
  PROVE  PracticeInv'
<1>1. PICK row : row = [capture[c] EXCEPT !.state = "recorded"]
  OBVIOUS
<1>2. row = [state |-> "recorded", run |-> capture[c].run, corrected |-> FALSE]
  BY <1>1, CaptureOf DEF Capture, Practice!Upload
<1>3. row \in Capture /\ row.run = capture[c].run /\ row.state = "recorded" /\ ~row.corrected
  BY <1>2, CaptureOf DEF Capture
<1>4. capture' = [capture EXCEPT ![c] = row]
  BY <1>1 DEF Practice!Upload
<1>5. capture[c].run <= row.run /\ row.run <= Practice!RunBound(c)
  BY <1>3, CaptureOf
<1>6. UNCHANGED <<drill, assignment, plan, linked, entry, reports>>
      /\ drill' \in {"effective", "retired", "withdrawn"}
  BY DEF Practice!Upload, PracticeInv, LoopRows
<1>7. /\ CaptureRows' /\ LoopRows' /\ Practice!PracticeCountsOnce' /\ RowsForward
      /\ \A t \in Played : Spoilt(t)' => Spoilt(t)
  BY <1>3, <1>4, <1>5, <1>6, CaptureMoves
<1>8. ReportsInv'
  BY <1>6, <1>7, SameReports, ReportsStand DEF PracticeInv
<1> QED BY <1>7, <1>8 DEF PracticeInv

LEMMA PublishCaptureKeeps ==
  ASSUME PracticeInv, NEW c \in Practice!Captures, Practice!Publish(c)
  PROVE  PracticeInv'
<1>1. PICK row : row = [capture[c] EXCEPT !.state = "published", !.run = @ + 1]
  OBVIOUS
<1>2. row = [state |-> "published", run |-> capture[c].run + 1, corrected |-> FALSE]
  BY <1>1, CaptureOf DEF Capture, Practice!Publish
<1>3. /\ row \in Capture /\ row.run = capture[c].run + 1 /\ row.state = "published"
      /\ ~row.corrected
  BY <1>2, CaptureOf DEF Capture
<1>4. capture' = [capture EXCEPT ![c] = row]
  BY <1>1 DEF Practice!Publish
<1>5. capture[c].run <= row.run /\ 1 <= row.run /\ row.run <= Practice!RunBound(c)
  BY <1>3, CaptureOf DEF Practice!Publish, Practice!RunBound
<1>6. UNCHANGED <<drill, assignment, plan, linked, entry, reports>>
      /\ drill' \in {"effective", "retired", "withdrawn"}
  BY DEF Practice!Publish, PracticeInv, LoopRows
<1>7. /\ CaptureRows' /\ LoopRows' /\ Practice!PracticeCountsOnce' /\ RowsForward
      /\ \A t \in Played : Spoilt(t)' => Spoilt(t)
  BY <1>3, <1>4, <1>5, <1>6, CaptureMoves
<1>8. ReportsInv'
  BY <1>6, <1>7, SameReports, ReportsStand DEF PracticeInv
<1> QED BY <1>7, <1>8 DEF PracticeInv

LEMMA KnownIsTrial ==
  ASSUME PracticeInv, NEW t, Known(t)
  PROVE  t \in Practice!Trials(t[1]) /\ t \in Played
<1>1. t \in Played /\ t[1] \in Practice!Captures /\ t[2] \in Nat /\ t = <<t[1], t[2]>>
  BY DEF Known, Played
<1>2. t[2] \in 1..capture[t[1]].run
  BY <1>1, CaptureOf DEF Known
<1> QED BY <1>1, <1>2 DEF Practice!Trials

LEMMA WithdrawalKeeps ==
  ASSUME PracticeInv, NEW c \in Practice!Captures, NEW row \in Capture,
         capture' = [capture EXCEPT ![c] = row], row.run = capture[c].run,
         row.state = "published" => capture[c].state = "published",
         Practice!Withdraw(Practice!Trials(c)), UNCHANGED <<drill, assignment, plan, linked, entry>>
  PROVE  PracticeInv'
<1>1. capture[c].run <= row.run /\ row.run <= Practice!RunBound(c)
      /\ (row.state = "published" => 1 <= row.run)
  BY CaptureOf
<1>2. /\ CaptureRows' /\ LoopRows' /\ Practice!PracticeCountsOnce' /\ RowsForward
      /\ \A t \in Played : t[1] # c => Spoilt(t)' = Spoilt(t)
  BY <1>1, CaptureMoves DEF PracticeInv, LoopRows
<1>3. \A t : Known(t) /\ Spoilt(t)' => Spoilt(t) \/ t \in Practice!Trials(c)
  BY <1>2, KnownIsTrial
<1>4. ReportsInv'
  BY <1>2, <1>3, WithdrawMarks, ReportsStand DEF PracticeInv
<1> QED BY <1>2, <1>4 DEF PracticeInv

LEMMA EvidenceKeeps ==
  ASSUME PracticeInv, NEW c \in Practice!Captures,
         \/ Practice!DeleteRecording(c) \/ Practice!Correct(c) \/ Practice!DeleteMatch(c)
  PROVE  PracticeInv'
<1>1. ASSUME NEW state \in {"removed", "deleted", "gone"},
             capture' = [capture EXCEPT ![c].state = state],
             Practice!Withdraw(Practice!Trials(c)),
             UNCHANGED <<drill, assignment, plan, linked, entry>>
      PROVE  PracticeInv'
  <2>1. PICK row : row = [capture[c] EXCEPT !.state = state]
    OBVIOUS
  <2>2. row = [state |-> state, run |-> capture[c].run, corrected |-> capture[c].corrected]
    BY <2>1, CaptureOf DEF Capture
  <2>3. row \in Capture /\ row.run = capture[c].run /\ row.state # "published"
    BY <2>2, CaptureOf DEF Capture
  <2> QED BY <1>1, <2>1, <2>3, WithdrawalKeeps
<1>2. CASE Practice!DeleteRecording(c)
  BY <1>1, <1>2 DEF Practice!DeleteRecording
<1>3. CASE Practice!DeleteMatch(c)
  BY <1>1, <1>3 DEF Practice!DeleteMatch
<1>4. CASE Practice!Correct(c)
  <2>1. PICK row : row = [capture[c] EXCEPT !.corrected = TRUE]
    OBVIOUS
  <2>2. row = [state |-> capture[c].state, run |-> capture[c].run, corrected |-> TRUE]
        /\ capture[c].state = "published"
    BY <1>4, <2>1, CaptureOf DEF Capture, Practice!Correct
  <2>3. row \in Capture /\ row.run = capture[c].run
    BY <2>2, CaptureOf DEF Capture
  <2> QED BY <1>4, <2>1, <2>2, <2>3, WithdrawalKeeps DEF Practice!Correct
<1> QED BY <1>2, <1>3, <1>4
-----------------------------------------------------------------------------
(* Assign, freeze, practise; the collection. *)

(* Steps that leave the evidence and the reports.                          *)
LEMMA LoopKeeps ==
  ASSUME PracticeInv, LoopRows', Practice!PracticeCountsOnce', RowsForward,
         UNCHANGED <<capture, reports>>
  PROVE  PracticeInv'
<1>1. CaptureRows' /\ \A t \in Played : Spoilt(t)' => Spoilt(t)
  BY DEF PracticeInv, CaptureRows, Spoilt
<1>2. ReportsInv'
  BY <1>1, SameReports, ReportsStand DEF PracticeInv
<1> QED BY <1>1, <1>2 DEF PracticeInv

LEMMA PlainStepsKeep ==
  ASSUME PracticeInv, NEW a \in Assignments,
         Practice!Retire \/ Practice!Assign(a) \/ Practice!Cancel(a)
  PROVE  PracticeInv'
<1> USE DEF Practice!evidence
<1>1. UNCHANGED <<capture, plan, linked, entry, reports>>
  BY DEF Practice!Retire, Practice!Assign, Practice!Cancel
<1>2. /\ drill' \in {"effective", "retired", "withdrawn"}
      /\ assignment' \in [Assignments ->
           {"none", "ASSIGNED", "PRACTICED", "CANCELLED", "WITHDRAWN"}]
  BY DEF Practice!Retire, Practice!Assign, Practice!Cancel, PracticeInv, LoopRows
<1>3. LoopRows'
  BY <1>1, <1>2 DEF PracticeInv, LoopRows, Known
<1>4. RowsForward /\ Practice!PracticeCountsOnce'
  <2>1. \A c \in Practice!Captures : capture[c].run \in Nat
    BY CaptureOf
  <2> QED BY <1>1, <2>1 DEF RowsForward, PracticeInv, Practice!PracticeCountsOnce
<1> QED BY <1>1, <1>3, <1>4, LoopKeeps

LEMMA UsableTrial ==
  ASSUME PracticeInv, NEW c \in Practice!Captures, capture[c].state = "published"
  PROVE  Known(Practice!Trial(c)) /\ Practice!Trial(c)[1] = c
<1>1. Practice!Trial(c) = <<c, capture[c].run>> /\ capture[c].run \in Nat /\ 1 <= capture[c].run
  BY CaptureOf DEF Practice!Trial
<1> QED BY <1>1 DEF Known, Played

LEMMA FreezeKeeps ==
  ASSUME PracticeInv, NEW a \in Assignments, Practice!Freeze(a)
  PROVE  PracticeInv'
<1> USE DEF Practice!evidence
<1>1. PICK S \in SUBSET Baseline, protocol \in BOOLEAN :
        /\ \A c \in S : Practice!Usable(c)
        /\ plan' = [plan EXCEPT ![a] = [frozen |-> TRUE, protocol |-> protocol,
                                        baseline |-> {Practice!Trial(c) : c \in S}]]
  BY DEF Practice!Freeze
<1>2. PICK p : p = [frozen |-> TRUE, protocol |-> protocol,
                    baseline |-> {Practice!Trial(c) : c \in S}]
  OBVIOUS
<1>3. \A t \in p.baseline : Known(t)
  <2>1. S \subseteq Practice!Captures
    BY DEF Practice!Captures
  <2> QED BY <1>1, <1>2, <2>1, UsableTrial DEF Practice!Usable
<1>4. p \in Plan
  BY <1>2, <1>3 DEF Plan, Known
<1>5. plan' = [plan EXCEPT ![a] = p] /\ plan' \in [Assignments -> Plan] /\ plan'[a] = p
  BY <1>1, <1>2, <1>4 DEF PracticeInv, LoopRows
<1>6. UNCHANGED <<capture, drill, assignment, linked, entry, reports>> /\ ~plan[a].frozen
  BY DEF Practice!Freeze
<1>7. ASSUME NEW b \in Assignments, NEW t \in (plan[b].baseline \cup linked[b])'
      PROVE  Known(t)'
  BY <1>3, <1>5, <1>6 DEF PracticeInv, LoopRows, Known
<1>8. LoopRows'
  BY <1>5, <1>6, <1>7 DEF PracticeInv, LoopRows
<1>9. RowsForward /\ Practice!PracticeCountsOnce'
  <2>1. \A c \in Practice!Captures : capture[c].run \in Nat
    BY CaptureOf
  <2> QED BY <1>5, <1>6, <2>1 DEF RowsForward, PracticeInv, LoopRows, Practice!PracticeCountsOnce
<1> QED BY <1>6, <1>8, <1>9, LoopKeeps

LEMMA RecordPracticeKeeps ==
  ASSUME PracticeInv, NEW a \in Assignments, Practice!RecordPractice(a)
  PROVE  PracticeInv'
<1> USE DEF Practice!evidence
<1>1. PICK c \in Practised :
        /\ Practice!Usable(c) /\ ~Practice!AlreadyCounted(a, c)
        /\ linked' = [linked EXCEPT ![a] = @ \cup {Practice!Trial(c)}]
  BY DEF Practice!RecordPractice
<1>2. PICK u : u = Practice!Trial(c) /\ Known(u) /\ u[1] = c
  <2>1. c \in Practice!Captures
    BY DEF Practice!Captures
  <2> QED BY <1>1, <2>1, UsableTrial DEF Practice!Usable
<1>3. /\ linked' = [linked EXCEPT ![a] = linked[a] \cup {u}]
      /\ linked' \in [Assignments -> SUBSET Played] /\ linked'[a] = linked[a] \cup {u}
  BY <1>1, <1>2 DEF PracticeInv, LoopRows, Known
<1>4. UNCHANGED <<capture, drill, plan, entry, reports>>
      /\ assignment' \in [Assignments ->
           {"none", "ASSIGNED", "PRACTICED", "CANCELLED", "WITHDRAWN"}]
  BY DEF Practice!RecordPractice, PracticeInv, LoopRows
<1>5. ASSUME NEW b \in Assignments, NEW t \in (plan[b].baseline \cup linked[b])'
      PROVE  Known(t)'
  BY <1>2, <1>3, <1>4 DEF PracticeInv, LoopRows, Known
<1>6. LoopRows'
  BY <1>3, <1>4, <1>5 DEF PracticeInv, LoopRows
<1>7. RowsForward
  <2>1. \A x \in Practice!Captures : capture[x].run \in Nat
    BY CaptureOf
  <2> QED BY <1>3, <1>4, <2>1 DEF RowsForward, PracticeInv, LoopRows
<1>8. Practice!PracticeCountsOnce'
  <2>1. \A b \in Assignments : \A t \in linked[b] : t[1] # c
    BY <1>1 DEF Practice!AlreadyCounted
  <2> QED BY <1>2, <1>3, <2>1 DEF PracticeInv, LoopRows, Practice!PracticeCountsOnce
<1> QED BY <1>4, <1>6, <1>7, <1>8, LoopKeeps

LEMMA RecordSessionKeeps ==
  ASSUME PracticeInv, NEW a \in Assignments, NEW f \in Practice!Phases, Practice!RecordSession(a, f)
  PROVE  PracticeInv'
<1> USE DEF Practice!evidence
<1>1. PICK state \in {"RECORDED", "MISSING", "SKIPPED"},
           matches \in SUBSET Practice!InWindow(f) :
        entry' = [entry EXCEPT ![a][f] = [state |-> state, matches |-> matches,
                                          revision |-> @.revision + 1]]
  BY DEF Practice!RecordSession
<1>2. PICK e : e = [state |-> state, matches |-> matches, revision |-> entry[a][f].revision + 1]
  OBVIOUS
<1>3. entry[a][f] \in Entry
  BY DEF PracticeInv, LoopRows
<1>4. Practice!InWindow(f) \subseteq Practice!Captures
  BY DEF Practice!InWindow, Practice!Window, Practice!Captures
<1>5. e \in Entry
  BY <1>2, <1>3, <1>4 DEF Entry
<1>6. entry' = [entry EXCEPT ![a][f] = e]
  BY <1>1, <1>2, <1>3 DEF PracticeInv, LoopRows
<1>7. entry' \in [Assignments -> [Practice!Phases -> Entry]]
  BY <1>5, <1>6 DEF PracticeInv, LoopRows
<1>8. UNCHANGED <<capture, drill, assignment, plan, linked, reports>>
  BY DEF Practice!RecordSession
<1>9. LoopRows'
  BY <1>7, <1>8 DEF PracticeInv, LoopRows, Known
<1>10. RowsForward /\ Practice!PracticeCountsOnce'
  <2>1. \A c \in Practice!Captures : capture[c].run \in Nat
    BY CaptureOf
  <2> QED BY <1>8, <2>1 DEF RowsForward, PracticeInv, Practice!PracticeCountsOnce
<1> QED BY <1>8, <1>9, <1>10, LoopKeeps
-----------------------------------------------------------------------------
(* The marks of a withdrawn drill or session. *)

LEMMA MarkAllMarks ==
  ASSUME NEW h \in Seq(Report)
  PROVE  /\ Practice!MarkAll(h) \in Seq(Report) /\ DOMAIN Practice!MarkAll(h) = DOMAIN h
         /\ \A i \in DOMAIN h : Practice!MarkAll(h)[i] = Marked(h[i], TRUE)
<1>1. PICK marks \in [DOMAIN h -> BOOLEAN] : marks = [i \in DOMAIN h |-> TRUE]
  OBVIOUS
<1>2. Practice!MarkAll(h) = [i \in DOMAIN h |-> Marked(h[i], marks[i])]
  BY <1>1 DEF Practice!MarkAll, Marked
<1> QED BY <1>1, <1>2, HistoryMarked

LEMMA SomeMarked ==
  ASSUME ReportsInv, \A t \in Played : Spoilt(t)' => Spoilt(t),
         reports' = [a \in Assignments |-> [f \in Practice!Phases |-> reports'[a][f]]],
         \A a \in Assignments, f \in Practice!Phases :
           reports'[a][f] \in {reports[a][f], Practice!MarkAll(reports[a][f])}
  PROVE  ReportsMarked
<1>1. ASSUME NEW a \in Assignments, NEW f \in Practice!Phases
      PROVE  /\ reports[a][f] \in Seq(Report) /\ reports'[a][f] \in Seq(Report)
             /\ DOMAIN reports'[a][f] = DOMAIN reports[a][f]
  <2>1. PICK h \in Seq(Report) : h = reports[a][f]
    BY DEF ReportsInv
  <2>2. Practice!MarkAll(h) \in Seq(Report) /\ DOMAIN Practice!MarkAll(h) = DOMAIN h
    BY MarkAllMarks
  <2>3. reports'[a][f] = h \/ reports'[a][f] = Practice!MarkAll(h)
    BY <2>1
  <2> QED BY <2>1, <2>2, <2>3
<1>2. ASSUME NEW a \in Assignments, NEW f \in Practice!Phases, NEW i \in DOMAIN reports[a][f]
      PROVE  \E mark \in BOOLEAN :
               /\ reports'[a][f][i] = Marked(reports[a][f][i], mark)
               /\ reports[a][f][i].invalidated => mark
               /\ mark \/ \A t \in Practice!Members(reports[a][f][i]) : Spoilt(t)' => Spoilt(t)
  <2>1. reports[a][f] \in Seq(Report)
    BY <1>1
  <2>2. PICK r \in Report : r = reports[a][f][i]
    BY <2>1
  <2>3. CASE reports'[a][f] = Practice!MarkAll(reports[a][f])
    <3>1. reports'[a][f][i] = Marked(reports[a][f][i], TRUE)
      BY <2>1, <2>3, MarkAllMarks
    <3> QED BY <3>1
  <2>4. CASE reports'[a][f] = reports[a][f]
    <3>1. Practice!Members(r) \subseteq Played
      BY DEF Report, Practice!Members
    <3> QED BY <2>2, <2>4, <3>1, MarkedIsSame
  <2> QED BY <2>3, <2>4
<1>3. reports' \in [Assignments -> [Practice!Phases -> Seq(Report)]]
  BY <1>1
<1> QED BY <1>1, <1>2, <1>3 DEF ReportsMarked

LEMMA MarkingKeeps ==
  ASSUME PracticeInv, UNCHANGED <<capture, plan, linked>>, LoopRows',
         reports' = [a \in Assignments |-> [f \in Practice!Phases |-> reports'[a][f]]],
         \A a \in Assignments, f \in Practice!Phases :
           reports'[a][f] \in {reports[a][f], Practice!MarkAll(reports[a][f])}
  PROVE  PracticeInv'
<1>1. /\ CaptureRows' /\ Practice!PracticeCountsOnce'
      /\ \A t \in Played : Spoilt(t)' => Spoilt(t)
  BY DEF PracticeInv, CaptureRows, Practice!PracticeCountsOnce, Spoilt
<1>2. RowsForward
  <2>1. \A c \in Practice!Captures : capture[c].run \in Nat
    BY CaptureOf
  <2> QED BY <2>1 DEF RowsForward
<1>3. ReportsMarked
  BY <1>1, SomeMarked DEF PracticeInv
<1> QED BY <1>1, <1>2, <1>3, ReportsStand DEF PracticeInv

LEMMA RevokeDrillKeeps ==
  ASSUME PracticeInv, Practice!RevokeDrill
  PROVE  PracticeInv'
<1>1. /\ reports' = [a \in Assignments |-> [f \in Practice!Phases |->
                         Practice!MarkAll(reports[a][f])]]
      /\ UNCHANGED <<capture, plan, linked, entry>> /\ drill' = "withdrawn"
      /\ assignment' = [a \in Assignments |-> IF assignment[a] = "none" THEN "none"
                                             ELSE "WITHDRAWN"]
  BY DEF Practice!RevokeDrill, Practice!WithdrawAll
<1>2. LoopRows'
  BY <1>1 DEF PracticeInv, LoopRows, Known
<1>3. \A a \in Assignments, f \in Practice!Phases :
        reports'[a][f] = Practice!MarkAll(reports[a][f])
  BY <1>1
<1>4. reports' = [a \in Assignments |-> [f \in Practice!Phases |-> reports'[a][f]]]
  BY <1>1, <1>3
<1> QED BY <1>1, <1>2, <1>3, <1>4, MarkingKeeps

LEMMA DeleteSessionKeeps ==
  ASSUME PracticeInv, NEW a \in Assignments, NEW f \in Practice!Phases, Practice!DeleteSession(a, f)
  PROVE  PracticeInv'
<1>1. UNCHANGED <<capture, drill, assignment, plan, linked>>
  BY DEF Practice!DeleteSession, Practice!evidence
<1>2. PICK e : e = [entry[a][f] EXCEPT !.state = "DELETED", !.matches = {}]
  OBVIOUS
<1>3. entry[a][f] \in Entry
  BY DEF PracticeInv, LoopRows
<1>4. e = [state |-> "DELETED", revision |-> entry[a][f].revision, matches |-> {}]
  BY <1>2, <1>3 DEF Entry
<1>5. e \in Entry
  BY <1>3, <1>4 DEF Entry
<1>6. entry' \in [Assignments -> [Practice!Phases -> Entry]]
  <2>1. entry' = [entry EXCEPT ![a][f] = e]
    BY <1>2, <1>3 DEF Practice!DeleteSession, PracticeInv, LoopRows
  <2> QED BY <1>5, <2>1 DEF PracticeInv, LoopRows
<1>7. LoopRows'
  BY <1>1, <1>6 DEF PracticeInv, LoopRows, Known
<1>8. reports' = [reports EXCEPT ![a][f] = Practice!MarkAll(reports[a][f])]
      /\ reports \in [Assignments -> [Practice!Phases -> Seq(Report)]]
  BY DEF Practice!DeleteSession, PracticeInv, ReportsInv
<1>9. /\ reports' = [b \in Assignments |-> [g \in Practice!Phases |-> reports'[b][g]]]
      /\ \A b \in Assignments, g \in Practice!Phases :
           reports'[b][g] \in {reports[b][g], Practice!MarkAll(reports[b][g])}
  BY <1>8
<1> QED BY <1>1, <1>7, <1>9, MarkingKeeps
-----------------------------------------------------------------------------
(* The reports that are written. *)

LEMMA LoopCardinality ==
  ASSUME NEW S PROVE Practice!Cardinality(S) = Cardinality(S)
  BY DEF Practice!Cardinality, Cardinality

LEMMA WindowIsFinite ==
  ASSUME NEW f \in Practice!Phases, NEW S, S \subseteq Practice!InWindow(f)
  PROVE  IsFiniteSet(S) /\ Practice!Cardinality(S) \in Nat
         /\ (Practice!Cardinality(S) = 0 => S = {})
<1>1. IsFiniteSet(Practice!Window(f)) /\ S \subseteq Practice!Window(f)
  BY PracticeAssumption DEF Practice!InWindow, Practice!Window
<1>2. IsFiniteSet(S)
  BY <1>1, FS_Subset
<1> QED BY <1>2, FS_CardinalityType, FS_EmptySet, LoopCardinality

LEMMA CurrentIn ==
  ASSUME NEW f \in Practice!Phases
  PROVE  /\ Practice!Current(Practice!Window(f)) \subseteq Practice!InWindow(f)
         /\ Practice!InWindow(f) \subseteq Practice!Captures
  BY DEF Practice!Current, Practice!InWindow, Practice!Window, Practice!Captures

LEMMA CollectionTyped ==
  ASSUME PracticeInv, NEW a \in Assignments, NEW f \in Practice!Phases
  PROVE  /\ Practice!Collection(a, f) \in Info
         /\ \A t \in Practice!Collection(a, f).trials : Known(t)
<1> DEFINE info == Practice!Collection(a, f)
           current == Practice!Current(Practice!Window(f))
           e == entry[a][f]
<1>1. info = [trials |-> {Practice!Trial(c) : c \in current},
              unpublished |-> Practice!Cardinality(Practice!InWindow(f) \ current),
              matches |-> Practice!Cardinality(Practice!InWindow(f)),
              entry |-> [state |-> e.state, revision |-> e.revision],
              unresolved |-> e.state = "RECORDED" /\ ~(e.matches \subseteq current)]
  BY DEF Practice!Collection
<1>2. \A c \in current : c \in Practice!Captures /\ capture[c].state = "published"
  BY CurrentIn DEF Practice!Current
<1>3. \A t \in info.trials : Known(t)
  BY <1>1, <1>2, UsableTrial
<1>4. /\ Practice!Cardinality(Practice!InWindow(f) \ current) \in Nat
      /\ Practice!Cardinality(Practice!InWindow(f)) \in Nat
  BY WindowIsFinite
<1>5. e \in Entry
  BY DEF PracticeInv, LoopRows
<1>6. info.trials \in SUBSET Played
  BY <1>3 DEF Known
<1> HIDE DEF info, current, e
<1>7. [state |-> e.state, revision |-> e.revision] \in
        [state : {"none", "RECORDED", "MISSING", "SKIPPED", "DELETED"}, revision : Nat]
  BY <1>5 DEF Entry
<1>8. info \in Info
  BY <1>1, <1>4, <1>6, <1>7 DEF Info
<1> QED BY <1>3, <1>8 DEF info

LEMMA LastReport ==
  ASSUME PracticeInv, NEW a \in Assignments, reports[a]["FOLLOWUP"] # <<>>
  PROVE  LET r == Practice!Last(reports[a]["FOLLOWUP"])
         IN  r \in Report /\ ReportSound(a, "FOLLOWUP", r)
<1>1. "FOLLOWUP" \in Practice!Phases
  BY DEF Practice!Phases
<1>2. reports[a]["FOLLOWUP"] \in Seq(Report)
  BY <1>1 DEF PracticeInv, ReportsInv
<1>3. Len(reports[a]["FOLLOWUP"]) \in DOMAIN reports[a]["FOLLOWUP"]
  BY <1>2
<1> QED BY <1>1, <1>2, <1>3 DEF PracticeInv, ReportsInv, Practice!Last

LEMMA UsableIsUnspoilt ==
  ASSUME NEW t, Practice!Usable(t[1]) PROVE ~Spoilt(t)
  BY DEF Practice!Usable, Spoilt

LEMMA ContentTyped ==
  ASSUME NEW r \in Report, r.initial = <<>>
  PROVE  Practice!Content(r) \in Initial /\ Practice!Content(r).followup = r.followup
<1> PICK mark \in BOOLEAN : mark = FALSE
  OBVIOUS
<1>1. Practice!Content(r) = Marked(r, mark)
  BY DEF Practice!Content, Marked
<1>2. PICK m \in Report : m = Marked(r, mark) /\ m.initial = <<>> /\ m.followup = r.followup
  BY MarkedFields
<1>3. m = [phase |-> m.phase, baseline |-> m.baseline, followup |-> m.followup,
           practice |-> m.practice, collection |-> m.collection, referenced |-> m.referenced,
           initial |-> <<>>, reference |-> m.reference, measured |-> m.measured,
           invalidated |-> m.invalidated]
  <2>1. m = [phase |-> m.phase, baseline |-> m.baseline, followup |-> m.followup,
             practice |-> m.practice, collection |-> m.collection,
             referenced |-> m.referenced, initial |-> m.initial, reference |-> m.reference,
             measured |-> m.measured, invalidated |-> m.invalidated]
    BY DEF Report
  <2> QED BY <1>2, <2>1
<1>4. /\ m.phase \in Practice!Phases /\ m.baseline \in SUBSET Played
      /\ m.followup \in SUBSET Played /\ m.practice \in SUBSET Played
      /\ m.collection \in Info /\ m.referenced \in BOOLEAN
      /\ m.reference \in SUBSET Played /\ m.measured \in BOOLEAN /\ m.invalidated \in BOOLEAN
  BY DEF Report
<1>5. m \in Initial
  BY <1>3, <1>4 DEF Initial
<1> QED BY <1>1, <1>2, <1>5

LEMMA ReportTyped ==
  ASSUME NEW r,
         r = [phase |-> r.phase, baseline |-> r.baseline, followup |-> r.followup,
              practice |-> r.practice, collection |-> r.collection,
              referenced |-> r.referenced, initial |-> r.initial, reference |-> r.reference,
              measured |-> r.measured, invalidated |-> r.invalidated],
         r.phase \in Practice!Phases, r.baseline \in SUBSET Played,
         r.followup \in SUBSET Played, r.practice \in SUBSET Played, r.collection \in Info,
         r.referenced \in BOOLEAN, r.initial \in Seq(Initial),
         r.reference \in SUBSET Played, r.measured \in BOOLEAN, r.invalidated \in BOOLEAN
  PROVE  r \in Report
  BY DEF Report

LEMMA ResultFields ==
  ASSUME NEW a, NEW f
  PROVE  LET r == Practice!Result(a, f)
             info == Practice!Collection(a, f)
             initial == Practice!Last(reports[a]["FOLLOWUP"])
             measured == /\ Practice!BaselineHolds(a)
                         /\ \A t \in info.trials : Practice!Usable(t[1])
                         /\ info.trials # {}
                         /\ linked[a] # {} /\ Practice!Counted(a) = linked[a]
                         /\ plan[a].protocol => Practice!Complete(info)
         IN  r = [phase |-> f, baseline |-> plan[a].baseline, followup |-> info.trials,
                  practice |-> Practice!Counted(a), collection |-> r.collection,
                  referenced |-> Practice!RefersTo(a, f), initial |-> r.initial,
                  reference |-> r.reference, measured |-> measured, invalidated |-> FALSE]
             /\ r.collection = (IF plan[a].protocol THEN info ELSE Practice!NoCollection)
             /\ r.initial = (IF Practice!RefersTo(a, f) THEN <<Practice!Content(initial)>>
                             ELSE <<>>)
             /\ r.reference = (IF Practice!RefersTo(a, f) THEN initial.followup ELSE {})
  BY DEF Practice!Result

LEMMA ResultSound ==
  ASSUME PracticeInv, NEW a \in Assignments, NEW f \in Practice!Phases, plan[a].frozen
  PROVE  /\ Practice!Result(a, f) \in Report
         /\ ReportSound(a, f, Practice!Result(a, f))
<1>1. PICK r : r = Practice!Result(a, f)
  OBVIOUS
<1>2. PICK info \in Info : info = Practice!Collection(a, f) /\ \A t \in info.trials : Known(t)
  BY CollectionTyped
<1>3. PICK initial : initial = Practice!Last(reports[a]["FOLLOWUP"])
  OBVIOUS
<1>4. PICK valid \in BOOLEAN : valid = Practice!RefersTo(a, f)
  BY DEF Practice!RefersTo
<1>5. PICK measured \in BOOLEAN :
        measured = (/\ Practice!BaselineHolds(a)
                    /\ \A t \in info.trials : Practice!Usable(t[1])
                    /\ info.trials # {}
                    /\ linked[a] # {} /\ Practice!Counted(a) = linked[a]
                    /\ plan[a].protocol => Practice!Complete(info))
  OBVIOUS
<1>6. /\ r = [phase |-> f, baseline |-> plan[a].baseline, followup |-> info.trials,
              practice |-> Practice!Counted(a), collection |-> r.collection,
              referenced |-> valid, initial |-> r.initial,
              reference |-> r.reference, measured |-> measured, invalidated |-> FALSE]
      /\ r.collection = (IF plan[a].protocol THEN info ELSE Practice!NoCollection)
      /\ r.initial = (IF valid THEN <<Practice!Content(initial)>> ELSE <<>>)
      /\ r.reference = (IF valid THEN initial.followup ELSE {})
  BY <1>1, <1>2, <1>3, <1>4, <1>5, ResultFields
<1>7. /\ r.phase = f /\ r.baseline = plan[a].baseline /\ r.followup = info.trials
      /\ r.practice = Practice!Counted(a) /\ r.referenced = valid
      /\ r.measured = measured /\ r.invalidated = FALSE
  BY <1>6
<1>8. ASSUME valid
      PROVE  /\ f = "RETENTION" /\ reports[a]["FOLLOWUP"] # <<>>
             /\ initial \in Report /\ initial.initial = <<>>
             /\ \A t \in initial.followup : Known(t) /\ ~Spoilt(t)
  <2>1. /\ f = "RETENTION" /\ reports[a]["FOLLOWUP"] # <<>>
        /\ Practice!Available(a, initial)
    BY <1>3, <1>4, <1>8 DEF Practice!RefersTo
  <2>2. initial \in Report /\ ReportSound(a, "FOLLOWUP", initial)
    BY <1>3, <2>1, LastReport
  <2>3. \A t \in Practice!Members(initial) : Known(t) /\ ~Spoilt(t)
    BY <2>1, <2>2, UsableIsUnspoilt DEF ReportSound, Practice!Available, Practice!Fresh
  <2> QED BY <2>1, <2>2, <2>3 DEF ReportSound, Practice!Members
<1>9. /\ r.initial \in Seq(Initial) /\ r.reference \subseteq Played
      /\ \A t \in r.reference : Known(t) /\ ~Spoilt(t)
      /\ f = "FOLLOWUP" => r.initial = <<>> /\ ~r.referenced
      /\ r.referenced => /\ reports[a]["FOLLOWUP"] # <<>>
                         /\ r.reference = r.initial[1].followup
  <2>1. CASE valid
    <3>1. /\ r.initial = <<Practice!Content(initial)>> /\ r.reference = initial.followup
          /\ r.reference \subseteq Played
      BY <1>6, <1>8, <2>1 DEF Known
    <3>2. Practice!Content(initial) \in Initial /\ Practice!Content(initial).followup = r.reference
      BY <1>8, <2>1, <3>1, ContentTyped
    <3> QED BY <1>8, <2>1, <3>1, <3>2
  <2>2. CASE ~valid
    <3>1. r.initial = <<>> /\ r.reference = {} /\ ~r.referenced
      BY <1>6, <1>7, <2>2
    <3> QED BY <3>1
  <2> QED BY <2>1, <2>2
<1>10. /\ r.practice \subseteq linked[a] /\ linked[a] \subseteq Played
       /\ plan[a].baseline \subseteq Played
       /\ \A t \in linked[a] \cup plan[a].baseline : Known(t)
  BY <1>7 DEF PracticeInv, LoopRows, Plan, Practice!Counted
<1>11. \A t \in Practice!Members(r) : Known(t)
  BY <1>2, <1>7, <1>9, <1>10 DEF Practice!Members
<1>12. r \in Report
  <2>1. r.collection \in Info
    <3>1. Practice!NoCollection \in Info
      BY DEF Practice!NoCollection, Info
    <3> QED BY <1>2, <1>6, <3>1
  <2>2. info.trials \in SUBSET Played /\ Practice!Counted(a) \in SUBSET Played
    BY <1>2, <1>7, <1>10 DEF Info
  <2>3. r = [phase |-> r.phase, baseline |-> r.baseline, followup |-> r.followup,
             practice |-> r.practice, collection |-> r.collection,
             referenced |-> r.referenced, initial |-> r.initial, reference |-> r.reference,
             measured |-> r.measured, invalidated |-> r.invalidated]
    BY <1>6
  <2>4. /\ plan[a].baseline \in SUBSET Played /\ r.reference \in SUBSET Played
        /\ r.initial \in Seq(Initial)
    BY <1>9, <1>10
  <2> QED BY <1>7, <2>1, <2>2, <2>3, <2>4, ReportTyped
<1>13. ASSUME r.measured
       PROVE  /\ r.practice # {}
              /\ plan[a].protocol => Practice!Complete(r.collection)
              /\ \A t \in Practice!Members(r) : ~Spoilt(t)
  <2>1. /\ Practice!BaselineHolds(a) /\ \A t \in info.trials : Practice!Usable(t[1])
        /\ r.practice # {} /\ (plan[a].protocol => Practice!Complete(r.collection))
    BY <1>5, <1>6, <1>7, <1>13
  <2>2. \A t \in r.practice : Practice!Usable(t[1])
    BY <1>7 DEF Practice!Counted
  <2> QED BY <1>7, <1>9, <2>1, <2>2, UsableIsUnspoilt DEF Practice!Members, Practice!BaselineHolds
<1> QED BY <1>1, <1>7, <1>9, <1>10, <1>11, <1>12, <1>13 DEF ReportSound

LEMMA EvaluateKeeps ==
  ASSUME PracticeInv, NEW a \in Assignments, NEW f \in Practice!Phases, Practice!Evaluate(a, f)
  PROVE  PracticeInv'
<1>1. UNCHANGED <<capture, drill, assignment, plan, linked, entry>> /\ plan[a].frozen
  BY DEF Practice!Evaluate, Practice!evidence
<1>2. PICK r : r = Practice!Result(a, f) /\ r \in Report /\ ReportSound(a, f, r)
  BY <1>1, ResultSound
<1>3. /\ reports' = [reports EXCEPT ![a][f] = Append(reports[a][f], r)]
      /\ reports \in [Assignments -> [Practice!Phases -> Seq(Report)]]
  BY <1>2 DEF Practice!Evaluate, PracticeInv, ReportsInv
<1>4. PICK h \in Seq(Report) : h = reports[a][f]
  BY <1>3
<1>5. /\ Append(h, r) \in Seq(Report) /\ Append(h, r) # <<>>
      /\ \A i \in DOMAIN Append(h, r) : \/ i \in DOMAIN h /\ Append(h, r)[i] = h[i]
                                       \/ Append(h, r)[i] = r
  BY <1>2, AppendProperties
<1>6. /\ reports' \in [Assignments -> [Practice!Phases -> Seq(Report)]]
      /\ reports'[a][f] = Append(h, r)
      /\ \A b \in Assignments, g \in Practice!Phases :
           b # a \/ g # f => reports'[b][g] = reports[b][g]
  BY <1>3, <1>4, <1>5
<1>7. CaptureRows' /\ LoopRows' /\ Practice!PracticeCountsOnce'
  BY <1>1 DEF PracticeInv, CaptureRows, LoopRows, Known, Practice!PracticeCountsOnce
<1>8. \A b \in Assignments : reports[b]["FOLLOWUP"] # <<>> => reports'[b]["FOLLOWUP"] # <<>>
  <2>1. "FOLLOWUP" \in Practice!Phases
    BY DEF Practice!Phases
  <2> QED BY <1>5, <1>6, <2>1
<1>9. ASSUME NEW b \in Assignments, NEW g \in Practice!Phases, NEW x, ReportSound(b, g, x)
      PROVE  ReportSound(b, g, x)'
  BY <1>1, <1>8, <1>9 DEF ReportSound, Known, Spoilt, Practice!Complete
<1>10. ASSUME NEW b \in Assignments, NEW g \in Practice!Phases, NEW i \in DOMAIN reports'[b][g]
       PROVE  ReportSound(b, g, reports[b][g][i])'
  <2>1. CASE b = a /\ g = f
    <3>1. PICK x : x = reports'[b][g][i] /\ ReportSound(b, g, x)
      <4>1. i \in DOMAIN Append(h, r) /\ reports'[b][g][i] = Append(h, r)[i]
        BY <1>6, <2>1
      <4>2. CASE Append(h, r)[i] = r
        BY <1>2, <2>1, <4>1, <4>2
      <4>3. CASE i \in DOMAIN h /\ Append(h, r)[i] = h[i]
        <5>1. ReportSound(a, f, reports[a][f][i])
          BY <1>4, <4>3 DEF PracticeInv, ReportsInv
        <5> QED BY <1>4, <2>1, <4>1, <4>3, <5>1
      <4> QED BY <1>5, <4>1, <4>2, <4>3
    <3>2. ReportSound(b, g, x)'
      BY <1>9, <3>1
    <3> QED BY <3>1, <3>2
  <2>2. CASE b # a \/ g # f
    <3>1. PICK x : x = reports'[b][g][i] /\ ReportSound(b, g, x)
      BY <1>6, <2>2 DEF PracticeInv, ReportsInv
    <3>2. ReportSound(b, g, x)'
      BY <1>9, <3>1
    <3> QED BY <3>1, <3>2
  <2> QED BY <2>1, <2>2
<1>11. ReportsInv'
  BY <1>6, <1>10 DEF ReportsInv
<1> QED BY <1>7, <1>11 DEF PracticeInv

LEMMA PracticeStep == PracticeInv /\ [Practice!Next]_(Practice!vars) => PracticeInv'
<1> SUFFICES ASSUME PracticeInv, [Practice!Next]_(Practice!vars) PROVE PracticeInv'
  OBVIOUS
<1>1. CASE UNCHANGED Practice!vars
  <2>1. UNCHANGED <<capture, drill, assignment, plan, linked, entry, reports>>
    BY <1>1 DEF Practice!vars
  <2>2. CaptureRows' /\ LoopRows' /\ Practice!PracticeCountsOnce'
    BY <2>1 DEF PracticeInv, CaptureRows, LoopRows, Known, Practice!PracticeCountsOnce
  <2>3. RowsForward
    <3>1. \A c \in Practice!Captures : capture[c].run \in Nat
      BY CaptureOf
    <3> QED BY <2>1, <3>1 DEF RowsForward
  <2> QED BY <2>1, <2>2, <2>3, LoopKeeps
<1>2. CASE \E c \in Practice!Captures :
             \/ Practice!Upload(c) \/ Practice!Publish(c) \/ Practice!DeleteRecording(c)
             \/ Practice!Correct(c) \/ Practice!DeleteMatch(c)
  BY <1>2, UploadKeeps, PublishCaptureKeeps, EvidenceKeeps
<1>3. CASE Practice!Retire \/ Practice!RevokeDrill
  <2>1. CASE Practice!Retire
    <3>1. LoopRows' /\ Practice!PracticeCountsOnce' /\ UNCHANGED <<capture, plan, linked, reports>>
      BY <2>1 DEF Practice!Retire, PracticeInv, LoopRows, Known, Practice!PracticeCountsOnce
    <3>2. RowsForward
      <4>1. \A c \in Practice!Captures : capture[c].run \in Nat
        BY CaptureOf
      <4> QED BY <3>1, <4>1 DEF RowsForward
    <3> QED BY <3>1, <3>2, LoopKeeps
  <2> QED BY <1>3, <2>1, RevokeDrillKeeps
<1>4. CASE \E a \in Assignments : \/ Practice!Assign(a) \/ Practice!Cancel(a)
                                 \/ Practice!Freeze(a) \/ Practice!RecordPractice(a)
  BY <1>4, PlainStepsKeep, FreezeKeeps, RecordPracticeKeeps
<1>5. CASE \E a \in Planned, f \in Practice!Phases :
             \/ Practice!Evaluate(a, f) \/ Practice!RecordSession(a, f)
             \/ Practice!DeleteSession(a, f)
  BY <1>5, PracticeAssumption, EvaluateKeeps, RecordSessionKeeps, DeleteSessionKeeps
<1> QED BY <1>1, <1>2, <1>3, <1>4, <1>5 DEF Practice!Next

(* The invariant of a practice loop: the trials are of analyses that took  *)
(* place, and each report says what it was measured on and whether that    *)
(* was taken back (loops.py, practice.py, comparisons.py).                 *)
THEOREM PracticeInvHolds == Practice!Spec => []PracticeInv
  BY PracticeInit, PracticeStep, PTL DEF Practice!Spec
-----------------------------------------------------------------------------
(* What is shown is what would be measured now: a report that stands was   *)
(* measured on what its plan, its windows and its practice still are.      *)

LEMMA FreshIsStillMeasured ==
  ASSUME PracticeInv, NEW a \in Assignments, NEW f \in Practice!Phases, NEW r,
         ReportSound(a, f, r), r.measured, Practice!Fresh(a, r)
  PROVE  Practice!StillMeasured(a, r)
<1>1. /\ r.phase = f /\ r.baseline = plan[a].baseline
      /\ r.practice # {} /\ r.practice \subseteq linked[a]
  BY DEF ReportSound
<1>2. \A t \in Practice!Members(r) : Practice!Usable(t[1]) /\ t = Practice!Trial(t[1])
  BY DEF Practice!Fresh
<1>3. Practice!BaselineHolds(a)
  BY <1>1, <1>2 DEF Practice!Members, Practice!BaselineHolds
<1>4. r.practice \subseteq Practice!Counted(a)
  BY <1>1, <1>2 DEF Practice!Members, Practice!Counted
<1>5. ASSUME plan[a].protocol
      PROVE  /\ Practice!Complete(Practice!Collection(a, f))
             /\ r.followup = {Practice!Trial(c) : c \in Practice!InWindow(f)}
  <2> DEFINE current == Practice!Current(Practice!Window(f))
  <2>1. /\ r.followup = Practice!Collection(a, f).trials
        /\ r.collection = Practice!Collection(a, f) /\ Practice!Complete(r.collection)
    BY <1>1, <1>5 DEF Practice!Fresh, ReportSound
  <2>2. /\ Practice!Collection(a, f).trials = {Practice!Trial(c) : c \in current}
        /\ Practice!Cardinality(Practice!InWindow(f) \ current) = 0
    BY <2>1 DEF Practice!Collection, Practice!Complete
  <2>3. Practice!InWindow(f) \ current = {}
    BY <2>2, WindowIsFinite
  <2>4. Practice!InWindow(f) = current
    BY <2>3, CurrentIn
  <2> QED BY <2>1, <2>2, <2>4
<1> QED BY <1>1, <1>3, <1>4, <1>5 DEF Practice!StillMeasured

LEMMA AvailableIsStillMeasured ==
  ASSUME PracticeInv, NEW a \in Assignments, NEW f \in Practice!Phases, NEW r \in Report,
         ReportSound(a, f, r), r.measured, Practice!Available(a, r)
  PROVE  LET initial == Practice!Last(reports[a]["FOLLOWUP"])
         IN  /\ Practice!StillMeasured(a, r)
             /\ r.referenced => /\ r.reference = initial.followup
                                /\ initial.measured => Practice!StillMeasured(a, initial)
<1>1. Practice!StillMeasured(a, r)
  BY FreshIsStillMeasured DEF Practice!Available
<1>2. ASSUME r.referenced
      PROVE  /\ r.reference = Practice!Last(reports[a]["FOLLOWUP"]).followup
             /\ Practice!Last(reports[a]["FOLLOWUP"]).measured =>
                  Practice!StillMeasured(a, Practice!Last(reports[a]["FOLLOWUP"]))
  <2>1. PICK initial : initial = Practice!Last(reports[a]["FOLLOWUP"])
    OBVIOUS
  <2>2. reports[a]["FOLLOWUP"] # <<>> /\ r.reference = r.initial[1].followup
    BY <1>2 DEF ReportSound
  <2>3. f = "RETENTION" /\ r.phase = "RETENTION" /\ "FOLLOWUP" \in Practice!Phases
    BY <1>2 DEF ReportSound, Practice!Phases
  <2>4. initial \in Report /\ ReportSound(a, "FOLLOWUP", initial)
    BY <2>1, <2>2, LastReport
  <2>5. Practice!Content(initial) = r.initial[1] /\ Practice!Fresh(a, initial)
    BY <1>2, <2>1, <2>3 DEF Practice!Available
  <2>6. Practice!Content(initial).followup = initial.followup
    BY <2>4, ContentTyped DEF ReportSound
  <2>7. initial.measured => Practice!StillMeasured(a, initial)
    BY <2>3, <2>4, <2>5, FreshIsStillMeasured
  <2> QED BY <2>1, <2>2, <2>5, <2>6, <2>7
<1> QED BY <1>1, <1>2

LEMMA ReportOf ==
  ASSUME PracticeInv, NEW a \in Assignments, NEW r \in Practice!AllReports(a)
  PROVE  r \in Report /\ \E f \in Practice!Phases : ReportSound(a, f, r)
<1>1. PICK f \in Practice!Phases : \E i \in DOMAIN reports[a][f] : r = reports[a][f][i]
  BY DEF Practice!AllReports
<1>2. PICK i \in DOMAIN reports[a][f] : r = reports[a][f][i]
  BY <1>1
<1>3. reports[a][f] \in Seq(Report)
  BY DEF PracticeInv, ReportsInv
<1> QED BY <1>2, <1>3 DEF PracticeInv, ReportsInv

(* What was played once is practice once, whichever assignment it is       *)
(* linked to and however often its recording is analysed again             *)
(* (record_practice in loops.py).                                          *)
THEOREM PracticeSoundHolds == Practice!Spec => []Practice!PracticeSound /\ []PracticeSound
<1>1. PracticeInv => Practice!PracticeSound
  <2> SUFFICES ASSUME PracticeInv PROVE Practice!PracticeSound
    OBVIOUS
  <2>1. \A c \in Practice!Captures :
          /\ capture[c].state \in {"none", "recorded", "published", "removed", "deleted", "gone"}
          /\ capture[c].run \in 0..Practice!RunBound(c)
    BY CaptureOf DEF Capture, Practice!RunBound
  <2>2. Practice!TypeOK
    BY <2>1 DEF Practice!TypeOK, PracticeInv, LoopRows
  <2> QED BY <2>2 DEF PracticeInv, Practice!PracticeSound
<1>2. PracticeInv => PracticeSound
  BY <1>1 DEF PracticeSound
<1> QED BY PracticeInvHolds, <1>1, <1>2, PTL

(* A measured comparison that rests on evidence which has been deleted or  *)
(* corrected since is marked, and one that is shown as available is the    *)
(* one that would be measured now (invalidate_for_events in loops.py,      *)
(* availability in comparisons.py).                                        *)
THEOREM ReportsSoundHolds == Practice!Spec => []Practice!ReportsSound /\ []ReportsSound
<1>1. PracticeInv => Practice!WithdrawnIsMarked
  BY ReportOf DEF Practice!WithdrawnIsMarked, ReportSound, Spoilt
<1>2. PracticeInv => Practice!AvailableIsCurrent
  <2> SUFFICES ASSUME PracticeInv, NEW a \in Assignments, NEW r \in Practice!AllReports(a),
                      r.measured, Practice!Available(a, r)
               PROVE  LET initial == Practice!Last(reports[a]["FOLLOWUP"])
                      IN  /\ Practice!StillMeasured(a, r)
                          /\ r.referenced =>
                               /\ r.reference = initial.followup
                               /\ initial.measured => Practice!StillMeasured(a, initial)
    BY DEF Practice!AvailableIsCurrent
  <2>1. PICK f \in Practice!Phases : ReportSound(a, f, r)
    BY ReportOf
  <2> QED BY <2>1, ReportOf, AvailableIsStillMeasured
<1>3. PracticeInv => Practice!ReportsSound /\ ReportsSound
  BY <1>1, <1>2 DEF Practice!ReportsSound, ReportsSound
<1> QED BY PracticeInvHolds, <1>3, PTL

(***************************************************************************)
(* The admission of uploads and the daily budget, for any finite set of    *)
(* uploads, any owners and quotas.  First the sums the quotas are stated   *)
(* in: MapThenFoldSet is a choice among recursive functions, of which each *)
(* finite set is shown to have one.  Then the rows and what each run has   *)
(* spent of its reservation, the storage, the pending runs and the day.    *)
(***************************************************************************)
(* Among sets of subsets of a finite set one contains no other.            *)
LEMMA SmallestExists ==
  ASSUME NEW S, IsFiniteSet(S), NEW B, B \subseteq SUBSET S, B # {}
  PROVE  \E T \in B : \A U \in B : U \subseteq T => U = T
<1>1. B \subseteq FiniteSubsetsOf(S)
  BY FS_Subset DEF FiniteSubsetsOf
<1>2. PICK T \in B : \A U \in B : ~(<<U, T>> \in StrictSubsetOrdering(S))
  BY <1>1, FS_StrictSubsetOrderingWellFounded, WFMin
<1>3. \A U \in B : U \subseteq T /\ U # T => <<U, T>> \in StrictSubsetOrdering(S)
  BY DEF StrictSubsetOrdering
<1>4. \A U \in B : U \subseteq T => U = T
  BY <1>2, <1>3
<1> QED BY <1>4

(* The sums of f over the subsets of S.                                    *)
Pick(T) == CHOOSE q \in T : TRUE
IsSums(g, f, S) ==
  g = [T \in SUBSET S |-> IF T = {} THEN 0 ELSE f[Pick(T)] + g[T \ {Pick(T)}]]

LEMMA TotalIs ==
  ASSUME NEW f, NEW S PROVE Places!Total(f, S) = (CHOOSE g : IsSums(g, f, S))[S]
BY DEF Places!Total, Places!MapThenFoldSet, IsSums, Pick
(* Two tables of sums agree where both are defined.                        *)
LEMMA SumsAgree ==
  ASSUME NEW f, NEW S, IsFiniteSet(S), NEW g, IsSums(g, f, S), NEW R \in SUBSET S, NEW h, IsSums(h, f, R)
  PROVE  \A T \in SUBSET R : g[T] = h[T]
<1> DEFINE Bad == {T \in SUBSET R : g[T] # h[T]}
<1>1. SUFFICES ASSUME Bad # {} PROVE FALSE
  OBVIOUS
<1>2. PICK T \in Bad : \A U \in Bad : U \subseteq T => U = T
  <2>1. Bad \subseteq SUBSET S
    OBVIOUS
  <2> HIDE DEF Bad
  <2> QED BY <1>1, <2>1, SmallestExists
<1>3. T \in SUBSET R /\ T \in SUBSET S /\ g[T] # h[T]
  BY <1>2
<1>4. g[T] = IF T = {} THEN 0 ELSE f[Pick(T)] + g[T \ {Pick(T)}]
  BY <1>3 DEF IsSums
<1>5. h[T] = IF T = {} THEN 0 ELSE f[Pick(T)] + h[T \ {Pick(T)}]
  BY <1>3 DEF IsSums
<1>6. CASE T = {}
  BY <1>3, <1>4, <1>5, <1>6
<1>7. CASE T # {}
  <2> DEFINE U == T \ {Pick(T)}
  <2>1. Pick(T) \in T
    BY <1>7 DEF Pick
  <2>2. U \in SUBSET R /\ U \subseteq T /\ U # T
    BY <1>3, <2>1
  <2>3. g[U] = h[U]
    BY <1>2, <2>2
  <2> QED BY <1>3, <1>4, <1>5, <1>7, <2>3
<1> QED BY <1>6, <1>7

(* A finite set has its table: a smallest subset without one would have    *)
(* the sums of its parts, each from a table of its own.                    *)
LEMMA SumsExist ==
  ASSUME NEW f, NEW S, IsFiniteSet(S) PROVE \E g : IsSums(g, f, S)
<1> DEFINE Bad == {T \in SUBSET S : ~\E g : IsSums(g, f, T)}
<1>1. SUFFICES ASSUME Bad # {} PROVE FALSE
  BY DEF Bad
<1>2. PICK T \in Bad : \A U \in Bad : U \subseteq T => U = T
  <2>1. Bad \subseteq SUBSET S
    OBVIOUS
  <2> HIDE DEF Bad
  <2> QED BY <1>1, <2>1, SmallestExists
<1>3. T \in SUBSET S /\ (\A g : ~IsSums(g, f, T)) /\ IsFiniteSet(T)
  BY <1>2, FS_Subset
<1> DEFINE Value(U) == (CHOOSE g : IsSums(g, f, U))[U]
           h == [U \in SUBSET T |->
                   IF U = {} THEN 0 ELSE f[Pick(U)] + Value(U \ {Pick(U)})]
<1>4. ASSUME NEW U \in SUBSET T, U # T PROVE h[U] = Value(U)
  <2>1. \E g : IsSums(g, f, U)
    BY <1>2, <1>3, <1>4
  <2>2. PICK g : g = CHOOSE k : IsSums(k, f, U)
    OBVIOUS
  <2>3. IsSums(g, f, U) /\ Value(U) = g[U]
    BY <2>1, <2>2
  <2>4. Value(U) = IF U = {} THEN 0 ELSE f[Pick(U)] + g[U \ {Pick(U)}]
    <3>1. g[U] = IF U = {} THEN 0 ELSE f[Pick(U)] + g[U \ {Pick(U)}]
      BY <2>3 DEF IsSums
    <3> QED BY <2>3, <3>1
  <2>5. ASSUME U # {} PROVE g[U \ {Pick(U)}] = Value(U \ {Pick(U)})
    <3> DEFINE V == U \ {Pick(U)}
    <3>1. V \in SUBSET U /\ V \in SUBSET T /\ V # T
      BY <1>4, <2>5 DEF Pick
    <3>2. \E k : IsSums(k, f, V)
      <4>1. V \subseteq T /\ V # T /\ V \in SUBSET S
        BY <1>3, <3>1
      <4> HIDE DEF V
      <4> QED BY <1>2, <4>1
    <3>3. PICK k : k = CHOOSE e : IsSums(e, f, V)
      OBVIOUS
    <3>4. IsSums(k, f, V) /\ Value(V) = k[V]
      BY <3>2, <3>3
    <3>5. IsFiniteSet(U)
      BY <1>3, FS_Subset
    <3>6. g[V] = k[V]
      <4>1. V \in SUBSET V
        OBVIOUS
      <4> HIDE DEF V
      <4> QED BY <2>3, <3>1, <3>4, <3>5, <4>1, SumsAgree
    <3> QED BY <3>4, <3>6
  <2>6. h[U] = IF U = {} THEN 0 ELSE f[Pick(U)] + Value(U \ {Pick(U)})
    OBVIOUS
  <2> HIDE DEF h, Value
  <2> QED BY <2>4, <2>5, <2>6
<1>5. \A U \in SUBSET T : U # {} => h[U \ {Pick(U)}] = Value(U \ {Pick(U)})
  <2> SUFFICES ASSUME NEW U \in SUBSET T, U # {} PROVE h[U \ {Pick(U)}] = Value(U \ {Pick(U)})
    OBVIOUS
  <2>1. U \ {Pick(U)} \in SUBSET T /\ U \ {Pick(U)} # T
    BY DEF Pick
  <2> HIDE DEF h, Value
  <2> QED BY <1>4, <2>1
<1>6. PICK k : k = h
  OBVIOUS
<1>7. k = [U \in SUBSET T |-> IF U = {} THEN 0 ELSE f[Pick(U)] + Value(U \ {Pick(U)})]
  BY <1>6
<1>8. \A U \in SUBSET T : U # {} => k[U \ {Pick(U)}] = Value(U \ {Pick(U)})
  BY <1>5, <1>6
<1> HIDE DEF h, Value
<1>9. k = [U \in SUBSET T |-> IF U = {} THEN 0 ELSE f[Pick(U)] + k[U \ {Pick(U)}]]
  BY <1>7, <1>8
<1>10. IsSums(k, f, T)
  BY <1>9 DEF IsSums
<1> QED BY <1>3, <1>10

LEMMA TotalIsSum ==
  ASSUME NEW f, NEW S, IsFiniteSet(S), NEW g, IsSums(g, f, S), NEW T \in SUBSET S
  PROVE  Places!Total(f, T) = g[T]
<1>1. IsFiniteSet(T)
  BY FS_Subset
<1>2. PICK h : h = CHOOSE k : IsSums(k, f, T)
  OBVIOUS
<1>3. IsSums(h, f, T)
  BY <1>1, <1>2, SumsExist
<1>4. g[T] = h[T]
  BY <1>3, SumsAgree
<1> QED BY <1>2, <1>4, TotalIs

(* A sum, at the element that is picked.                                   *)
LEMMA TotalUnfolds ==
  ASSUME NEW f, NEW S, IsFiniteSet(S)
  PROVE  Places!Total(f, S) = IF S = {} THEN 0 ELSE f[Pick(S)] + Places!Total(f, S \ {Pick(S)})
<1>1. PICK g : IsSums(g, f, S)
  BY SumsExist
<1>2. Places!Total(f, S) = g[S] /\ Places!Total(f, S \ {Pick(S)}) = g[S \ {Pick(S)}]
  BY <1>1, TotalIsSum
<1>3. g[S] = IF S = {} THEN 0 ELSE f[Pick(S)] + g[S \ {Pick(S)}]
  BY <1>1 DEF IsSums
<1> QED BY <1>2, <1>3


LEMMA TotalOfNone == ASSUME NEW f PROVE Places!Total(f, {}) = 0
BY FS_EmptySet, TotalUnfolds

(* A sum of numbers is a number, and depends on the terms alone.           *)
LEMMA TotalTyped ==
  ASSUME NEW f, NEW S, IsFiniteSet(S), \A q \in S : f[q] \in Nat
  PROVE  Places!Total(f, S) \in Nat
<1> DEFINE Bad == {T \in SUBSET S : Places!Total(f, T) \notin Nat}
<1>1. SUFFICES ASSUME Bad # {} PROVE FALSE
  BY DEF Bad
<1>2. PICK T \in Bad : \A U \in Bad : U \subseteq T => U = T
  <2>1. Bad \subseteq SUBSET S
    OBVIOUS
  <2> HIDE DEF Bad
  <2> QED BY <1>1, <2>1, SmallestExists
<1>3. T \in SUBSET S /\ IsFiniteSet(T) /\ Places!Total(f, T) \notin Nat
  BY <1>2, FS_Subset
<1>4. CASE T = {}
  BY <1>3, <1>4, TotalOfNone
<1>5. CASE T # {}
  <2>1. Pick(T) \in T /\ f[Pick(T)] \in Nat
    BY <1>3, <1>5 DEF Pick
  <2>2. Places!Total(f, T \ {Pick(T)}) \in Nat
    BY <1>2, <1>3, <2>1
  <2> QED BY <1>3, <1>5, <2>1, <2>2, TotalUnfolds
<1> QED BY <1>4, <1>5

LEMMA TotalSame ==
  ASSUME NEW f, NEW g, NEW S, IsFiniteSet(S), \A q \in S : f[q] = g[q]
  PROVE  Places!Total(f, S) = Places!Total(g, S)
<1> DEFINE Bad == {T \in SUBSET S : Places!Total(f, T) # Places!Total(g, T)}
<1>1. SUFFICES ASSUME Bad # {} PROVE FALSE
  BY DEF Bad
<1>2. PICK T \in Bad : \A U \in Bad : U \subseteq T => U = T
  <2>1. Bad \subseteq SUBSET S
    OBVIOUS
  <2> HIDE DEF Bad
  <2> QED BY <1>1, <2>1, SmallestExists
<1>3. T \in SUBSET S /\ IsFiniteSet(T) /\ Places!Total(f, T) # Places!Total(g, T)
  BY <1>2, FS_Subset
<1>4. CASE T = {}
  BY <1>3, <1>4, TotalOfNone
<1>5. CASE T # {}
  <2>1. Pick(T) \in T /\ f[Pick(T)] = g[Pick(T)]
    BY <1>3, <1>5 DEF Pick
  <2>2. Places!Total(f, T \ {Pick(T)}) = Places!Total(g, T \ {Pick(T)})
    BY <1>2, <1>3, <2>1
  <2> QED BY <1>3, <1>5, <2>1, <2>2, TotalUnfolds
<1> QED BY <1>4, <1>5

(* Any element can be taken out of a sum: in a smallest set where one      *)
(* cannot, it could be taken out of what is left without the one picked.   *)
LEMMA TotalWithout ==
  ASSUME NEW f, NEW S, IsFiniteSet(S), \A q \in S : f[q] \in Nat
  PROVE  \A x \in S : Places!Total(f, S) = f[x] + Places!Total(f, S \ {x})
<1> DEFINE Wrong(T, x) == Places!Total(f, T) # f[x] + Places!Total(f, T \ {x})
           Bad == {T \in SUBSET S : \E x \in T : Wrong(T, x)}
<1>1. SUFFICES ASSUME Bad # {} PROVE FALSE
  BY DEF Bad
<1>2. PICK T \in Bad : \A U \in Bad : U \subseteq T => U = T
  <2>1. Bad \subseteq SUBSET S
    OBVIOUS
  <2> HIDE DEF Bad
  <2> QED BY <1>1, <2>1, SmallestExists
<1>3. PICK x \in T : Wrong(T, x)
  BY <1>2
<1>4. T \in SUBSET S /\ IsFiniteSet(T)
  BY <1>2, FS_Subset
<1>5. PICK c : c = Pick(T)
  OBVIOUS
<1>6. c \in T /\ Places!Total(f, T) = f[c] + Places!Total(f, T \ {c})
  <2>1. T # {} /\ Pick(T) \in T
    BY <1>3 DEF Pick
  <2> QED BY <1>4, <1>5, <2>1, TotalUnfolds
<1>7. c # x
  BY <1>3, <1>6
<1>8. ASSUME NEW y \in T, NEW z \in T, y # z
      PROVE  Places!Total(f, T \ {y}) = f[z] + Places!Total(f, (T \ {y}) \ {z})
  <2> DEFINE U == T \ {y}
  <2>1. U \in SUBSET S /\ z \in U /\ U \subseteq T /\ U # T
    BY <1>4, <1>8
  <2>2. ~Wrong(U, z)
    <3> HIDE DEF U, Wrong
    <3> QED BY <1>2, <2>1
  <2> QED BY <2>2
<1> DEFINE V == T \ {c, x}
<1>9. (T \ {c}) \ {x} = V /\ (T \ {x}) \ {c} = V /\ V \in SUBSET S
  BY <1>4
<1>10. Places!Total(f, T \ {c}) = f[x] + Places!Total(f, V)
  <2> HIDE DEF V
  <2> QED BY <1>6, <1>7, <1>8, <1>9
<1>11. Places!Total(f, T \ {x}) = f[c] + Places!Total(f, V)
  <2> HIDE DEF V
  <2> QED BY <1>6, <1>7, <1>8, <1>9
<1>12. f[c] \in Nat /\ f[x] \in Nat /\ Places!Total(f, V) \in Nat
  <2>1. IsFiniteSet(V) /\ \A q \in V : f[q] \in Nat
    BY <1>9, FS_Subset
  <2> HIDE DEF V
  <2> QED BY <1>4, <1>6, <2>1, TotalTyped
<1> QED BY <1>3, <1>6, <1>10, <1>11, <1>12

(* One term more.                                                          *)
LEMMA TotalWith ==
  ASSUME NEW f, NEW g, NEW S, IsFiniteSet(S), NEW x, x \notin S, f[x] \in Nat,
         \A q \in S : f[q] \in Nat /\ g[q] = f[q]
  PROVE  Places!Total(f, S \cup {x}) = f[x] + Places!Total(g, S)
<1>1. IsFiniteSet(S \cup {x}) /\ (S \cup {x}) \ {x} = S
  BY FS_AddElement
<1>2. Places!Total(f, S \cup {x}) = f[x] + Places!Total(f, S)
  <2>1. \A q \in S \cup {x} : f[q] \in Nat
    OBVIOUS
  <2> QED BY <1>1, <2>1, TotalWithout
<1>3. Places!Total(f, S) = Places!Total(g, S)
  BY TotalSame
<1> QED BY <1>2, <1>3

-----------------------------------------------------------------------------
Statuses == {"none", "QUEUED", "PROCESSING", "COMPLETED", "FAILED", "CANCELLED"}
AdmissionRows ==
  /\ day \in Nat
  /\ admission \in [Uploads -> {"none", "live", "expired"}]
  /\ stored \in [Uploads -> {"none", "kept", "deleted", "purged"}]
  /\ bytes \in [Uploads -> Nat]
  /\ analysis \in [Uploads -> [status : Statuses, attempts : 0..Tries, slot : BOOLEAN, spent : Nat]]
  /\ budget \in [Uploads -> [state : {"none", "OPEN", "CLOSED"}, day : Nat, charged : Nat]]

(* What has run was measured within an attempt and its clean-up, but for   *)
(* the attempt under way; what is settled was settled by today, and is over. *)
Longest == AttemptSeconds + Overrun
RunInv(q) ==
  /\ analysis[q].slot => /\ analysis[q].attempts >= 1
                         /\ analysis[q].spent <= Longest * (analysis[q].attempts - 1)
  /\ analysis[q].spent <= Longest * analysis[q].attempts
  /\ stored[q] = "none" => budget[q].state = "none"
  /\ budget[q].day <= day
  /\ budget[q].state = "CLOSED" => /\ ~analysis[q].slot
                                   /\ analysis[q].status \notin {"QUEUED", "PROCESSING"}

(* On a new day, what is reserved is all that counts.                      *)
ReservedFits == \A c \in Places!Scopes : Places!Reserved(c.of) <= c.seconds

AdmissionInv ==
  /\ AdmissionRows /\ (\A q \in Uploads : RunInv(q)) /\ ReservedFits
  /\ Places!AdmittedFits /\ Places!PendingWithinQuota /\ Places!DayWithinBudget

LEMMA PlacesCardinality ==
  ASSUME NEW S PROVE Places!Cardinality(S) = Cardinality(S)
  BY DEF Places!Cardinality, Cardinality

LEMMA AdmissionNumbers ==
  /\ IsFiniteSet(Uploads) /\ MaxUpload \in Nat
  /\ AttemptSeconds \in Nat /\ Tries \in Nat /\ Overrun \in Nat /\ Longest \in Nat
  /\ Places!Reservation \in Nat /\ Places!Reservation = AttemptSeconds * Tries
BY AdmissionsAssumption DEF AdmissionsAssumption, Longest, Places!Reservation

LEMMA ScopeTypes ==
  ASSUME NEW c \in Places!Scopes
  PROVE  /\ c.of \in SUBSET Uploads /\ IsFiniteSet(c.of)
         /\ c.storage \in Nat /\ c.seconds \in Nat /\ c.pending \in Nat
<1>1. /\ c.of \in SUBSET Uploads
      /\ c.storage \in {OwnerStorage, GlobalStorage} /\ c.seconds \in {OwnerSeconds, GlobalSeconds}
      /\ c.pending \in {OwnerPending, GlobalPending}
  BY DEF Places!Scopes
<1>2. IsFiniteSet(c.of)
  BY <1>1, AdmissionNumbers, FS_Subset
<1> QED BY <1>1, <1>2, AdmissionsAssumption DEF AdmissionsAssumption

LEMMA TimesMore ==
  ASSUME NEW a \in Nat, NEW m \in Nat, NEW n \in Nat, m <= n
  PROVE  a * m \in Nat /\ a * n \in Nat /\ a * m <= a * n /\ a * (n + 1) = a * n + a
<1>1. PICK k \in Nat : n = m + k
  <2>1. n - m \in Nat /\ n = m + (n - m)
    OBVIOUS
  <2> QED BY <2>1
<1>2. a * n = a * m + a * k /\ a * k \in Nat /\ a * m \in Nat /\ a * n \in Nat
  BY <1>1
<1> QED BY <1>2

(* Fewer uploads hold fewer places.                                        *)
LEMMA FewerTake ==
  ASSUME NEW a \in Nat, NEW S, IsFiniteSet(S), NEW T \in SUBSET S
  PROVE  /\ Places!Cardinality(T) \in Nat /\ Places!Cardinality(S) \in Nat
         /\ a * Places!Cardinality(T) \in Nat /\ a * Places!Cardinality(S) \in Nat
         /\ Places!Cardinality(T) <= Places!Cardinality(S)
         /\ a * Places!Cardinality(T) <= a * Places!Cardinality(S)
<1>1. Cardinality(T) \in Nat /\ Cardinality(S) \in Nat /\ Cardinality(T) <= Cardinality(S)
  BY FS_Subset, FS_CardinalityType
<1>2. PICK m, n : m = Cardinality(T) /\ n = Cardinality(S)
  OBVIOUS
<1>3. a * m \in Nat /\ a * n \in Nat /\ a * m <= a * n
  BY <1>1, <1>2, TimesMore
<1> QED BY <1>1, <1>2, <1>3, PlacesCardinality

LEMMA OneMoreTakes ==
  ASSUME NEW a \in Nat, NEW S, IsFiniteSet(S), NEW q, q \notin S
  PROVE  /\ IsFiniteSet(S \cup {q})
         /\ Places!Cardinality(S \cup {q}) = Places!Cardinality(S) + 1
         /\ a * Places!Cardinality(S \cup {q}) = a * Places!Cardinality(S) + a
<1>1. IsFiniteSet(S \cup {q}) /\ Cardinality(S) \in Nat /\ Cardinality(S \cup {q}) = Cardinality(S) + 1
  BY FS_AddElement, FS_CardinalityType
<1>2. PICK n : n = Cardinality(S)
  OBVIOUS
<1>3. a * (n + 1) = a * n + a
  BY <1>1, <1>2, TimesMore
<1> QED BY <1>1, <1>2, <1>3, PlacesCardinality

LEMMA AdmissionInit == Places!Init => AdmissionInv
<1> SUFFICES ASSUME Places!Init PROVE AdmissionInv
  OBVIOUS
<1> USE DEF Places!Init, Places!NoRun, Places!NoBudget
<1>1. AdmissionRows
  <2>1. [status |-> "none", attempts |-> 0, slot |-> FALSE, spent |-> 0]
           \in [status : Statuses, attempts : 0..Tries, slot : BOOLEAN, spent : Nat]
    BY AdmissionNumbers DEF Statuses
  <2>2. [state |-> "none", day |-> 0, charged |-> 0]
           \in [state : {"none", "OPEN", "CLOSED"}, day : Nat, charged : Nat]
    OBVIOUS
  <2> QED BY <2>1, <2>2 DEF AdmissionRows
<1>2. ASSUME NEW q \in Uploads PROVE RunInv(q)
  <2>1. /\ analysis[q].slot = FALSE /\ analysis[q].attempts = 0 /\ analysis[q].spent = 0
        /\ analysis[q].status = "none"
        /\ budget[q].state = "none" /\ budget[q].day = 0 /\ day = 0
    OBVIOUS
  <2>2. 0 <= Longest * 0
    BY AdmissionNumbers
  <2> QED BY <2>1, <2>2 DEF RunInv
<1>3. \A a \in Nat : a * Places!Cardinality({}) = 0
  <2>1. Places!Cardinality({}) = 0
    BY FS_EmptySet, PlacesCardinality
  <2> QED BY <2>1
<1>4. ASSUME NEW c \in Places!Scopes
      PROVE  /\ Places!Reserved(c.of) = 0 /\ Places!Used(c.of) = 0
             /\ Places!Stored(c.of) + MaxUpload * Places!Cardinality({q \in Places!Live(c.of) : stored[q] = "none"}) = 0
             /\ Places!Cardinality(Places!Pending(c.of)) = 0
             /\ {q \in c.of : budget[q].state = "CLOSED" /\ budget[q].day = day} = {}
             /\ 0 <= c.storage /\ 0 <= c.seconds /\ 0 <= c.pending /\ c.seconds \in Nat
  <2>1. /\ c.of \subseteq Uploads /\ 0 <= c.storage /\ 0 <= c.seconds /\ 0 <= c.pending
        /\ c.seconds \in Nat
    BY ScopeTypes
  <2>2. /\ {q \in c.of : budget[q].state = "OPEN"} = {}
        /\ {q \in c.of : budget[q].state = "CLOSED" /\ budget[q].day = day} = {}
    BY <2>1
  <2>3. Places!Unpurged(c.of) = {} /\ Places!Pending(c.of) = {} /\ Places!Live(c.of) = {}
    BY <2>1 DEF Places!Unpurged, Places!Pending, Places!Live
  <2>4. {q \in Places!Live(c.of) : stored[q] = "none"} = {}
    BY <2>3
  <2>5. Places!Cardinality({}) = 0
    BY FS_EmptySet, PlacesCardinality
  <2>6. Places!Reserved(c.of) = 0
    BY <1>3, <2>2, AdmissionNumbers DEF Places!Reserved
  <2>7. Places!Used(c.of) = 0
    BY <2>2, TotalOfNone DEF Places!Used
  <2>8. Places!Stored(c.of) = 0
    BY <2>3, TotalOfNone DEF Places!Stored
  <2>9. MaxUpload * Places!Cardinality({}) = 0
    BY <1>3, AdmissionNumbers
  <2> QED BY <2>1, <2>2, <2>3, <2>4, <2>5, <2>6, <2>7, <2>8, <2>9
<1>5. ReservedFits
  BY <1>4 DEF ReservedFits
<1>6. Places!AdmittedFits
  BY <1>4 DEF Places!AdmittedFits
<1>7. Places!PendingWithinQuota
  BY <1>4 DEF Places!PendingWithinQuota
<1>8. Places!DayWithinBudget
  <2> SUFFICES ASSUME NEW c \in Places!Scopes
               PROVE  Places!Used(c.of) + Places!Reserved(c.of)
                        <= c.seconds + Overrun * Places!Total([q \in c.of |-> analysis[q].attempts], {})
    BY <1>4 DEF Places!DayWithinBudget
  <2>1. Places!Total([q \in c.of |-> analysis[q].attempts], {}) = 0
    BY TotalOfNone
  <2>2. Overrun * 0 = 0
    BY AdmissionNumbers
  <2>3. Overrun * Places!Total([q \in c.of |-> analysis[q].attempts], {}) = 0
    BY <2>1, <2>2
  <2>4. Places!Used(c.of) = 0 /\ Places!Reserved(c.of) = 0 /\ 0 <= c.seconds /\ c.seconds \in Nat
    BY <1>4
  <2>5. PICK x : x = Overrun * Places!Total([q \in c.of |-> analysis[q].attempts], {})
    OBVIOUS
  <2>6. c.seconds + x = c.seconds
    BY <2>3, <2>4, <2>5
  <2> QED BY <2>4, <2>5, <2>6
<1> QED BY <1>1, <1>2, <1>5, <1>6, <1>7, <1>8 DEF AdmissionInv

-----------------------------------------------------------------------------
(* The rows.                                                               *)

Results == [status : Statuses, attempts : 0..Tries, slot : BOOLEAN, spent : Nat]
Budgets == [state : {"none", "OPEN", "CLOSED"}, day : Nat, charged : Nat]

LEMMA ResultIs ==
  ASSUME NEW a \in Results, NEW s
  PROVE  /\ [a EXCEPT !.status = s]
              = [status |-> s, attempts |-> a.attempts, slot |-> a.slot, spent |-> a.spent]
         /\ [a EXCEPT !.status = s, !.slot = TRUE, !.attempts = @ + 1]
              = [status |-> s, attempts |-> a.attempts + 1, slot |-> TRUE, spent |-> a.spent]
<1>1. a = [status |-> a.status, attempts |-> a.attempts, slot |-> a.slot, spent |-> a.spent]
  BY DEF Results
<1>2. [a EXCEPT !.status = s]
        = [status |-> s, attempts |-> a.attempts, slot |-> a.slot, spent |-> a.spent]
  BY <1>1
<1>3. [a EXCEPT !.status = s, !.slot = TRUE, !.attempts = @ + 1]
        = [status |-> s, attempts |-> a.attempts + 1, slot |-> TRUE, spent |-> a.spent]
  <2>1. PICK b : b = [a EXCEPT !.status = s]
    OBVIOUS
  <2>2. PICK c : c = [b EXCEPT !.slot = TRUE]
    OBVIOUS
  <2>3. [a EXCEPT !.status = s, !.slot = TRUE, !.attempts = @ + 1] = [c EXCEPT !.attempts = a.attempts + 1]
    BY <2>1, <2>2
  <2>4. b = [status |-> s, attempts |-> a.attempts, slot |-> a.slot, spent |-> a.spent]
    BY <1>2, <2>1
  <2>5. c = [status |-> s, attempts |-> a.attempts, slot |-> TRUE, spent |-> a.spent]
    BY <2>2, <2>4
  <2>6. PICK m : m = a.attempts + 1
    OBVIOUS
  <2>7. PICK d : d = [c EXCEPT !.attempts = m]
    OBVIOUS
  <2>8. d = [status |-> s, attempts |-> m, slot |-> TRUE, spent |-> a.spent]
    BY <2>5, <2>7
  <2> QED BY <2>3, <2>6, <2>7, <2>8
<1> QED BY <1>2, <1>3

LEMMA ResultStops ==
  ASSUME NEW a \in Results, NEW s, NEW n
  PROVE  [a EXCEPT !.slot = FALSE, !.spent = @ + n, !.status = s]
           = [status |-> s, attempts |-> a.attempts, slot |-> FALSE, spent |-> a.spent + n]
<1>0. a = [status |-> a.status, attempts |-> a.attempts, slot |-> a.slot, spent |-> a.spent]
  BY DEF Results
<1>1. PICK b : b = [a EXCEPT !.slot = FALSE]
  OBVIOUS
<1>2. PICK m : m = a.spent + n
  OBVIOUS
<1>3. PICK c : c = [b EXCEPT !.spent = m]
  OBVIOUS
<1>4. [a EXCEPT !.slot = FALSE, !.spent = @ + n, !.status = s] = [c EXCEPT !.status = s]
  BY <1>1, <1>2, <1>3
<1>5. b = [status |-> a.status, attempts |-> a.attempts, slot |-> FALSE, spent |-> a.spent]
  BY <1>0, <1>1
<1>6. c = [status |-> a.status, attempts |-> a.attempts, slot |-> FALSE, spent |-> m]
  BY <1>3, <1>5
<1>7. PICK d : d = [c EXCEPT !.status = s]
  OBVIOUS
<1>8. d = [status |-> s, attempts |-> a.attempts, slot |-> FALSE, spent |-> m]
  BY <1>6, <1>7
<1> QED BY <1>2, <1>4, <1>7, <1>8

(* What a run and its budget may be, together.                             *)
RunSound(r, b) ==
  /\ r.slot => r.attempts >= 1 /\ r.spent <= Longest * (r.attempts - 1)
  /\ r.spent <= Longest * r.attempts
  /\ b.state = "CLOSED" => ~r.slot /\ r.status \notin {"QUEUED", "PROCESSING"}

(* Becomes, for a run that goes on soundly: its budget is settled, or      *)
(* stays what it was.                                                      *)
LEMMA BecomesKeeps ==
  ASSUME AdmissionRows, \A p \in Uploads : RunInv(p), NEW q \in Uploads, NEW r \in Results,
         RunSound(r, budget[q]), Places!Becomes(q, r), UNCHANGED <<day, admission, stored, bytes>>
  PROVE  AdmissionRows' /\ \A p \in Uploads : RunInv(p)'
<1> DEFINE settles == budget[q].state = "OPEN" /\ r.status \notin {"QUEUED", "PROCESSING"} /\ ~r.slot
           b == [state |-> "CLOSED", day |-> day, charged |-> r.spent]
<1>1. analysis' = [analysis EXCEPT ![q] = r] /\ budget' = IF settles THEN [budget EXCEPT ![q] = b] ELSE budget
  BY DEF Places!Becomes, Places!Settled
<1>2. analysis' \in [Uploads -> Results] /\ \A p \in Uploads : analysis'[p] = IF p = q THEN r ELSE analysis[p]
  BY <1>1 DEF AdmissionRows, Results
<1>3. b \in Budgets
  BY DEF Budgets, AdmissionRows, Results
<1>4. /\ budget' \in [Uploads -> Budgets]
      /\ \A p \in Uploads : budget'[p] = IF p = q /\ settles THEN b ELSE budget[p]
  <2> HIDE DEF b, settles
  <2> QED BY <1>1, <1>3 DEF AdmissionRows, Budgets
<1>5. AdmissionRows'
  BY <1>2, <1>4 DEF AdmissionRows, Results, Budgets
<1>6. ASSUME NEW p \in Uploads PROVE RunInv(p)'
  <2>1. CASE p # q
    <3>1. analysis'[p] = analysis[p] /\ budget'[p] = budget[p]
      BY <1>2, <1>4, <2>1
    <3> QED BY <3>1 DEF RunInv
  <2>2. CASE p = q /\ settles
    <3>1. analysis'[q] = r /\ budget'[q] = b
      BY <1>2, <1>4, <2>2
    <3>2. stored[q] # "none" /\ day \in Nat
      BY <2>2 DEF RunInv, AdmissionRows
    <3> QED BY <2>2, <3>1, <3>2 DEF RunInv, RunSound
  <2>3. CASE p = q /\ ~settles
    <3>1. analysis'[q] = r /\ budget'[q] = budget[q]
      BY <1>2, <1>4, <2>3
    <3> QED BY <2>3, <3>1 DEF RunInv, RunSound
  <2> QED BY <2>1, <2>2, <2>3
<1> QED BY <1>5, <1>6

LEMMA ReserveRows ==
  ASSUME AdmissionRows, \A p \in Uploads : RunInv(p), NEW q \in Uploads,
         Places!Reserve(q) \/ Places!Return(q) \/ Places!Expire(q)
  PROVE  AdmissionRows' /\ \A p \in Uploads : RunInv(p)'
<1>1. /\ UNCHANGED <<day, stored, bytes, analysis, budget>>
      /\ \E a \in {"none", "live", "expired"} : admission' = [admission EXCEPT ![q] = a]
  BY DEF Places!Reserve, Places!Return, Places!Expire
<1> QED BY <1>1 DEF AdmissionRows, RunInv

LEMMA PublishRows ==
  ASSUME AdmissionRows, \A p \in Uploads : RunInv(p), NEW q \in Uploads, NEW n \in 1..MaxUpload,
         Places!Publish(q, n)
  PROVE  AdmissionRows' /\ \A p \in Uploads : RunInv(p)'
<1>1. /\ stored[q] = "none"
      /\ stored' = [stored EXCEPT ![q] = "kept"] /\ bytes' = [bytes EXCEPT ![q] = n]
      /\ analysis' = [analysis EXCEPT ![q].status = "QUEUED"]
      /\ budget' = [budget EXCEPT ![q].state = "OPEN"] /\ UNCHANGED <<day, admission>>
  BY DEF Places!Publish, Places!ReserveRun
<1>2. n \in Nat
  BY AdmissionNumbers
<1> DEFINE r == [status |-> "QUEUED", attempts |-> analysis[q].attempts, slot |-> analysis[q].slot,
                 spent |-> analysis[q].spent]
           b == [state |-> "OPEN", day |-> budget[q].day, charged |-> budget[q].charged]
<1>3. analysis' = [analysis EXCEPT ![q] = r] /\ budget' = [budget EXCEPT ![q] = b]
  <2>1. /\ analysis[q] \in Results
        /\ analysis' = [analysis EXCEPT ![q] = [analysis[q] EXCEPT !.status = "QUEUED"]]
    BY <1>1 DEF AdmissionRows, Results
  <2>2. analysis' = [analysis EXCEPT ![q] = r]
    BY <2>1, ResultIs
  <2>3. budget[q] = [state |-> budget[q].state, day |-> budget[q].day, charged |-> budget[q].charged]
    BY DEF AdmissionRows
  <2>4. [budget[q] EXCEPT !.state = "OPEN"] = b
    BY <2>3
  <2>5. budget' = [budget EXCEPT ![q] = [budget[q] EXCEPT !.state = "OPEN"]]
    BY <1>1 DEF AdmissionRows
  <2> QED BY <2>2, <2>4, <2>5
<1>4. r \in Results /\ b \in Budgets
  BY DEF AdmissionRows, Results, Budgets, Statuses
<1>5. /\ analysis' \in [Uploads -> Results] /\ budget' \in [Uploads -> Budgets]
      /\ \A p \in Uploads : /\ analysis'[p] = IF p = q THEN r ELSE analysis[p]
                            /\ budget'[p] = IF p = q THEN b ELSE budget[p]
  <2> HIDE DEF r, b
  <2> QED BY <1>3, <1>4 DEF AdmissionRows, Results, Budgets
<1>6. AdmissionRows'
  BY <1>1, <1>2, <1>5 DEF AdmissionRows, Results, Budgets
<1>7. ASSUME NEW p \in Uploads PROVE RunInv(p)'
  <2>1. stored'[p] = IF p = q THEN "kept" ELSE stored[p]
    BY <1>1 DEF AdmissionRows
  <2> QED BY <1>1, <1>5, <2>1 DEF RunInv
<1> QED BY <1>6, <1>7

LEMMA DeleteRows ==
  ASSUME AdmissionRows, \A p \in Uploads : RunInv(p), NEW q \in Uploads, Places!Delete(q)
  PROVE  AdmissionRows' /\ \A p \in Uploads : RunInv(p)'
<1>1. /\ stored[q] = "kept" /\ stored' = [stored EXCEPT ![q] = "deleted"]
      /\ analysis' = [analysis EXCEPT ![q].status = IF q \in Places!Pending({q}) THEN "CANCELLED" ELSE @]
      /\ UNCHANGED <<day, admission, bytes, budget>>
  BY DEF Places!Delete
<1>2. PICK s \in Statuses : s \in {"CANCELLED", analysis[q].status}
                            /\ analysis' = [analysis EXCEPT ![q].status = s]
  <2>1. analysis[q].status \in Statuses /\ "CANCELLED" \in Statuses
    BY DEF AdmissionRows, Statuses
  <2>2. CASE q \in Places!Pending({q})
    BY <1>1, <2>1, <2>2
  <2>3. CASE q \notin Places!Pending({q})
    <3>1. analysis' = [analysis EXCEPT ![q].status = analysis[q].status]
      BY <1>1, <2>3 DEF AdmissionRows
    <3> QED BY <2>1, <3>1
  <2> QED BY <2>2, <2>3
<1> DEFINE r == [status |-> s, attempts |-> analysis[q].attempts, slot |-> analysis[q].slot,
                 spent |-> analysis[q].spent]
<1>3. analysis' = [analysis EXCEPT ![q] = r]
  <2>1. analysis[q] \in Results /\ analysis' = [analysis EXCEPT ![q] = [analysis[q] EXCEPT !.status = s]]
    BY <1>2 DEF AdmissionRows, Results
  <2> QED BY <2>1, ResultIs
<1>4. r \in Results
  BY DEF AdmissionRows, Results
<1>5. /\ analysis' \in [Uploads -> Results]
      /\ \A p \in Uploads : analysis'[p] = IF p = q THEN r ELSE analysis[p]
  <2> HIDE DEF r
  <2> QED BY <1>3, <1>4 DEF AdmissionRows, Results
<1>6. AdmissionRows'
  BY <1>1, <1>5 DEF AdmissionRows, Results
<1>7. ASSUME NEW p \in Uploads PROVE RunInv(p)'
  <2>1. stored'[p] = IF p = q THEN "deleted" ELSE stored[p]
    BY <1>1 DEF AdmissionRows
  <2> QED BY <1>1, <1>2, <1>5, <2>1 DEF RunInv
<1> QED BY <1>6, <1>7

LEMMA PurgeRows ==
  ASSUME AdmissionRows, \A p \in Uploads : RunInv(p), NEW q \in Uploads, Places!Purge(q)
  PROVE  AdmissionRows' /\ \A p \in Uploads : RunInv(p)'
<1>1. /\ stored[q] = "deleted" /\ stored' = [stored EXCEPT ![q] = "purged"]
      /\ UNCHANGED <<day, admission, bytes, analysis, budget>>
  BY DEF Places!Purge
<1> QED BY <1>1 DEF AdmissionRows, RunInv

LEMMA ClaimRows ==
  ASSUME AdmissionRows, \A p \in Uploads : RunInv(p), NEW q \in Uploads, Places!Claim(q)
  PROVE  AdmissionRows' /\ \A p \in Uploads : RunInv(p)'
<1> DEFINE a == analysis[q]
<1>1. /\ a.status = "QUEUED" /\ ~a.slot /\ UNCHANGED <<day, admission, stored, bytes>>
      /\ Places!Becomes(q, IF a.attempts < Tries
                           THEN [a EXCEPT !.status = "PROCESSING", !.slot = TRUE, !.attempts = @ + 1]
                           ELSE [a EXCEPT !.status = "FAILED"])
  BY DEF Places!Claim
<1>2. a \in Results /\ RunInv(q) /\ budget[q].state # "CLOSED"
  BY <1>1 DEF AdmissionRows, Results, RunInv
<1>3. CASE a.attempts < Tries
  <2> DEFINE r == [status |-> "PROCESSING", attempts |-> a.attempts + 1, slot |-> TRUE, spent |-> a.spent]
  <2>1. [a EXCEPT !.status = "PROCESSING", !.slot = TRUE, !.attempts = @ + 1] = r
    BY <1>2, ResultIs
  <2>2. r \in Results /\ a.attempts \in Nat
    BY <1>2, <1>3, AdmissionNumbers DEF Results, Statuses
  <2>3. Longest * a.attempts <= Longest * (a.attempts + 1)
    BY <2>2, AdmissionNumbers, TimesMore
  <2>4. a.spent <= Longest * a.attempts /\ a.spent \in Nat /\ Longest * a.attempts \in Nat
        /\ Longest * (a.attempts + 1) \in Nat
    BY <1>2, <2>2, AdmissionNumbers, TimesMore DEF RunInv, Results
  <2>5. a.spent <= Longest * (a.attempts + 1) /\ a.attempts + 1 >= 1 /\ (a.attempts + 1) - 1 = a.attempts
    BY <2>2, <2>3, <2>4
  <2>6. RunSound(r, budget[q])
    BY <1>2, <2>4, <2>5 DEF RunSound
  <2>7. Places!Becomes(q, r)
    BY <1>1, <1>3, <2>1
  <2> HIDE DEF r, a
  <2> QED BY <1>1, <2>2, <2>6, <2>7, BecomesKeeps
<1>4. CASE ~(a.attempts < Tries)
  <2> DEFINE r == [status |-> "FAILED", attempts |-> a.attempts, slot |-> a.slot, spent |-> a.spent]
  <2>1. [a EXCEPT !.status = "FAILED"] = r
    BY <1>2, ResultIs
  <2>2. r \in Results
    BY <1>2 DEF Results, Statuses
  <2>3. RunSound(r, budget[q])
    BY <1>1, <1>2 DEF RunSound, RunInv
  <2>4. Places!Becomes(q, r)
    BY <1>1, <1>4, <2>1
  <2> HIDE DEF r, a
  <2> QED BY <1>1, <2>2, <2>3, <2>4, BecomesKeeps
<1> QED BY <1>3, <1>4

LEMMA EndRows ==
  ASSUME AdmissionRows, \A p \in Uploads : RunInv(p), NEW q \in Uploads,
         Places!Cancel(q) \/ Places!Finish(q) \/ Places!Reconcile(q)
  PROVE  AdmissionRows' /\ \A p \in Uploads : RunInv(p)'
<1> DEFINE a == analysis[q]
<1>1. a \in Results /\ RunInv(q)
  BY DEF AdmissionRows, Results
<1>2. CASE Places!Cancel(q)
  <2> DEFINE r == [status |-> "CANCELLED", attempts |-> a.attempts, slot |-> a.slot, spent |-> a.spent]
  <2>1. [a EXCEPT !.status = "CANCELLED"] = r
    BY <1>1, ResultIs
  <2>2. Places!Becomes(q, r) /\ UNCHANGED <<day, admission, stored, bytes>>
    BY <1>2, <2>1 DEF Places!Cancel
  <2>3. r \in Results
    BY <1>1 DEF Results, Statuses
  <2>4. RunSound(r, budget[q])
    BY <1>1 DEF RunSound, RunInv
  <2> HIDE DEF r, a
  <2> QED BY <2>2, <2>3, <2>4, BecomesKeeps
<1>3. CASE Places!Finish(q)
  <2>1. /\ a.status = "PROCESSING" /\ analysis' = [analysis EXCEPT ![q].status = "COMPLETED"]
        /\ UNCHANGED <<day, admission, stored, bytes, budget>>
    BY <1>3 DEF Places!Finish
  <2> DEFINE r == [status |-> "COMPLETED", attempts |-> a.attempts, slot |-> a.slot, spent |-> a.spent]
  <2>2. [a EXCEPT !.status = "COMPLETED"] = r
    BY <1>1, ResultIs
  <2>3. analysis' = [analysis EXCEPT ![q] = r]
    BY <2>1, <2>2 DEF AdmissionRows
  <2>4. r \in Results
    BY <1>1 DEF Results, Statuses
  <2>5. /\ analysis' \in [Uploads -> Results]
        /\ \A p \in Uploads : analysis'[p] = IF p = q THEN r ELSE analysis[p]
    <3> HIDE DEF r, a
    <3> QED BY <2>3, <2>4 DEF AdmissionRows, Results
  <2>6. AdmissionRows'
    BY <2>1, <2>5 DEF AdmissionRows, Results
  <2>7. \A p \in Uploads : RunInv(p)'
    BY <2>1, <2>5 DEF RunInv
  <2> QED BY <2>6, <2>7
<1>4. CASE Places!Reconcile(q)
  <2>1. budget' = Places!Settled(q, a) /\ UNCHANGED <<day, admission, stored, bytes, analysis>>
    BY <1>4 DEF Places!Reconcile
  <2>2. analysis' = [analysis EXCEPT ![q] = a]
    BY <2>1 DEF AdmissionRows
  <2>3. Places!Becomes(q, a)
    BY <2>1, <2>2 DEF Places!Becomes
  <2>4. RunSound(a, budget[q])
    BY <1>1 DEF RunSound, RunInv
  <2> HIDE DEF a
  <2> QED BY <1>1, <2>1, <2>3, <2>4, BecomesKeeps
<1> QED BY <1>2, <1>3, <1>4

LEMMA StopRows ==
  ASSUME AdmissionRows, \A p \in Uploads : RunInv(p), NEW q \in Uploads,
         NEW elapsed \in AttemptSeconds..(AttemptSeconds + Overrun), Places!Stop(q, elapsed)
  PROVE  AdmissionRows' /\ \A p \in Uploads : RunInv(p)'
<1> DEFINE a == analysis[q]
<1>1. a \in Results /\ RunInv(q)
  BY DEF AdmissionRows, Results
<1>2. PICK s \in Statuses : s = IF a.status = "PROCESSING" THEN "QUEUED" ELSE a.status
  BY <1>1 DEF Results, Statuses
<1> DEFINE r == [status |-> s, attempts |-> a.attempts, slot |-> FALSE, spent |-> a.spent + elapsed]
<1>3. /\ a.slot /\ UNCHANGED <<day, admission, stored, bytes>>
      /\ Places!Becomes(q, [a EXCEPT !.slot = FALSE, !.spent = @ + elapsed,
                                     !.status = IF @ = "PROCESSING" THEN "QUEUED" ELSE @])
  BY DEF Places!Stop
<1>4. [a EXCEPT !.slot = FALSE, !.spent = @ + elapsed, !.status = IF @ = "PROCESSING" THEN "QUEUED" ELSE @]
        = [a EXCEPT !.slot = FALSE, !.spent = @ + elapsed, !.status = s]
  BY <1>2
<1>5. Places!Becomes(q, r)
  <2>1. [a EXCEPT !.slot = FALSE, !.spent = @ + elapsed, !.status = s] = r
    <3> HIDE DEF a
    <3>1. [a EXCEPT !.slot = FALSE, !.spent = @ + elapsed, !.status = s]
            = [status |-> s, attempts |-> a.attempts, slot |-> FALSE, spent |-> a.spent + elapsed]
      BY <1>1, ResultStops
    <3> QED BY <3>1
  <2> QED BY <1>3, <1>4, <2>1
<1>6. elapsed \in Nat /\ elapsed <= Longest
  BY AdmissionNumbers DEF Longest
<1>7. r \in Results
  BY <1>1, <1>6 DEF Results
<1>8. RunSound(r, budget[q])
  <2>1. a.attempts \in Nat /\ a.attempts - 1 \in Nat /\ a.spent \in Nat
    BY <1>1, <1>3, AdmissionNumbers DEF Results, RunInv
  <2>2. /\ Longest * ((a.attempts - 1) + 1) = Longest * (a.attempts - 1) + Longest
        /\ Longest * (a.attempts - 1) \in Nat
    BY <2>1, AdmissionNumbers, TimesMore
  <2>3. (a.attempts - 1) + 1 = a.attempts
    BY <2>1
  <2>4. a.spent <= Longest * (a.attempts - 1)
    BY <1>1, <1>3 DEF RunInv
  <2>5. a.spent + elapsed <= Longest * a.attempts
    BY <1>6, <2>1, <2>2, <2>3, <2>4, AdmissionNumbers
  <2>6. budget[q].state # "CLOSED"
    BY <1>1, <1>3 DEF RunInv
  <2> QED BY <2>5, <2>6 DEF RunSound
<1> HIDE DEF r, a
<1> QED BY <1>3, <1>5, <1>7, <1>8, BecomesKeeps

LEMMA AdmissionRowsStep ==
  ASSUME AdmissionRows, \A p \in Uploads : RunInv(p), Places!Next
  PROVE  AdmissionRows' /\ \A p \in Uploads : RunInv(p)'
<1>1. CASE Places!Midnight
  <2>1. day' = day + 1 /\ UNCHANGED <<admission, stored, bytes, analysis, budget>>
    BY <1>1 DEF Places!Midnight
  <2>2. AdmissionRows'
    BY <2>1 DEF AdmissionRows
  <2>3. ASSUME NEW p \in Uploads PROVE RunInv(p)'
    <3>1. budget[p].day \in Nat /\ day \in Nat /\ RunInv(p)
      BY DEF AdmissionRows
    <3> QED BY <2>1, <3>1 DEF RunInv
  <2> QED BY <2>2, <2>3
<1>2. ASSUME NEW q \in Uploads,
             \/ Places!Reserve(q) \/ Places!Return(q) \/ Places!Expire(q) \/ Places!Delete(q) \/ Places!Purge(q)
             \/ Places!Claim(q) \/ Places!Finish(q) \/ Places!Cancel(q) \/ Places!Reconcile(q)
      PROVE  AdmissionRows' /\ \A p \in Uploads : RunInv(p)'
  BY <1>2, ReserveRows, DeleteRows, PurgeRows, ClaimRows, EndRows
<1>3. ASSUME NEW q \in Uploads, NEW n \in 1..MaxUpload, Places!Publish(q, n)
      PROVE  AdmissionRows' /\ \A p \in Uploads : RunInv(p)'
  BY <1>3, PublishRows
<1>4. ASSUME NEW q \in Uploads, NEW elapsed \in AttemptSeconds..(AttemptSeconds + Overrun),
             Places!Stop(q, elapsed)
      PROVE  AdmissionRows' /\ \A p \in Uploads : RunInv(p)'
  BY <1>4, StopRows
<1> QED BY <1>1, <1>2, <1>3, <1>4 DEF Places!Next

-----------------------------------------------------------------------------
(* The room of a quota.                                                    *)

Awaited(S) == {q \in Places!Live(S) : stored[q] = "none"}

LEMMA SetsOf ==
  ASSUME NEW S \in SUBSET Uploads
  PROVE  /\ IsFiniteSet(S) /\ Places!Unpurged(S) \subseteq S /\ Places!Live(S) \subseteq S
         /\ Awaited(S) \subseteq S /\ Places!Pending(S) \subseteq S
         /\ IsFiniteSet(Places!Unpurged(S)) /\ IsFiniteSet(Places!Live(S))
         /\ IsFiniteSet(Awaited(S)) /\ IsFiniteSet(Places!Pending(S))
<1>1. /\ Places!Unpurged(S) \subseteq S /\ Places!Live(S) \subseteq S
      /\ Awaited(S) \subseteq S /\ Places!Pending(S) \subseteq S
  BY DEF Places!Unpurged, Places!Live, Awaited, Places!Pending
<1>2. IsFiniteSet(S)
  BY AdmissionNumbers, FS_Subset
<1> QED BY <1>1, <1>2, FS_Subset

LEMMA StoredTyped ==
  ASSUME AdmissionRows, NEW S \in SUBSET Uploads PROVE Places!Stored(S) \in Nat
<1>1. \A q \in Places!Unpurged(S) : bytes[q] \in Nat
  BY SetsOf DEF AdmissionRows
<1> QED BY <1>1, SetsOf, TotalTyped DEF Places!Stored

LEMMA StoredSame ==
  ASSUME AdmissionRows, NEW S \in SUBSET Uploads,
         \A p \in S : /\ bytes'[p] = bytes[p]
                      /\ stored'[p] \in {"kept", "deleted"} <=> stored[p] \in {"kept", "deleted"}
  PROVE  Places!Stored(S)' = Places!Stored(S)
<1>1. Places!Unpurged(S)' = Places!Unpurged(S)
  BY DEF Places!Unpurged
<1>2. Places!Total(bytes', Places!Unpurged(S)) = Places!Total(bytes, Places!Unpurged(S))
  <2>1. \A p \in Places!Unpurged(S) : bytes'[p] = bytes[p]
    BY SetsOf
  <2> QED BY <2>1, SetsOf, TotalSame
<1> QED BY <1>1, <1>2 DEF Places!Stored

(* What the uploads of S have taken, and may still take.                   *)
Taken(S) == Places!Stored(S) + MaxUpload * Places!Cardinality(Awaited(S))

LEMMA FitsIs == Places!AdmittedFits <=> \A c \in Places!Scopes : Taken(c.of) <= c.storage
BY DEF Places!AdmittedFits, Taken, Awaited

LEMMA TakenShrinks ==
  ASSUME AdmissionRows, NEW S \in SUBSET Uploads, Places!Stored(S)' \in Nat,
         Places!Stored(S)' <= Places!Stored(S), Awaited(S)' \subseteq Awaited(S)
  PROVE  Taken(S)' \in Nat /\ Taken(S)' <= Taken(S)
<1>1. PICK T : T = Awaited(S)'
  OBVIOUS
<1>2. /\ MaxUpload * Places!Cardinality(T) <= MaxUpload * Places!Cardinality(Awaited(S))
      /\ MaxUpload * Places!Cardinality(T) \in Nat
      /\ MaxUpload * Places!Cardinality(Awaited(S)) \in Nat
  <2>1. T \in SUBSET Awaited(S)
    BY <1>1
  <2> QED BY <2>1, SetsOf, FewerTake, AdmissionNumbers
<1>3. Taken(S)' = Places!Stored(S)' + MaxUpload * Places!Cardinality(T)
  BY <1>1 DEF Taken
<1>4. Taken(S) = Places!Stored(S) + MaxUpload * Places!Cardinality(Awaited(S)) /\ Places!Stored(S) \in Nat
  BY StoredTyped DEF Taken
<1>5. PICK x, y : x = MaxUpload * Places!Cardinality(T) /\ y = MaxUpload * Places!Cardinality(Awaited(S))
  OBVIOUS
<1>6. x \in Nat /\ y \in Nat /\ x <= y /\ Taken(S)' = Places!Stored(S)' + x /\ Taken(S) = Places!Stored(S) + y
  BY <1>2, <1>3, <1>4, <1>5
<1> QED BY <1>4, <1>6

(* A step that leaves the recordings of S as they are and takes no place   *)
(* among them.                                                             *)
RecordingsStand(S) ==
  \A p \in S : /\ bytes'[p] = bytes[p]
               /\ stored'[p] \in {"kept", "deleted"} <=> stored[p] \in {"kept", "deleted"}
               /\ admission'[p] = "live" /\ stored'[p] = "none" =>
                    admission[p] = "live" /\ stored[p] = "none"

LEMMA TakenStands ==
  ASSUME AdmissionRows, NEW S \in SUBSET Uploads,
         RecordingsStand(S)
  PROVE  Taken(S)' \in Nat /\ Taken(S)' <= Taken(S)
<1>1. Places!Stored(S)' = Places!Stored(S) /\ Places!Stored(S) \in Nat
  BY StoredSame, StoredTyped DEF RecordingsStand
<1>2. Awaited(S)' \subseteq Awaited(S)
  BY DEF Awaited, Places!Live, RecordingsStand
<1> QED BY <1>1, <1>2, TakenShrinks

(* Reserve: there is room for the largest upload.                          *)
LEMMA ReserveFits ==
  ASSUME AdmissionRows, NEW q \in Uploads, Places!Reserve(q), NEW c \in Places!Scopes, q \in c.of
  PROVE  Taken(c.of)' <= c.storage
<1> DEFINE S == c.of
<1>1. S \in SUBSET Uploads /\ S \ {q} \in SUBSET Uploads
  BY ScopeTypes
<1>2. /\ Places!Stored(S) + Places!Held(S \ {q}) + MaxUpload <= c.storage
      /\ admission' = [admission EXCEPT ![q] = "live"] /\ UNCHANGED <<stored, bytes>>
  BY DEF Places!Reserve, Places!Fits, Places!ScopesOf
<1> HIDE DEF S
<1>3. Places!Stored(S)' = Places!Stored(S) /\ Places!Stored(S) \in Nat
  BY <1>1, <1>2, StoredSame, StoredTyped
<1>4. PICK L : L = Places!Live(S \ {q})
  OBVIOUS
<1>5. IsFiniteSet(L) /\ q \notin L
  BY <1>1, <1>4, SetsOf
<1>6. PICK T : T = Awaited(S)'
  OBVIOUS
<1>7. T \in SUBSET (L \cup {q})
  BY <1>1, <1>2, <1>4, <1>6 DEF Awaited, Places!Live, AdmissionRows
<1>8. /\ MaxUpload * Places!Cardinality(T) <= MaxUpload * Places!Cardinality(L \cup {q})
      /\ MaxUpload * Places!Cardinality(T) \in Nat
      /\ MaxUpload * Places!Cardinality(L \cup {q}) = MaxUpload * Places!Cardinality(L) + MaxUpload
      /\ MaxUpload * Places!Cardinality(L) \in Nat
  <2>1. IsFiniteSet(L \cup {q})
    BY <1>5, FS_AddElement
  <2> QED BY <1>5, <1>7, <2>1, FewerTake, OneMoreTakes, AdmissionNumbers
<1>9. PICK x, y : x = MaxUpload * Places!Cardinality(T) /\ y = MaxUpload * Places!Cardinality(L)
  OBVIOUS
<1>10. x \in Nat /\ y \in Nat /\ x <= y + MaxUpload /\ Places!Held(S \ {q}) = y
  BY <1>4, <1>8, <1>9 DEF Places!Held
<1>11. Taken(S)' = Places!Stored(S) + x
  BY <1>3, <1>6, <1>9 DEF Taken
<1>12. c.storage \in Nat
  BY ScopeTypes
<1>13. Taken(S)' <= c.storage
  BY <1>2, <1>3, <1>10, <1>11, <1>12, AdmissionNumbers
<1> QED BY <1>13 DEF S

(* Publish: there is room beside the other places.                         *)
LEMMA PublishFits ==
  ASSUME AdmissionRows, NEW q \in Uploads, NEW n \in 1..MaxUpload, Places!Publish(q, n),
         NEW c \in Places!Scopes, q \in c.of
  PROVE  Taken(c.of)' <= c.storage
<1> DEFINE S == c.of
<1>1. S \in SUBSET Uploads /\ S \ {q} \in SUBSET Uploads /\ q \in S
  BY ScopeTypes
<1>2. /\ Places!Stored(S) + Places!Held(S \ {q}) + n <= c.storage /\ stored[q] = "none"
      /\ stored' = [stored EXCEPT ![q] = "kept"] /\ bytes' = [bytes EXCEPT ![q] = n]
      /\ UNCHANGED admission
  BY DEF Places!Publish, Places!Fits, Places!ScopesOf
<1> HIDE DEF S
<1>3. Places!Stored(S)' = n + Places!Stored(S) /\ Places!Stored(S) \in Nat /\ n \in Nat
  <2> DEFINE U == Places!Unpurged(S)
  <2>1. Places!Unpurged(S)' = U \cup {q} /\ q \notin U
    BY <1>1, <1>2 DEF Places!Unpurged, AdmissionRows
  <2>2. IsFiniteSet(U) /\ U \subseteq S
    BY <1>1, SetsOf
  <2>3. n \in Nat /\ bytes'[q] = n
    BY <1>1, <1>2, AdmissionNumbers DEF AdmissionRows
  <2>4. \A p \in U : bytes'[p] \in Nat /\ bytes[p] = bytes'[p]
    BY <1>1, <1>2, <2>1, <2>2 DEF AdmissionRows
  <2> HIDE DEF U
  <2>5. Places!Total(bytes', U \cup {q}) = bytes'[q] + Places!Total(bytes, U)
    BY <2>1, <2>2, <2>3, <2>4, TotalWith
  <2>6. Places!Stored(S)' = Places!Total(bytes', U \cup {q}) /\ Places!Stored(S) = Places!Total(bytes, U)
    BY <2>1 DEF Places!Stored, U
  <2> QED BY <1>1, <2>3, <2>5, <2>6, StoredTyped
<1>4. PICK L : L = Places!Live(S \ {q})
  OBVIOUS
<1>5. IsFiniteSet(L)
  BY <1>1, <1>4, SetsOf
<1>6. PICK T : T = Awaited(S)'
  OBVIOUS
<1>7. T \in SUBSET L
  BY <1>1, <1>2, <1>4, <1>6 DEF Awaited, Places!Live, AdmissionRows
<1>8. /\ MaxUpload * Places!Cardinality(T) <= MaxUpload * Places!Cardinality(L)
      /\ MaxUpload * Places!Cardinality(T) \in Nat
      /\ MaxUpload * Places!Cardinality(L) \in Nat
  BY <1>5, <1>7, FewerTake, AdmissionNumbers
<1>9. PICK x, y : x = MaxUpload * Places!Cardinality(T) /\ y = MaxUpload * Places!Cardinality(L)
  OBVIOUS
<1>10. x \in Nat /\ y \in Nat /\ x <= y /\ Places!Held(S \ {q}) = y
  BY <1>4, <1>8, <1>9 DEF Places!Held
<1>11. Taken(S)' = (n + Places!Stored(S)) + x
  BY <1>3, <1>6, <1>9 DEF Taken
<1>12. c.storage \in Nat
  BY ScopeTypes
<1>13. Taken(S)' <= c.storage
  BY <1>2, <1>3, <1>10, <1>11, <1>12
<1> QED BY <1>13 DEF S

(* Purge: the bytes are given back.                                        *)
LEMMA PurgeFits ==
  ASSUME AdmissionRows, NEW q \in Uploads, Places!Purge(q), NEW S \in SUBSET Uploads, q \in S
  PROVE  Taken(S)' \in Nat /\ Taken(S)' <= Taken(S)
<1> DEFINE U == Places!Unpurged(S)
<1>1. /\ stored[q] = "deleted" /\ stored' = [stored EXCEPT ![q] = "purged"]
      /\ UNCHANGED <<admission, bytes>>
  BY DEF Places!Purge
<1>2. Places!Unpurged(S)' = U \ {q} /\ q \in U
  BY <1>1 DEF Places!Unpurged, AdmissionRows
<1>3. IsFiniteSet(U) /\ \A p \in U : bytes[p] \in Nat
  BY SetsOf DEF AdmissionRows
<1>4. IsFiniteSet(U \ {q}) /\ \A p \in U \ {q} : bytes[p] \in Nat
  BY <1>3, FS_RemoveElement
<1> HIDE DEF U
<1>5. Places!Total(bytes, U) = bytes[q] + Places!Total(bytes, U \ {q})
  BY <1>2, <1>3, TotalWithout
<1>6. Places!Total(bytes, U \ {q}) \in Nat /\ bytes[q] \in Nat
  BY <1>2, <1>3, <1>4, TotalTyped
<1>7. Places!Stored(S)' = Places!Total(bytes, U \ {q}) /\ Places!Stored(S) = Places!Total(bytes, U)
  BY <1>1, <1>2 DEF Places!Stored, U
<1>8. Awaited(S)' \subseteq Awaited(S)
  BY <1>1 DEF Awaited, Places!Live, AdmissionRows
<1>9. Places!Stored(S)' \in Nat /\ Places!Stored(S)' <= Places!Stored(S)
  BY <1>5, <1>6, <1>7
<1> QED BY <1>8, <1>9, TakenShrinks

LEMMA FitsStep ==
  ASSUME AdmissionRows, Places!AdmittedFits, Places!Next PROVE Places!AdmittedFits'
<1> SUFFICES ASSUME NEW c \in Places!Scopes PROVE Taken(c.of)' <= c.storage
  <2>1. (\A c \in Places!Scopes : Taken(c.of)' <= c.storage) => Places!AdmittedFits'
    BY DEF Places!AdmittedFits, Taken, Awaited
  <2> QED BY <2>1
<1> DEFINE S == c.of
<1>1. S \in SUBSET Uploads /\ c.storage \in Nat
  BY ScopeTypes
<1>2. Taken(S) <= c.storage
  BY FitsIs
<1>3. Taken(S) \in Nat
  <2>1. MaxUpload * Places!Cardinality(Awaited(S)) \in Nat
    BY <1>1, SetsOf, FewerTake, AdmissionNumbers
  <2> QED BY <1>1, <2>1, StoredTyped DEF Taken
<1> HIDE DEF S
<1>4. ASSUME Taken(S)' \in Nat, Taken(S)' <= Taken(S) PROVE Taken(S)' <= c.storage
  BY <1>1, <1>2, <1>3, <1>4
<1>5. ASSUME RecordingsStand(S) PROVE Taken(S)' <= c.storage
  BY <1>1, <1>4, <1>5, TakenStands
<1>6. ASSUME NEW q \in Uploads, Places!Reserve(q) PROVE Taken(S)' <= c.storage
  <2>1. CASE q \in S
    BY <1>6, <2>1, ReserveFits DEF S
  <2>2. CASE q \notin S
    <3>1. /\ admission' = [admission EXCEPT ![q] = "live"] /\ UNCHANGED <<stored, bytes>>
      BY <1>6 DEF Places!Reserve
    <3>2. \A p \in S : admission'[p] = admission[p]
      BY <1>1, <2>2, <3>1 DEF AdmissionRows
    <3>3. RecordingsStand(S)
      BY <3>1, <3>2 DEF RecordingsStand
    <3> QED BY <1>5, <3>3
  <2> QED BY <2>1, <2>2
<1>7. ASSUME NEW q \in Uploads, NEW n \in 1..MaxUpload, Places!Publish(q, n) PROVE Taken(S)' <= c.storage
  <2>1. CASE q \in S
    BY <1>7, <2>1, PublishFits DEF S
  <2>2. CASE q \notin S
    <3>1. /\ stored' = [stored EXCEPT ![q] = "kept"] /\ bytes' = [bytes EXCEPT ![q] = n]
          /\ UNCHANGED admission
      BY <1>7 DEF Places!Publish
    <3>2. \A p \in S : stored'[p] = stored[p] /\ bytes'[p] = bytes[p]
      BY <1>1, <2>2, <3>1 DEF AdmissionRows
    <3>3. RecordingsStand(S)
      BY <3>1, <3>2 DEF RecordingsStand
    <3> QED BY <1>5, <3>3
  <2> QED BY <2>1, <2>2
<1>8. ASSUME NEW q \in Uploads, Places!Purge(q) PROVE Taken(S)' <= c.storage
  <2>1. CASE q \in S
    BY <1>1, <1>4, <1>8, <2>1, PurgeFits
  <2>2. CASE q \notin S
    <3>1. stored' = [stored EXCEPT ![q] = "purged"] /\ UNCHANGED <<admission, bytes>>
      BY <1>8 DEF Places!Purge
    <3>2. \A p \in S : stored'[p] = stored[p]
      BY <1>1, <2>2, <3>1 DEF AdmissionRows
    <3>3. RecordingsStand(S)
      BY <3>1, <3>2 DEF RecordingsStand
    <3> QED BY <1>5, <3>3
  <2> QED BY <2>1, <2>2
<1>9. ASSUME NEW q \in Uploads, Places!Return(q) \/ Places!Expire(q) PROVE Taken(S)' <= c.storage
  <2>1. UNCHANGED <<stored, bytes>> /\ \E a \in {"none", "expired"} : admission' = [admission EXCEPT ![q] = a]
    BY <1>9 DEF Places!Return, Places!Expire
  <2>2. \A p \in S : admission'[p] = "live" => admission[p] = "live"
    BY <1>1, <2>1 DEF AdmissionRows
  <2>3. RecordingsStand(S)
    BY <2>1, <2>2 DEF RecordingsStand
  <2> QED BY <1>5, <2>3
<1>10. ASSUME NEW q \in Uploads, Places!Delete(q) PROVE Taken(S)' <= c.storage
  <2>1. stored[q] = "kept" /\ stored' = [stored EXCEPT ![q] = "deleted"] /\ UNCHANGED <<admission, bytes>>
    BY <1>10 DEF Places!Delete
  <2>2. \A p \in S : /\ stored'[p] \in {"kept", "deleted"} <=> stored[p] \in {"kept", "deleted"}
                     /\ stored'[p] = "none" => stored[p] = "none"
    BY <1>1, <2>1 DEF AdmissionRows
  <2>3. RecordingsStand(S)
    BY <2>1, <2>2 DEF RecordingsStand
  <2> QED BY <1>5, <2>3
<1>11. ASSUME UNCHANGED <<admission, stored, bytes>> PROVE Taken(S)' <= c.storage
  BY <1>5, <1>11 DEF RecordingsStand
<1>12. ASSUME \/ Places!Midnight
              \/ \E q \in Uploads : \/ Places!Claim(q) \/ Places!Finish(q) \/ Places!Cancel(q)
                                    \/ Places!Reconcile(q)
                                    \/ \E elapsed \in AttemptSeconds..(AttemptSeconds + Overrun) :
                                         Places!Stop(q, elapsed)
       PROVE  UNCHANGED <<admission, stored, bytes>>
  BY <1>12 DEF Places!Midnight, Places!Claim, Places!Finish, Places!Cancel, Places!Reconcile, Places!Stop
<1>13. Taken(S)' <= c.storage
  BY <1>6, <1>7, <1>8, <1>9, <1>10, <1>11, <1>12 DEF Places!Next
<1> QED BY <1>13 DEF S

-----------------------------------------------------------------------------
(* What a step does to the runs and to their budgets.                      *)

IsPending(r) == r.status \in {"QUEUED", "PROCESSING"}

(* No run is pending that was not, and a budget is settled, or none is.    *)
RunsGoOn ==
  /\ UNCHANGED day
  /\ \A p \in Uploads : IsPending(analysis'[p]) => IsPending(analysis[p])
  /\ \/ /\ UNCHANGED budget
        /\ \A p \in Uploads :
              budget[p].state = "CLOSED" => analysis'[p].attempts = analysis[p].attempts
     \/ \E q \in Uploads :
           /\ budget[q].state = "OPEN"
           /\ budget' = [budget EXCEPT
                            ![q] = [state |-> "CLOSED", day |-> day, charged |-> analysis'[q].spent]]
           /\ \A p \in Uploads \ {q} : analysis'[p] = analysis[p]

LEMMA BecomesGoesOn ==
  ASSUME AdmissionRows, NEW q \in Uploads, NEW r, Places!Becomes(q, r), UNCHANGED day,
         IsPending(r) => IsPending(analysis[q]),
         budget[q].state = "CLOSED" => r.attempts = analysis[q].attempts
  PROVE  RunsGoOn
<1>1. \A p \in Uploads : analysis'[p] = IF p = q THEN r ELSE analysis[p]
  BY DEF Places!Becomes, AdmissionRows
<1>2. \A p \in Uploads : IsPending(analysis'[p]) => IsPending(analysis[p])
  BY <1>1
<1>3. CASE budget[q].state = "OPEN" /\ r.status \notin {"QUEUED", "PROCESSING"} /\ ~r.slot
  <2>1. budget' = [budget EXCEPT
                      ![q] = [state |-> "CLOSED", day |-> day, charged |-> analysis'[q].spent]]
    BY <1>1, <1>3 DEF Places!Becomes, Places!Settled
  <2>2. \A p \in Uploads \ {q} : analysis'[p] = analysis[p]
    BY <1>1
  <2> QED BY <1>2, <1>3, <2>1, <2>2 DEF RunsGoOn
<1>4. CASE ~(budget[q].state = "OPEN" /\ r.status \notin {"QUEUED", "PROCESSING"} /\ ~r.slot)
  <2>1. budget' = budget
    BY <1>4 DEF Places!Becomes, Places!Settled
  <2>2. \A p \in Uploads : budget[p].state = "CLOSED" => analysis'[p].attempts = analysis[p].attempts
    BY <1>1
  <2> QED BY <1>2, <2>1, <2>2 DEF RunsGoOn
<1> QED BY <1>3, <1>4

(* A step that changes a status alone, to one that is not pending.         *)
LEMMA StatusGoesOn ==
  ASSUME AdmissionRows, NEW q \in Uploads, NEW s, s \notin {"QUEUED", "PROCESSING"} \/ s = analysis[q].status,
         analysis' = [analysis EXCEPT ![q].status = s], UNCHANGED <<day, budget>>
  PROVE  RunsGoOn
<1>1. \A p \in Uploads : p # q => analysis'[p] = analysis[p]
  BY DEF AdmissionRows
<1>2. analysis'[q].status = s /\ analysis'[q].attempts = analysis[q].attempts
  BY DEF AdmissionRows
<1> QED BY <1>1, <1>2 DEF RunsGoOn, IsPending

LEMMA RunsStep ==
  ASSUME AdmissionRows, \A p \in Uploads : RunInv(p), Places!Next
  PROVE  \/ RunsGoOn
         \/ Places!Midnight
         \/ \E q \in Uploads : \E n \in 1..MaxUpload : Places!Publish(q, n)
<1>1. ASSUME UNCHANGED <<day, analysis, budget>> PROVE RunsGoOn
  BY <1>1 DEF RunsGoOn
<1>2. ASSUME NEW q \in Uploads, Places!Reserve(q) \/ Places!Return(q) \/ Places!Expire(q) \/ Places!Purge(q)
      PROVE  RunsGoOn
  BY <1>1, <1>2 DEF Places!Reserve, Places!Return, Places!Expire, Places!Purge
<1>3. ASSUME NEW q \in Uploads, Places!Delete(q) PROVE RunsGoOn
  <2>1. /\ analysis' = [analysis EXCEPT ![q].status = IF q \in Places!Pending({q}) THEN "CANCELLED" ELSE @]
        /\ UNCHANGED <<day, budget>>
    BY <1>3 DEF Places!Delete
  <2>2. CASE q \in Places!Pending({q})
    <3>1. analysis' = [analysis EXCEPT ![q].status = "CANCELLED"]
      BY <2>1, <2>2
    <3> QED BY <2>1, <3>1, StatusGoesOn
  <2>3. CASE q \notin Places!Pending({q})
    <3>1. analysis' = [analysis EXCEPT ![q].status = analysis[q].status]
      BY <2>1, <2>3 DEF AdmissionRows
    <3> QED BY <2>1, <3>1, StatusGoesOn
  <2> QED BY <2>2, <2>3
<1>4. ASSUME NEW q \in Uploads, Places!Finish(q) PROVE RunsGoOn
  BY <1>4, StatusGoesOn DEF Places!Finish
<1>5. ASSUME NEW q \in Uploads, Places!Claim(q) PROVE RunsGoOn
  <2>1. PICK r : /\ Places!Becomes(q, r)
                 /\ r = IF analysis[q].attempts < Tries
                        THEN [analysis[q] EXCEPT !.status = "PROCESSING", !.slot = TRUE, !.attempts = @ + 1]
                        ELSE [analysis[q] EXCEPT !.status = "FAILED"]
    BY <1>5 DEF Places!Claim
  <2>2. analysis[q].status = "QUEUED" /\ UNCHANGED day
    BY <1>5 DEF Places!Claim
  <2>3. IsPending(analysis[q]) /\ budget[q].state # "CLOSED"
    BY <2>2 DEF IsPending, RunInv
  <2> QED BY <2>1, <2>2, <2>3, BecomesGoesOn
<1>6. ASSUME NEW q \in Uploads, Places!Cancel(q) PROVE RunsGoOn
  <2>1. PICK r : Places!Becomes(q, r) /\ r = [analysis[q] EXCEPT !.status = "CANCELLED"]
    BY <1>6 DEF Places!Cancel
  <2>2. analysis[q] \in Results /\ UNCHANGED day
    BY <1>6 DEF AdmissionRows, Results, Places!Cancel
  <2>3. r.status = "CANCELLED" /\ r.attempts = analysis[q].attempts
    <3>1. r = [status |-> "CANCELLED", attempts |-> analysis[q].attempts, slot |-> analysis[q].slot,
               spent |-> analysis[q].spent]
      BY <2>1, <2>2, ResultIs
    <3> QED BY <3>1
  <2>4. ~IsPending(r)
    BY <2>3 DEF IsPending
  <2> QED BY <2>1, <2>2, <2>3, <2>4, BecomesGoesOn
<1>7. ASSUME NEW q \in Uploads, Places!Reconcile(q) PROVE RunsGoOn
  <2>1. analysis' = [analysis EXCEPT ![q] = analysis[q]] /\ UNCHANGED day
    BY <1>7 DEF Places!Reconcile, AdmissionRows
  <2>2. Places!Becomes(q, analysis[q])
    BY <1>7, <2>1 DEF Places!Reconcile, Places!Becomes
  <2> QED BY <2>1, <2>2, BecomesGoesOn
<1>8. ASSUME NEW q \in Uploads, NEW elapsed \in AttemptSeconds..(AttemptSeconds + Overrun), Places!Stop(q, elapsed)
      PROVE  RunsGoOn
  <2>1. PICK s : s = IF analysis[q].status = "PROCESSING" THEN "QUEUED" ELSE analysis[q].status
    OBVIOUS
  <2>2. PICK r : /\ Places!Becomes(q, r)
                 /\ r = [analysis[q] EXCEPT !.slot = FALSE, !.spent = @ + elapsed, !.status = s]
    BY <1>8, <2>1 DEF Places!Stop
  <2>3. analysis[q] \in Results /\ UNCHANGED day
    BY <1>8 DEF AdmissionRows, Results, Places!Stop
  <2>4. r = [status |-> s, attempts |-> analysis[q].attempts, slot |-> FALSE, spent |-> analysis[q].spent + elapsed]
    BY <2>2, <2>3, ResultStops
  <2>5. r.status = s /\ r.attempts = analysis[q].attempts
    BY <2>4
  <2>6. IsPending(r) => IsPending(analysis[q])
    BY <2>1, <2>5 DEF IsPending
  <2> QED BY <2>2, <2>3, <2>5, <2>6, BecomesGoesOn
<1> QED BY <1>2, <1>3, <1>4, <1>5, <1>6, <1>7, <1>8 DEF Places!Next

(* A quota of pending runs.                                                *)
LEMMA PendingStep ==
  ASSUME AdmissionRows, \A p \in Uploads : RunInv(p), Places!PendingWithinQuota, Places!Next
  PROVE  Places!PendingWithinQuota'
<1> SUFFICES ASSUME NEW c \in Places!Scopes PROVE Places!Cardinality(Places!Pending(c.of)') <= c.pending
  BY DEF Places!PendingWithinQuota
<1>1. PICK S : S = c.of
  OBVIOUS
<1>2. S \in SUBSET Uploads /\ c.pending \in Nat
  BY <1>1, ScopeTypes
<1>3. Places!Cardinality(Places!Pending(S)) <= c.pending
  BY <1>1 DEF Places!PendingWithinQuota
<1>4. PICK T : T = Places!Pending(S)'
  OBVIOUS
<1>5. IsFiniteSet(Places!Pending(S)) /\ Places!Cardinality(Places!Pending(S)) \in Nat
  BY <1>2, SetsOf, FS_CardinalityType, PlacesCardinality
<1>6. CASE \A p \in S : IsPending(analysis'[p]) => IsPending(analysis[p])
  <2>1. T \in SUBSET Places!Pending(S)
    BY <1>4, <1>6 DEF Places!Pending, IsPending
  <2>2. Places!Cardinality(T) \in Nat /\ Places!Cardinality(T) <= Places!Cardinality(Places!Pending(S))
    BY <1>5, <2>1, FewerTake
  <2> QED BY <1>1, <1>2, <1>3, <1>4, <1>5, <2>2
<1>7. ASSUME NEW q \in Uploads, NEW n \in 1..MaxUpload, Places!Publish(q, n)
      PROVE  Places!Cardinality(Places!Pending(c.of)') <= c.pending
  <2>1. Places!RunAdmitted(q) /\ analysis' = [analysis EXCEPT ![q].status = "QUEUED"]
    BY <1>7 DEF Places!Publish
  <2>2. \A p \in Uploads : p # q => analysis'[p] = analysis[p]
    BY <2>1 DEF AdmissionRows
  <2>3. CASE q \in S
    <3>1. Places!Cardinality(Places!Pending(S)) < c.pending
      BY <1>1, <2>1, <2>3 DEF Places!RunAdmitted, Places!ScopesOf
    <3>2. T \in SUBSET (Places!Pending(S) \cup {q})
      BY <1>2, <1>4, <2>2 DEF Places!Pending
    <3>3. /\ IsFiniteSet(Places!Pending(S) \cup {q})
          /\ Places!Cardinality(Places!Pending(S) \cup {q}) <= Places!Cardinality(Places!Pending(S)) + 1
      <4>1. PICK P : P = Places!Pending(S)
        OBVIOUS
      <4>2. /\ IsFiniteSet(P) /\ Cardinality(P) \in Nat /\ IsFiniteSet(P \cup {q})
            /\ Cardinality(P \cup {q}) = Cardinality(P) \/ Cardinality(P \cup {q}) = Cardinality(P) + 1
        BY <1>5, <4>1, FS_AddElement, FS_CardinalityType
      <4>3. Cardinality(P \cup {q}) <= Cardinality(P) + 1
        BY <4>2
      <4> QED BY <4>1, <4>2, <4>3, PlacesCardinality
    <3>4. /\ Places!Cardinality(T) \in Nat
          /\ Places!Cardinality(Places!Pending(S) \cup {q}) \in Nat
          /\ Places!Cardinality(T) <= Places!Cardinality(Places!Pending(S) \cup {q})
      BY <3>2, <3>3, FewerTake
    <3> QED BY <1>1, <1>2, <1>4, <1>5, <3>1, <3>3, <3>4
  <2>4. CASE q \notin S
    <3>1. \A p \in S : analysis'[p] = analysis[p]
      BY <1>2, <2>2, <2>4
    <3> QED BY <1>6, <3>1
  <2> QED BY <2>3, <2>4
<1>8. CASE RunsGoOn
  BY <1>2, <1>6, <1>8 DEF RunsGoOn
<1>9. CASE Places!Midnight
  BY <1>6, <1>9 DEF Places!Midnight
<1> QED BY <1>7, <1>8, <1>9, RunsStep

-----------------------------------------------------------------------------
(* The seconds of a day.                                                   *)

ClosedToday(S) == {q \in S : budget[q].state = "CLOSED" /\ budget[q].day = day}
OpenIn(S) == {q \in S : budget[q].state = "OPEN"}
Charges(S) == [q \in S |-> budget[q].charged]
Attempts(S) == [q \in S |-> analysis[q].attempts]
Attempted(S) == Places!Total(Attempts(S), ClosedToday(S))

LEMMA DayIs ==
  ASSUME NEW S
  PROVE  /\ Places!Used(S) = Places!Total(Charges(S), ClosedToday(S))
         /\ Places!Reserved(S) = Places!Reservation * Places!Cardinality(OpenIn(S))
BY DEF Places!Used, Places!Reserved, Charges, ClosedToday, OpenIn

LEMMA DayTyped ==
  ASSUME AdmissionRows, NEW S \in SUBSET Uploads
  PROVE  /\ IsFiniteSet(S) /\ ClosedToday(S) \subseteq S /\ IsFiniteSet(ClosedToday(S))
         /\ OpenIn(S) \subseteq S /\ IsFiniteSet(OpenIn(S))
         /\ \A p \in ClosedToday(S) : Charges(S)[p] \in Nat /\ Attempts(S)[p] \in Nat
         /\ Places!Used(S) \in Nat /\ Places!Reserved(S) \in Nat /\ Attempted(S) \in Nat
         /\ Overrun * Attempted(S) \in Nat
<1>1. /\ IsFiniteSet(S) /\ ClosedToday(S) \subseteq S /\ OpenIn(S) \subseteq S
      /\ \A p \in S : Charges(S)[p] \in Nat /\ Attempts(S)[p] \in Nat
  <2>1. IsFiniteSet(S) /\ ClosedToday(S) \subseteq S /\ OpenIn(S) \subseteq S
    BY AdmissionNumbers, FS_Subset DEF ClosedToday, OpenIn
  <2>2. ASSUME NEW p \in S PROVE Charges(S)[p] \in Nat /\ Attempts(S)[p] \in Nat
    <3>1. budget[p].charged \in Nat /\ analysis[p].attempts \in Nat
      BY AdmissionNumbers DEF AdmissionRows
    <3> QED BY <3>1 DEF Charges, Attempts
  <2> QED BY <2>1, <2>2
<1>2. IsFiniteSet(ClosedToday(S)) /\ IsFiniteSet(OpenIn(S))
  BY <1>1, FS_Subset
<1>3. Places!Used(S) \in Nat
  BY <1>1, <1>2, DayIs, TotalTyped
<1>4. Attempted(S) \in Nat
  BY <1>1, <1>2, TotalTyped DEF Attempted
<1>5. Places!Reserved(S) \in Nat
  BY <1>2, DayIs, FewerTake, AdmissionNumbers
<1>6. Overrun * Attempted(S) \in Nat
  BY <1>4, AdmissionNumbers, TimesMore
<1> QED BY <1>1, <1>2, <1>3, <1>4, <1>5, <1>6

(* A step that settles and reserves nothing of S.                          *)
BudgetsStand(S) ==
  /\ UNCHANGED day
  /\ \A p \in S : /\ budget'[p] = budget[p]
                  /\ budget[p].state = "CLOSED" => analysis'[p].attempts = analysis[p].attempts

LEMMA DayStands ==
  ASSUME AdmissionRows, NEW S \in SUBSET Uploads, BudgetsStand(S)
  PROVE  /\ Places!Used(S)' = Places!Used(S) /\ Places!Reserved(S)' = Places!Reserved(S)
         /\ Attempted(S)' = Attempted(S)
<1>1. ClosedToday(S)' = ClosedToday(S) /\ OpenIn(S)' = OpenIn(S)
  BY DEF ClosedToday, OpenIn, BudgetsStand
<1>2. PICK F, G : F = Charges(S)' /\ G = Attempts(S)'
  OBVIOUS
<1>3. \A p \in ClosedToday(S) : F[p] = Charges(S)[p] /\ G[p] = Attempts(S)[p]
  BY <1>2 DEF BudgetsStand, ClosedToday, Charges, Attempts
<1>4. IsFiniteSet(ClosedToday(S))
  BY DayTyped
<1>5. /\ Places!Total(F, ClosedToday(S)) = Places!Total(Charges(S), ClosedToday(S))
      /\ Places!Total(G, ClosedToday(S)) = Places!Total(Attempts(S), ClosedToday(S))
  BY <1>3, <1>4, TotalSame
<1>6. Places!Used(S)' = Places!Total(F, ClosedToday(S))
  BY <1>1, <1>2 DEF Places!Used, Charges, ClosedToday
<1>7. Attempted(S)' = Places!Total(G, ClosedToday(S))
  BY <1>1, <1>2 DEF Attempted
<1>8. Places!Reserved(S)' = Places!Reserved(S)
  BY <1>1 DEF Places!Reserved, OpenIn
<1> QED BY <1>5, <1>6, <1>7, <1>8, DayIs DEF Attempted

(* A budget of S is settled: its reservation becomes its charge.           *)
LEMMA DaySettles ==
  ASSUME AdmissionRows, AdmissionRows', NEW S \in SUBSET Uploads, NEW q \in S,
         UNCHANGED day, budget[q].state = "OPEN",
         budget' = [budget EXCEPT
                       ![q] = [state |-> "CLOSED", day |-> day, charged |-> analysis'[q].spent]],
         \A p \in Uploads \ {q} : analysis'[p] = analysis[p]
  PROVE  /\ Places!Used(S)' = analysis'[q].spent + Places!Used(S)
         /\ Attempted(S)' = analysis'[q].attempts + Attempted(S)
         /\ Places!Reserved(S) = Places!Reserved(S)' + Places!Reservation
         /\ Places!Reserved(S)' \in Nat
<1>1. /\ budget'[q] = [state |-> "CLOSED", day |-> day, charged |-> analysis'[q].spent]
      /\ \A p \in Uploads \ {q} : budget'[p] = budget[p]
  BY DEF AdmissionRows
<1>2. PICK K : K = ClosedToday(S)
  OBVIOUS
<1>3. ClosedToday(S)' = K \cup {q} /\ q \notin K /\ K \subseteq S /\ IsFiniteSet(K)
  <2>1. q \notin K /\ K \subseteq S /\ IsFiniteSet(K)
    BY <1>2, DayTyped DEF ClosedToday
  <2>2. q \in ClosedToday(S)'
    BY <1>1 DEF ClosedToday
  <2>3. \A p \in S \ {q} : p \in ClosedToday(S)' <=> p \in K
    BY <1>1, <1>2 DEF ClosedToday
  <2>4. ClosedToday(S)' \subseteq S
    BY DEF ClosedToday
  <2> QED BY <2>1, <2>2, <2>3, <2>4
<1>4. PICK F, G : F = Charges(S)' /\ G = Attempts(S)'
  OBVIOUS
<1>5. /\ F[q] = analysis'[q].spent /\ G[q] = analysis'[q].attempts
      /\ F[q] \in Nat /\ G[q] \in Nat
  <2>1. F[q] = analysis'[q].spent /\ G[q] = analysis'[q].attempts
    BY <1>1, <1>4 DEF Charges, Attempts
  <2>2. analysis'[q].spent \in Nat /\ analysis'[q].attempts \in Nat
    BY AdmissionNumbers DEF AdmissionRows
  <2> QED BY <2>1, <2>2
<1>6. \A p \in K : /\ F[p] \in Nat /\ Charges(S)[p] = F[p]
                   /\ G[p] \in Nat /\ Attempts(S)[p] = G[p]
  <2> SUFFICES ASSUME NEW p \in K
               PROVE  /\ F[p] \in Nat /\ Charges(S)[p] = F[p]
                      /\ G[p] \in Nat /\ Attempts(S)[p] = G[p]
    OBVIOUS
  <2>1. p \in S /\ p \in Uploads \ {q}
    BY <1>3
  <2>2. Charges(S)[p] = F[p] /\ Attempts(S)[p] = G[p]
    BY <1>1, <1>4, <2>1 DEF Charges, Attempts
  <2> QED BY <1>2, <2>2, DayTyped
<1>7. /\ Places!Total(F, K \cup {q}) = F[q] + Places!Total(Charges(S), K)
      /\ Places!Total(G, K \cup {q}) = G[q] + Places!Total(Attempts(S), K)
  BY <1>3, <1>5, <1>6, TotalWith
<1>8. Places!Used(S)' = Places!Total(F, K \cup {q}) /\ Attempted(S)' = Places!Total(G, K \cup {q})
  BY <1>3, <1>4 DEF Places!Used, Charges, ClosedToday, Attempted
<1>9. PICK U : U = OpenIn(S) \ {q}
  OBVIOUS
<1>10. OpenIn(S) = U \cup {q} /\ q \notin U /\ IsFiniteSet(U)
  <2>1. q \in OpenIn(S)
    BY DEF OpenIn
  <2> QED BY <1>9, <2>1, DayTyped, FS_RemoveElement
<1>11. OpenIn(S)' = U
  <2>1. q \notin OpenIn(S)'
    BY <1>1 DEF OpenIn
  <2>2. \A p \in S \ {q} : p \in OpenIn(S)' <=> p \in U
    BY <1>1, <1>9 DEF OpenIn
  <2>3. OpenIn(S)' \subseteq S /\ U \subseteq S
    BY <1>9 DEF OpenIn
  <2> QED BY <1>10, <2>1, <2>2, <2>3
<1>12. /\ Places!Reservation * Places!Cardinality(U \cup {q})
            = Places!Reservation * Places!Cardinality(U) + Places!Reservation
       /\ Places!Reservation * Places!Cardinality(U) \in Nat
  BY <1>10, OneMoreTakes, FewerTake, AdmissionNumbers
<1>13. Places!Reserved(S)' = Places!Reservation * Places!Cardinality(U)
  BY <1>11 DEF Places!Reserved, OpenIn
<1> QED BY <1>2, <1>5, <1>7, <1>8, <1>10, <1>12, <1>13, DayIs DEF Attempted

(* A budget of S is opened: one reservation more.                          *)
LEMMA DayReserves ==
  ASSUME AdmissionRows, NEW S \in SUBSET Uploads, NEW q \in S, budget[q].state = "none",
         budget' = [budget EXCEPT ![q].state = "OPEN"], UNCHANGED day,
         NEW s, analysis' = [analysis EXCEPT ![q].status = s]
  PROVE  /\ Places!Used(S)' = Places!Used(S) /\ Attempted(S)' = Attempted(S)
         /\ Places!Reserved(S)' = Places!Reserved(S) + Places!Reservation
<1>1. /\ budget'[q].state = "OPEN" /\ budget'[q].charged = budget[q].charged
      /\ \A p \in Uploads \ {q} : budget'[p] = budget[p]
      /\ \A p \in Uploads : analysis'[p].attempts = analysis[p].attempts
  BY DEF AdmissionRows
<1>2. ClosedToday(S)' = ClosedToday(S) /\ q \notin ClosedToday(S) /\ q \notin OpenIn(S)
  <2>1. q \notin ClosedToday(S)' /\ q \notin ClosedToday(S) /\ q \notin OpenIn(S)
    BY <1>1 DEF ClosedToday, OpenIn
  <2>2. \A p \in S \ {q} : p \in ClosedToday(S)' <=> p \in ClosedToday(S)
    BY <1>1 DEF ClosedToday
  <2>3. ClosedToday(S)' \subseteq S /\ ClosedToday(S) \subseteq S
    BY DEF ClosedToday
  <2> QED BY <2>1, <2>2, <2>3
<1>3. PICK F, G : F = Charges(S)' /\ G = Attempts(S)'
  OBVIOUS
<1>4. \A p \in ClosedToday(S) : F[p] = Charges(S)[p] /\ G[p] = Attempts(S)[p]
  <2> SUFFICES ASSUME NEW p \in ClosedToday(S) PROVE F[p] = Charges(S)[p] /\ G[p] = Attempts(S)[p]
    OBVIOUS
  <2>1. p \in S /\ p \in Uploads \ {q}
    BY <1>2 DEF ClosedToday
  <2> QED BY <1>1, <1>3, <2>1 DEF Charges, Attempts
<1>5. IsFiniteSet(ClosedToday(S)) /\ IsFiniteSet(OpenIn(S))
  BY DayTyped
<1>6. /\ Places!Total(F, ClosedToday(S)) = Places!Total(Charges(S), ClosedToday(S))
      /\ Places!Total(G, ClosedToday(S)) = Places!Total(Attempts(S), ClosedToday(S))
  BY <1>4, <1>5, TotalSame
<1>7. Places!Used(S)' = Places!Total(F, ClosedToday(S)) /\ Attempted(S)' = Places!Total(G, ClosedToday(S))
  BY <1>2, <1>3 DEF Places!Used, Charges, ClosedToday, Attempted
<1>8. OpenIn(S)' = OpenIn(S) \cup {q}
  <2>1. q \in OpenIn(S)'
    BY <1>1 DEF OpenIn
  <2>2. \A p \in S \ {q} : p \in OpenIn(S)' <=> p \in OpenIn(S)
    BY <1>1 DEF OpenIn
  <2>3. OpenIn(S)' \subseteq S /\ OpenIn(S) \subseteq S
    BY DEF OpenIn
  <2> QED BY <2>1, <2>2, <2>3
<1>9. Places!Reservation * Places!Cardinality(OpenIn(S) \cup {q})
        = Places!Reservation * Places!Cardinality(OpenIn(S)) + Places!Reservation
  BY <1>2, <1>5, OneMoreTakes, AdmissionNumbers
<1>10. Places!Reserved(S)' = Places!Reservation * Places!Cardinality(OpenIn(S) \cup {q})
  BY <1>8 DEF Places!Reserved, OpenIn
<1> QED BY <1>6, <1>7, <1>9, <1>10, DayIs DEF Attempted

(* Within the limit, but for the clean-up of the attempts charged.         *)
DayHolds(c) ==
  /\ Places!Reserved(c.of) <= c.seconds
  /\ Places!Used(c.of) + Places!Reserved(c.of) <= c.seconds + Overrun * Attempted(c.of)

LEMMA DayHoldsIs ==
  /\ ReservedFits /\ Places!DayWithinBudget <=> \A c \in Places!Scopes : DayHolds(c)
  /\ (\A c \in Places!Scopes : DayHolds(c)') => ReservedFits' /\ Places!DayWithinBudget'
BY DEF ReservedFits, Places!DayWithinBudget, DayHolds, Attempted, Attempts, ClosedToday

(* What was spent is no more than was reserved for it, and the clean-up.   *)
LEMMA SpentWithinReservation ==
  ASSUME NEW n \in 0..Tries, NEW s \in Nat, s <= Longest * n
  PROVE  s <= Places!Reservation + Overrun * n /\ Overrun * n \in Nat
<1>1. n \in Nat /\ n <= Tries
  BY AdmissionNumbers
<1>2. AttemptSeconds * n <= AttemptSeconds * Tries /\ AttemptSeconds * n \in Nat
  BY <1>1, AdmissionNumbers, TimesMore
<1>3. Overrun * n \in Nat
  BY <1>1, AdmissionNumbers, TimesMore
<1>4. Longest * n = AttemptSeconds * n + Overrun * n
  BY <1>1, AdmissionNumbers DEF Longest
<1>5. PICK x, y : x = AttemptSeconds * n /\ y = Overrun * n
  OBVIOUS
<1>6. s <= x + y /\ x <= Places!Reservation /\ x \in Nat /\ y \in Nat
  BY <1>2, <1>3, <1>4, <1>5, AdmissionNumbers
<1>7. s <= Places!Reservation + y
  BY <1>6, AdmissionNumbers
<1> QED BY <1>3, <1>5, <1>7

LEMMA DayStep ==
  ASSUME AdmissionRows, AdmissionRows', \A p \in Uploads : RunInv(p), \A p \in Uploads : RunInv(p)',
         NEW c \in Places!Scopes, DayHolds(c), Places!Next
  PROVE  DayHolds(c)'
<1>1. PICK S : S = c.of
  OBVIOUS
<1>2. S \in SUBSET Uploads /\ c.seconds \in Nat
  BY <1>1, ScopeTypes
<1>3. PICK u, r, a : u = Places!Used(S) /\ r = Places!Reserved(S) /\ a = Attempted(S)
  OBVIOUS
<1>4. PICK u1, r1, a1 : u1 = Places!Used(S)' /\ r1 = Places!Reserved(S)' /\ a1 = Attempted(S)'
  OBVIOUS
<1>5. /\ u \in Nat /\ r \in Nat /\ a \in Nat /\ Overrun * a \in Nat
      /\ r <= c.seconds /\ u + r <= c.seconds + Overrun * a
  BY <1>1, <1>2, <1>3, DayTyped DEF DayHolds
<1>6. SUFFICES r1 <= c.seconds /\ u1 + r1 <= c.seconds + Overrun * a1
  <2>1. /\ DayHolds(c)' <=> /\ Places!Reserved(S)' <= c.seconds
                            /\ Places!Used(S)' + Places!Reserved(S)' <= c.seconds + Overrun * Attempted(S)'
    BY <1>1 DEF DayHolds
  <2> QED BY <1>4, <2>1
<1>7. ASSUME BudgetsStand(S) PROVE r1 <= c.seconds /\ u1 + r1 <= c.seconds + Overrun * a1
  <2>1. u1 = u /\ r1 = r /\ a1 = a
    BY <1>2, <1>3, <1>4, <1>7, DayStands
  <2> QED BY <1>5, <2>1
<1>8. ASSUME NEW q \in S, UNCHANGED day, budget[q].state = "OPEN",
             budget' = [budget EXCEPT
                           ![q] = [state |-> "CLOSED", day |-> day, charged |-> analysis'[q].spent]],
             \A p \in Uploads \ {q} : analysis'[p] = analysis[p]
      PROVE  r1 <= c.seconds /\ u1 + r1 <= c.seconds + Overrun * a1
  <2>1. PICK s, n : s = analysis'[q].spent /\ n = analysis'[q].attempts
    OBVIOUS
  <2>2. u1 = s + u /\ a1 = n + a /\ r = r1 + Places!Reservation /\ r1 \in Nat
    BY <1>2, <1>3, <1>4, <1>8, <2>1, DaySettles
  <2>3. n \in 0..Tries /\ s \in Nat /\ s <= Longest * n
    <3>1. RunInv(q)'
      BY <1>2
    <3>2. analysis'[q].spent <= Longest * analysis'[q].attempts
      BY <3>1 DEF RunInv, Longest
    <3>3. n \in 0..Tries /\ s \in Nat
      BY <1>2, <2>1 DEF AdmissionRows
    <3> QED BY <2>1, <3>2, <3>3
  <2>4. s <= Places!Reservation + Overrun * n /\ Overrun * n \in Nat
    BY <2>3, SpentWithinReservation
  <2>5. Overrun * a1 = Overrun * n + Overrun * a
    BY <1>5, <2>2, <2>3, AdmissionNumbers
  <2>6. PICK x, y, z : x = Overrun * n /\ y = Overrun * a /\ z = Overrun * a1
    OBVIOUS
  <2>7. /\ z = x + y /\ x \in Nat /\ y \in Nat /\ s <= Places!Reservation + x
        /\ u + r <= c.seconds + y
    BY <1>5, <2>4, <2>5, <2>6
  <2>8. r1 <= c.seconds /\ u1 + r1 <= c.seconds + z
    BY <1>2, <1>5, <2>2, <2>3, <2>7, AdmissionNumbers
  <2> QED BY <2>6, <2>8
<1>9. CASE RunsGoOn
  <2>1. CASE /\ UNCHANGED budget
             /\ \A p \in Uploads :
                   budget[p].state = "CLOSED" => analysis'[p].attempts = analysis[p].attempts
    <3>1. BudgetsStand(S)
      BY <1>2, <1>9, <2>1 DEF BudgetsStand, RunsGoOn
    <3> QED BY <1>7, <3>1
  <2>2. ASSUME NEW q \in Uploads, budget[q].state = "OPEN",
               budget' = [budget EXCEPT
                             ![q] = [state |-> "CLOSED", day |-> day, charged |-> analysis'[q].spent]],
               \A p \in Uploads \ {q} : analysis'[p] = analysis[p]
        PROVE  r1 <= c.seconds /\ u1 + r1 <= c.seconds + Overrun * a1
    <3>1. UNCHANGED day
      BY <1>9 DEF RunsGoOn
    <3>2. CASE q \in S
      BY <1>8, <2>2, <3>1, <3>2
    <3>3. CASE q \notin S
      <4>1. \A p \in S : budget'[p] = budget[p] /\ analysis'[p] = analysis[p]
        BY <1>2, <2>2, <3>3 DEF AdmissionRows
      <4>2. BudgetsStand(S)
        BY <3>1, <4>1 DEF BudgetsStand
      <4> QED BY <1>7, <4>2
    <3> QED BY <3>2, <3>3
  <2> QED BY <1>9, <2>1, <2>2 DEF RunsGoOn
<1>10. CASE Places!Midnight
  <2>1. day' = day + 1 /\ UNCHANGED <<analysis, budget>>
    BY <1>10 DEF Places!Midnight
  <2>2. ClosedToday(S)' = {}
    <3>1. \A p \in S : budget'[p].day # day'
      <4> SUFFICES ASSUME NEW p \in S PROVE budget'[p].day # day'
        OBVIOUS
      <4>1. budget[p].day <= day /\ budget[p].day \in Nat /\ day \in Nat
        BY <1>2 DEF RunInv, AdmissionRows
      <4> QED BY <2>1, <4>1
    <3> QED BY <3>1 DEF ClosedToday
  <2>3. u1 = 0 /\ a1 = 0
    <3>1. PICK F, G : F = Charges(S)' /\ G = Attempts(S)'
      OBVIOUS
    <3>2. Places!Used(S)' = Places!Total(F, {}) /\ Attempted(S)' = Places!Total(G, {})
      BY <2>2, <3>1 DEF Places!Used, Charges, ClosedToday, Attempted
    <3> QED BY <1>4, <3>2, TotalOfNone
  <2>4. r1 = r
    BY <1>3, <1>4, <2>1 DEF Places!Reserved
  <2>5. Overrun * 0 = 0
    BY AdmissionNumbers
  <2> QED BY <1>2, <1>5, <2>3, <2>4, <2>5
<1>11. ASSUME NEW q \in Uploads, NEW n \in 1..MaxUpload, Places!Publish(q, n)
       PROVE  r1 <= c.seconds /\ u1 + r1 <= c.seconds + Overrun * a1
  <2>1. /\ stored[q] = "none" /\ Places!DayHasRoom(q)
        /\ analysis' = [analysis EXCEPT ![q].status = "QUEUED"]
        /\ budget' = [budget EXCEPT ![q].state = "OPEN"] /\ UNCHANGED day
    BY <1>11 DEF Places!Publish, Places!ReserveRun
  <2>2. CASE q \in S
    <3>1. budget[q].state = "none"
      BY <2>1 DEF RunInv
    <3>2. u1 = u /\ a1 = a /\ r1 = r + Places!Reservation
      BY <1>2, <1>3, <1>4, <2>1, <2>2, <3>1, DayReserves
    <3>3. u + r + Places!Reservation <= c.seconds
      BY <1>1, <1>3, <2>1, <2>2 DEF Places!DayHasRoom, Places!ScopesOf
    <3>4. PICK y : y = Overrun * a
      OBVIOUS
    <3>5. r1 <= c.seconds /\ u1 + r1 <= c.seconds + y
      BY <1>2, <1>5, <3>2, <3>3, <3>4, AdmissionNumbers
    <3> QED BY <3>2, <3>4, <3>5
  <2>3. CASE q \notin S
    <3>1. \A p \in S : budget'[p] = budget[p] /\ analysis'[p] = analysis[p]
      BY <1>2, <2>1, <2>3 DEF AdmissionRows
    <3>2. BudgetsStand(S)
      BY <2>1, <3>1 DEF BudgetsStand
    <3> QED BY <1>7, <3>2
  <2> QED BY <2>2, <2>3
<1> QED BY <1>9, <1>10, <1>11, RunsStep

-----------------------------------------------------------------------------
LEMMA AdmissionStutters ==
  ASSUME AdmissionInv, UNCHANGED Places!vars PROVE AdmissionInv'
<1> USE DEF Places!vars, AdmissionInv
<1>1. AdmissionRows' /\ \A p \in Uploads : RunInv(p)'
  BY DEF AdmissionRows, RunInv
<1>2. Places!AdmittedFits'
  BY DEF Places!AdmittedFits, Places!Stored, Places!Unpurged, Places!Live
<1>3. Places!PendingWithinQuota'
  BY DEF Places!PendingWithinQuota, Places!Pending
<1>4. ReservedFits' /\ Places!DayWithinBudget'
  BY DEF ReservedFits, Places!DayWithinBudget, Places!Used, Places!Reserved
<1> QED BY <1>1, <1>2, <1>3, <1>4

LEMMA AdmissionStep == AdmissionInv /\ [Places!Next]_(Places!vars) => AdmissionInv'
<1> SUFFICES ASSUME AdmissionInv, Places!Next PROVE AdmissionInv'
  BY AdmissionStutters
<1> USE DEF AdmissionInv
<1>1. AdmissionRows' /\ \A p \in Uploads : RunInv(p)'
  BY AdmissionRowsStep
<1>2. Places!AdmittedFits'
  BY FitsStep
<1>3. Places!PendingWithinQuota'
  BY PendingStep
<1>4. ASSUME NEW c \in Places!Scopes PROVE DayHolds(c)'
  <2>1. DayHolds(c)
    BY DayHoldsIs
  <2> QED BY <1>1, <2>1, DayStep
<1>5. ReservedFits' /\ Places!DayWithinBudget'
  BY <1>4, DayHoldsIs
<1> QED BY <1>1, <1>2, <1>3, <1>5

(* What is admitted: the rows, what a run has spent of its reservation,    *)
(* what the open reservations leave of any day, and the quotas of storage, *)
(* of pending runs and of the day's seconds.                               *)
THEOREM AdmissionInvHolds == Places!Spec => []AdmissionInv
<1>1. Places!Init => AdmissionInv
  BY AdmissionInit
<1>2. AdmissionInv /\ [Places!Next]_(Places!vars) => AdmissionInv'
  BY AdmissionStep
<1> QED BY <1>1, <1>2, PTL DEF Places!Spec

LEMMA AdmissionsAreSound == AdmissionInv => Places!AdmissionsSound
<1> SUFFICES ASSUME AdmissionInv PROVE Places!AdmissionsSound
  OBVIOUS
<1>1. Places!TypeOK
  BY DEF AdmissionInv, AdmissionRows, Statuses, Places!TypeOK
<1>2. Places!HeldUntilStopped
  BY DEF AdmissionInv, RunInv, Places!HeldUntilStopped
<1> QED BY <1>1, <1>2 DEF AdmissionInv, Places!AdmissionsSound

(* However uploads are reserved, published, expire and are given back,     *)
(* and however their runs are claimed, stopped, cancelled and settled, on  *)
(* one day or across midnight: every admitted upload finds its room within *)
(* its owner's storage and everybody's, the pending runs stay within their *)
(* quotas, a day's work stays within its seconds but for the clean-up of   *)
(* the attempts charged, and no reservation is given back while its        *)
(* decoder may run (check_capacity, admit_run, check_daily_capacity,       *)
(* reserve_run, settle_run).                                               *)
THEOREM AdmissionsSoundHolds == Places!Spec => []Places!AdmissionsSound /\ []AdmissionsSound
<1>1. Places!AdmissionsSound => AdmissionsSound
  BY DEF AdmissionsSound
<1> QED BY <1>1, AdmissionInvHolds, AdmissionsAreSound, PTL
=============================================================================
