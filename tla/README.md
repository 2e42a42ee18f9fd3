# DojoPulse in TLA+

Specifications, model checks and proofs kept beside the DojoPulse source. DojoPulse is a
Django application that analyses recordings of fighting-game matches. An owner uploads a
recording, an analysis run is queued for it, a worker decodes the video in an isolated
container, and the owner gets a report he can withdraw at any time together with everything
derived from it. What is hard in it is not the analysis but the durable state around it:
leases, fences, physical capacity that survives crashes, an outbox to a task queue that
delivers twice, remote calls that may have happened without an answer, journals that must
survive a restored backup.

Paths below are relative to `src/`.

## Inventory

| component | state | operations | interacts with | hard part | what makes it correct |
|---|---|---|---|---|---|
| job lifecycle (`backend/core/jobs.py`) | `AnalysisRun`, `ExecutionSlot`, `RunDispatch`, `RunBudget` | enqueue, claim, heartbeat, begin, finish, cancel, acknowledge, reconcile | everything that runs or revokes work | interleaving of transactions of many processes, lease expiry, requeue | capacity bounds physical work; only the current attempt publishes; what is revoked stays revoked |
| run budgets (`budgets.py`) | `RunBudget` amounts by day | check, reserve, settle | job lifecycle | day rollover, refunds while work goes on | no early refund; no more reserved or charged than the limits |
| local workers (`process_runs`, `parser.py`) | the process, its decoder | batch, one attempt, cleanup | job lifecycle, storage | crash anywhere, unconfirmed cleanup, double delivery | one process per attempt; a slot is released on a confirmed stop only |
| hosted dispatch (`dispatch.py`, `cloud.py`, `cloud_api.py`) | outbox rows, queue tasks, executions of the runtime | relay, launch, receipts, reconcile | job lifecycle, the queue, the runtime | lost answers, duplicates, answers of an earlier generation | never a second live execution; every answer goes to its own generation |
| cloud execution journal (`cloud_execution.py`, `cloud_journal.py`, `batch_preview.py`) | an external hash-chained log with a checkpoint | plan, launch, stop, reconcile | job lifecycle, previews | compare-and-swap, crash between database and log | a revoked run is never launched; capacity counts what the database forgot |
| preview write ledger (`preview_ledger.py`, `preview_writes.py`) | signed intents, file states, quota holds | plan, upload, publish, revoke, clean up | previews, storage | late receipts, crash between event and checkpoint | an intent moves forward only; nothing unpublished stays without an intent |
| previews (`previews.py`, `preview_sandbox.py`) | `RecordingPreview` | enqueue, start, complete, revoke, purge, reconcile | job lifecycle, ledger | reaper against live coordinator | READY only for the current fence and with all its files |
| resumable uploads (`resumable.py`, `upload_api.py`) | `UploadSession`, storage session | begin, chunk, complete, verify, cancel, reconcile | storage, previews | stale verifiers, duplicates, ambiguous begin | one canonical recording per digest; verified by the current fence |
| admission (`security.py`) | `UploadAdmission`, `RequestBudget`, the capacity mutex | admit, consume | uploads, jobs | limits under concurrency | a limit is never exceeded |
| evidence and account deletion (`storage.py`) | tombstones | delete_asset, delete_account, purge | everything derived | partial failure of the remote purge | nothing derived remains or reappears |
| consents (`consents.py`) | `ConsentReceipt`, `Profile` | grant, withdraw | everything | withdrawal against running work | no processing without consent |
| control journal, recovery (`control_journal.py`, `recovery.py`) | a journal outside the database | record intent, replay | deletion, consent | crash between file and checkpoint; restored database | after a restore every recorded erasure holds |
| match sync (`match_ingestion.py`, `match_worker.py`, `ingestion/`) | `MatchSync`, `Match` | start, claim, commit page, fail | consents | stale worker, repeated page | each match once, in cursor order |
| companion (`companion.py`, `companion/`) | devices, pairings, client receipts | pair, redeem, revoke, sync | uploads, consents | revocation against use, client crash | a revoked device does nothing |
| accounts (`accounts.py`) | challenges, session epochs | issue, consume, change | mail directory | replay of a challenge | a challenge works once and for the state it was issued for |
| recordings, evidence | events, reviews | list, review, serve | deletion | stale derived data | served only while live |
| knowledge, pilots, datasets | proposals, studies, frozen snapshots | propose, review, publish, freeze, seal, revoke | each other, deletion | dependent invalidation | what is published was reviewed as it is and every dependency is live |
| practice loops, comparisons, player model | plans, evaluations, contributions | create, record, evaluate, invalidate | events | evidence deleted after evaluation | no conclusion from withdrawn evidence |
| recognition (`recognition.py`) | detector versions, receipts, reviews | register, run, review, activate, disable | datasets, accounts | drift, stale snapshots, replaced versions | one active version, approved by both reviewers on a report that still stands |
| analysis (`analysis/`) | none (pure) | rules, statistics, bundles | workers | numeric edges | agree with a reference definition |
| operations, HTTP API, frontend, infrastructure | none of their own | | | | |

`PROJECT.json` lists the components with their files and status, and the hazards of the
code, each at its line, with the properties that cover it or the reason why none does.

## What is modelled

### `RunJobs`: the transactions

One operator per transaction of `jobs.py`, with the parts of `budgets.py`, `consents.py` and
`storage.py` that write the same rows. The module has no specification of its own: it
is the database, and the two modules below are the processes that use it.

| TLA+ | code |
|---|---|
| `run[r]` | `AnalysisRun`: `status`, `attempts`, `fence`, `lease_until` as `lease`, `result` as the fence of the attempt that wrote it |
| `slot[r][f]` | `ExecutionSlot` of run `r` and fence `f` (`UNIQUE (run, fence)`): open while `released_at` is null; `started_at`, `stop_requested_at` |
| `budget[r]` | `RunBudget.state`, `"none"` without a row |
| `dispatch[r]` | `RunDispatch`: `status`, `generation`, `lease_until`, `attempts`, the attempt behind `operation_name` |
| `asset[a]`, `owner[o]` | `deleted_at` and `retain_until`; `is_active`, `deleted_at` and `processing_withdrawn_at` |

- Atomicity. `locked_run` takes the owner row and then the `capacity` mutex before it reads
  the run, so transactions that use it are serial. A function of several transactions
  (`reconcile_runs`) is several actions; the unlocked list it reads first is modelled by
  actions that are enabled for runs that have moved on.
- Time. No clock: a lease is live until an environment step expires it. Every writer of
  `lease_until` takes the minimum with `deadline_at`, so a passed deadline is a passed lease.
- `REVIEW_REQUIRED`, `PARTIAL` and `COMPLETED` are one status, because no transaction tells them apart. The preview pipeline, with `PREVIEW_READY`, is in `PreviewWrites`.
- `JobInit` allows runs that were queued before the migrations that added the outbox and the
  budgets: those are the rows for which `get_or_create` and the reservation inside
  `claim_run` exist.
- `claim_run` may find the daily budget used up: `ClaimUnbudgeted` is enabled for every run
  without a reservation, whatever was reserved before. The amounts are in `Admissions`.

Operators named `...Fault` are defects a change of the code could bring in. The entries of
`mutants` in `PROJECT.json` name them: each property is shown to fail when the faulty operator
takes the place of the real one.

### `FencedExecution`: what the job lifecycle promises

An abstract specification of eight actions without rows, leases or processes: a token is
granted once, to a run whose owner holds no other, at most `Limit` are held, a result is
published by a token that is held, what is revoked never returns. `LocalWorkers` implements
it (`ImplementsFencedExecution`) with open slots as held tokens.

### `LocalWorkers`: process_runs and its decoders

`worker[w]` is the place of a process in `process_one` with the fence it was given;
`decoder` is the set of attempts whose isolated decoder may be running. No transaction can
see `decoder`: it is the physical work that the slots are there to bound, and it
outlives its process, its lease and its run. Pollers claim (`process_batch`); dispatched
workers get one exact attempt (`--run-id --fence`), also one that another process already
has. Between any two steps the owner cancels, deletes or withdraws, the lease expires, the
process dies, `purge_expired` deletes or the operator confirms a stop. `BeginDenied` shows
a path a reader might miss: a refused `begin_execution` returns without an acknowledgement,
so the slot waits for the operator.

### `CloudDispatch`: the hosted path

`dispatch_pending` is three actions (lease the row, call the queue, record the answer),
`launch_dispatch` five (claim with LAUNCHING, call the runtime, get or miss its answer,
record it, release after a rejection), `reconcile_cloud` four per slot (list, read the row,
name, release). `task` holds what the queue took. A task is delivered any number of times
until the queue gives it up (`spent`): its `retry_config` (`main.tf:103-109` of
`infrastructure/google-cloud`) ends after eight deliveries or an hour, and a delivery that finds no
capacity is one of them (503, `cloud_api.py:93`). The name of a task stays taken, so `cloud.py:115`
reports a second creation as a success and nothing delivers it again. `remote[r][f]` is the life of the execution asked for by
attempt `f`, including a call that is in flight after its caller gave up. The queue and the
runtime are external; they are modelled by the answers `cloud.py` distinguishes
(accepted, `CloudFailure` retryable, ambiguous or rejected). The execution runs the same
`BeginExecution` and `FinishRun`, and ends without releasing its slot, as `process_one` does
for a slot that is not LOCAL.

All slots are CLOUD_RUN slots. The Batch runtime of previews is in `ExecutionJournal`.

### `ResumableUpload`: upload sessions and physical erasure

`session[s]` joins the `UploadSession` row with the `ReplayAsset` it reserves; `store[s]` is
what the object store really has, the object and the upload capability, which no transaction
sees. A worker is any process in this code, and its record is what the process holds in local
variables: the list entry of a sweep as it was listed (`seen`, `gone`), the asset as
`delete_asset` loaded it (`link`, `deadline`).

- `begin` is the reservation, the remote call and its receipt; a lost answer leaves a minted
  capability that only its deadline ends.
- `verify` is the claim, the reading, and the publication or the settlement of a failure.
- `delete_asset` is its transaction, the cancellation of the upload, the sweep of the prefix and
  the two final updates, which commit one after the other. Every remote step may fail and any
  process may die between two steps.
- The fence is the identity of the worker whose claim was the last to increment the
  counter. The code compares it for equality with a token only, and every other increment takes
  it from all workers, so the counter's value adds nothing.
- A sweep follows one entry of its list. A list of several is several workers with old entries.
- `asked` is a history variable: the sessions whose deletion the owner or the retention asked for.
- Deleting a match and revoking a device revoke sessions as `WithdrawProcessing` does.
  `delete_account` goes on to delete every asset in a loop; here that is `PurgeTombstone`, which
  any process may do at any time after the account's transaction.
- With LOCAL storage a process that dies in `begin` after a purge leaves an empty file, so
  `PurgedMeansGone` speaks of received bytes.

### `CloudLog`, `AtomicRegister`: the shared log

`CloudLog` is the compare-and-swap of `cloud_journal.py`: list the bucket, reduce what was
read, compute the next record, create the object after the last one only if it is absent. A
response may be lost while the creation still happens later, a collision starts the writer
again, and after `Tries` collisions it gives up. What a user of the journal may rely on is
`AtomicRegister`: one value that one complete mutation at a time moves. `CloudLog` is shown to
implement it, which is why every other module treats a journal update as one step.

### `ExecutionJournal`: Batch previews

`row[a]` is the reduced journal row of an attempt, `vm[a]` the Batch job and its machine,
which nobody but the provider knows, and `launcher`, `canceller` and `pass` are the three
kinds of process that race: a dispatch that plans, submits and creates; a cancellation that
writes the tombstone before the rows and the rows before SQL; and the maintenance pass that
inspects, deletes and proves. Each keeps in its record what it has read. Outages of the
journal or of the provider interrupt them anywhere; a cancellation that is interrupted rolls
back in SQL only. `Restore` replaces SQL by an empty one while the journal stands.

### `PreviewWrites`: the ledger of one preview

The rows of the preview and its run, one ledger intent per attempt with the state of each
file, the upload sessions and the objects of the provider. A coordinator uploads two files one
by one and writes INITIALIZING before it asks for a session, so that a lost answer is known to
be unknown. Revocation marks intents before SQL; cleanup cancels sessions, erases and frees the
bytes only if no file is unknown. `Served` is what `preview_view` shows.

`Reap` is the reaper of LOCAL coordinators (`previews.py:321-362`) for a recording in cloud
storage. It removes the decoder's container, fails the run, revokes and releases the slot; the
coordinator's process is not touched. When that stands between its heartbeat and its plan, it
writes an OPEN intent although the slot is gone and the preview perhaps purged. The next read of
the row stops it, so that no session and no object follows: `PurgedMeansGone` says so. The
late intent keeps its bytes reserved until the preview is revoked again. The variant of the reaper
for a recording in local storage, which removes a directory (`previews.py:353-361`), is left out.
`Revoke` has the three callers of `previews.revoke` apart: a cancellation of the run, which leaves the preview
alone; deletion and withdrawal, which do both; and the sweep, which withdraws the preview whatever
its run is doing.

### `FileJournals`: journals as files

Both journals write a temporary file, rename it, and do the same for a checkpoint, under a
lock; the process may die between any two of these steps, and the database transaction that
asked for the record may commit or roll back. They differ in one line: the ledger's checkpoint
counts its own events, the control journal signs whatever the directory holds. That is why a
crash between the two renames is harmless for one of them and makes the other unreadable
until an operator acts, which the model shows and `Readable` states.

### `Accounts`

The links by mail, the address, the password and the sessions of one account. What the code
does outside the owner's lock is a step of its own: the credentials read before a
sign-in, the address read before a link is asked for, the session middleware, the mail file that
registration writes before it commits. `wanted`, `cut` and `servedCut` are history variables.

`Request` is the check of the middleware and says no more than that a request is let through. The
view runs later and under no common lock, so a request that was let through before its session
ended may be answered afterwards. What views write they write in the transactions modelled as
actions of their own, which no session guards: they are possible in the model whenever the code of
the transaction itself allows them. The hours of `HourPasses` are those of the clock
(`security.py:53`), whatever links are alive.

### `Companion`

One recording that paired computers try to upload: `engine[d]` is the companion's own durable
receipt, `calls[d]` the requests on their way. A request is authenticated in one transaction
and handled in another, may be lost, may lose its answer and may be handled after the
companion has given up and asked again. The companion's documentation says that retries stop
after eight consecutive failures; a successful poll does not reset the count
(`companion/sync.py`), and the model does as the code.

The session of the receipt ends in two ways. Its time runs out (`TimeIsOver`), after which it is
refused everything until a sweep comes (`Expire`); or it goes to the purge (`Removed`), by a failed
verification, a sweep, the fencing of its device, or a deletion of the recording, which
turns a COMPLETE session to PURGING and CANCELLED as well (`storage.py:125-129` and `177-182`). A
repeated completion of a COMPLETE session succeeds and changes nothing (`resumable.py:303-304`).

### `MatchHistory`

Two workers fetch pages of one query outside any transaction and import them under a fenced
lease. The owner unlinks, links again, withdraws and deletes; the provider corrects a match;
an operator attaches, reviews, reprocesses and publishes. The retention of an imported match,
a second source, the admission quota and the coverage list are left out; the fence of a
cancelled job is not moved, which only bounds it.

### `PracticeLoop`

Assignments, the frozen baseline, the practice linked to each, the collected session and the
reports per phase, over captures that are published, reprocessed, corrected and deleted. A
report is a record of what it counted, compared with what it would count now. `PracticeLog`
and the deletion of the account are left out.

### `Knowledge`

A small graph of definitions with dual review; a release may be retired or withdrawn, also
with a source or an account, and everything that rests on it goes with it. Two requests for a
reanalysis run through measurement and publication in the meantime. Withdrawing
the old version deletes the contribution of a match whose facts are measured by the new one,
as the code does.

### `Studies`

Two studies register one recording; which of them feed the dataset (`linked`) is fixed when they
are created, so it is a variable that no step changes. Reports and snapshots are records of what
they describe. Both reviewers and the adjudicator are one account. Reports,
linked evaluations and decisions are reduced to what invalidates them. `seal` and `freeze` call
`datasets.invalidate` inside an atomic block that then raises, so nothing of it remains:
these paths are disabled here. Another study's longer retention makes a sealed
snapshot stale, and closing a linked study without members leaves it until the next
reader finds it stale; both are in the model.

### `Detectors`

Versions of a detector, measured on sealed snapshots, reviewed by two operators each and
activated one at a time. `inputs` is what a snapshot would hold now and `sealed` what
the snapshots that stand do hold; a receipt names the one it was made of. Every command but
`run` is answered with the view, which may invalidate in the same transaction. The view ends
the receipts but not the snapshot: the invalidation inside `current_snapshot` is in a
savepoint that is rolled back. Withdrawn consent of an operator counts as leaving for good.

### `Admissions`

Multipart uploads: a place is reserved before the body is read, expires after fifteen
minutes although the request may go on, and the publication checks everything again. An
analysis reserves all its attempts and is charged, on the day it is settled, for those it
took. Media seconds are added up as processing seconds are and are left out, as are the
analyses per recording and per day, requests to reprocess, the bytes of resumable uploads and
the file of an upload that crashed before its row was written. `Overrun` bounds how far a
measured attempt exceeds its deadline.

### `Previews`, `MCDomain`: several components in one run

`Previews` composes `CloudLog`, `ExecutionJournal`, `PreviewWrites` and `FileJournals` for any
values of their constants; `MCPreviews` gives it the small ones. `Domain` holds the instances of
the components of the product domain (`Accounts`, `Companion`, `MatchHistory`, `PracticeLoop`,
`Studies`, `Detectors`, `Knowledge`, `Admissions`) with the assumptions on their constants, for
`DomainProofs` and `ResearchProofs`; `MCDomain` explores them with small values.

These components share no state, so one run explores them one at a time: `focus` is chosen
in the initial state, the component it names moves, the others have no state (or stay in
their first one). The states explored are the sum and never the product. `MCDomain` has several
values of `focus` for one module where one instance does not reach every case.

## Runs

All runs are small instances; `MC*.tla` only name their functions. Deadlock is not checked in
any of them: with every run finished and every bound reached the system legitimately stops.
An invariant such as `RecordsSound` is a conjunction of named parts; `WorkersInv`,
`EvidenceSound`, `OutboxSound` and so on include the type invariant of their module.

| run | instance | shows | states |
|---|---|---|---|
| `MCWorkersOneRun` | 1 run, 2 attempts, 1 poller, 1 dispatched worker, all interventions | the inductive invariant, fencing, revocation, budgets; every accepted run ends | 117 k |
| `MCWorkersTwoOwners` | 2 owners with 1 run each, cap 1, 2 pollers, cancellation | the physical cap; refinement of `FencedExecution`; every run ends although they wait for each other | 62 k |
| `MCWorkersOneOwner` | 2 runs of one owner, cap 2, 1 poller, deletion and consent | one decoder per owner under a cap that would allow two | 139 k |
| `MCCloudOutbox` | 1 run, 1 attempt, 1 relay, 2 handlers, 2 tries, cancellation, a queue that gives up | a hosted run ends, is flagged, or waits for a task that the queue gave up | 27 k |
| `MCCloudLaunch` | 1 run, 2 attempts, 1 relay, 2 handlers, 2 tries, cancellation | remote cap; receipts of two generations; the outbox row against late answers | 1.2 M |
| `MCUpload` | 1 session, GCS, 2 workers, 2 attempts, all interventions | purge and evidence with a capability that may be learnt late; late verifiers; sessions settle, erasures complete | 172 k |
| `MCUploadLimits` | 2 sessions of one owner and 1 of another, LOCAL, 1 slot, room for one each, crashes | slots and quota | 331 k |
| `MCPreviews` | `CloudLog` 4 writers; `ExecutionJournal` 1 run, 2 attempts; `PreviewWrites` 2 files, 2 attempts; `FileJournals` 2 journals, 2 records | the log implements a register; refunds need proof; tombstones are final; what is served is whole; recovery applies every reported intent | 378 k |
| `MCDomain` | see the table below | | 1.18 M |
| `MCCloudStarted`, `MCUploadStaleSweep`, `MCPreviewUid` | as their passing runs | the findings | |

| focus of `MCDomain` | instance | property |
|---|---|---|
| accounts | 1 browser, 2 addresses, 2 passwords, 1 revocation of all sessions, 3 links | `AccountsSound`, `AccountChangesAreProved` |
| devices | 2 computers of which one is troubled, 2 failures | `CompanionSound`, `RemovedStaysRemoved` |
| history | 2 pages, 2 workers, corrections, 2 analyses, or a second link | `MatchesSound`, `ImportsAreAuthorized` |
| practice, reported, retention | 2 assignments and reprocessing; a reported session and its revision; a retention phase | `PracticeSound`, `ReportsSound` |
| definitions | 4 definitions, one a mapping, on 2 recordings, 2 reviewers, 1 reanalysis | `KnowledgeSound` |
| studies | 2 studies of which 1 or 2 feed the dataset, 2 instants | `StudiesSound`, `RetentionReturns` |
| detectors | 2 versions with a reviewer in common, 2 receipts, 2 inputs | `DetectorsSound`, as a part of `StudiesSound` |
| places | 2 uploads of 2 owners, 2 days, 2 attempts | `AdmissionsSound` |

Bounds, and why they are enough:

- `MaxAttempts = 2` gives a retry after every kind of failure and the refusal of a third
  execution (`RUN_MAX_ATTEMPTS` is 3). Where two runs compete it is 1, and in `MCCloudOutbox`,
  where liveness is checked: a rejected launch is requeued there as generation 2 all the same, whose claim is
  refused, and that has to end as well. With two attempts the run takes four minutes and passes.
- `MaxFence` bounds `AnalysisRun.fence`, which only `delete_asset` can increase without end.
  `LimitAssumption` asks for `2 * MaxAttempts + 2`: a fence for each claim and each requeue,
  a cancellation and a deletion.
- `ActiveLimit` (`GLOBAL_ACTIVE_RUNS`) is 1 so that two runs compete, and 2 in
  `MCWorkersOneOwner`, where the limit per owner is the one that must bite.
- Two processes are what a race needs: one that acts and one that holds stale state. In
  `MCCloudLaunch` two handlers hold two generations of the same run.
- `MaxTries` (8 in `dispatch.py:44`) is 2: retry once, then ATTENTION. A generation may be
  delivered any number of times, or given up by the queue at any moment, and a relay may crash
  before it records its answer.
- `Requests` lists the interventions an instance explores. A second hosted run gives
  four million states and more than five minutes; its isolation from the first comes from the
  capacity check, which `MCWorkersTwoOwners` and the proof cover for the same transaction.

- Uploads: two workers give a stale one and one that overtakes it. `MaxAttempts = 2` (3 in the
  code) has a retry and a refusal. `OwnerAssets` counts assets of one size in
  `OWNER_STORAGE_BYTES`. One session is enough for what concerns a session; three compete for
  slots and bytes in `MCUploadLimits`, with LOCAL storage and one process at a time that may
  die, since what is counted there are rows.
- Journals: a launch and three cancellations can collide three times, the last time with a
  creation that arrives late; two records have one the checkpoint covers and one it does not.
- Previews: a second attempt is what a late receipt of the first is dangerous to; a second file
  is what an interrupted upload leaves unfinished.
- `MCDomain`: two of whatever competes (links, computers, workers, assignments, studies,
  versions, uploads), two revisions of whatever is replaced, and one step more than the limit
  where something is counted. The `bound` constants of each module name the operations an
  instance leaves out, so that several instances share the cases among them. Within one instance
  `DevicesBounded`, `HistoryBounded` and `PracticeBounded` of `MCDomain` do so: a computer that is
  alone fails as often as it may, of two one fails once; a player linked a second time has no match
  corrected and none analysed twice; two assignments, reported sessions and a retention phase are
  explored apart, each a focus of the one instance.

Some invariants deserve a word:

- `PhysicalCap`, `OneDecoderPerOwner`, `RemoteCap` (of `RemoteSound`): `claim_run` counts rows. The invariants
  count decoders and executions, including those whose run was cancelled, whose process died
  or whose launch was never answered.
- `ResultIsCurrent` (of `RecordsSound`): whatever the row holds as a result was written by its last attempt, and
  by one that was really entered.
- `BudgetHeldUntilStopped`: the claim of the first line of `budgets.py`, in physical terms.
- `ReceiptNamesOwnExecution` with `LiveHoldsSlot` (of `RemoteSound`): the reconciler releases on
  evidence about the right execution although it reads the slot list, the outbox row and
  the runtime at three different times. It holds because a requeue empties `operation_name` and
  raises the generation in the transaction that releases the slot.
- `EnqueuedHasTask` (of `OutboxSound`): `ENQUEUED` is never sent again, so it must imply a task of this very
  generation. The generation in the filter of `dispatch.py:56` is what makes it true.

- `PurgedMeansGone` (of `EvidenceSound`): `delete_asset` works outside its transaction with an asset it loaded. What
  saves it is that an upload whose address it did not know keeps the purge pending until the
  deadline, judged by the loaded row and not by a fresh one: `CapabilityByFreshRowFault` shows
  the difference.
- `EvidenceOutlivesVerifiers` is what the check of `resumable.py:499` and `allow_complete` are
  for; its exception is exactly the second finding.

- `ServedIsWhole` relates SQL, the ledger and the objects: `ServedBySqlFault` shows that SQL alone
  would show a preview that is being erased.
- `LiveLinkDelivered` and `EndedSessionsStayOut` (of `AccountsSound`): a link that still works is
  in the mailbox, although files are written before and erased after commits; no request of a
  session that was ended is let through, although the middleware reads without a lock.
- `LocalOutcomeTrue` (of `CompanionSound`): what the companion has durably recorded as synced had
  arrived whole and was verified, and is on the server unless it was removed since; what it
  recorded as removed or cancelled is gone there; through every lost answer and crash. The
  companion asks no more once it has an outcome, so it does not learn of a later deletion.
- `PurgedMeansGone` (of `WritesSound`): a coordinator may outlive its slot, and `plan` reads no row.
  That nothing is written after a purge rests on the reads of the row before each
  session (`previews.py:157`, `preview_writes.py:131-134`).
- `AvailableIsCurrent` and `WithdrawnIsMarked` (of `ReportsSound`): a report that is shown counts
  what would be counted now; one that counted what was taken back is marked.
- `RetentionReturns`: whatever studies come and go, a recording is kept until the latest of those
  that hold it, and else until its own day.
- `DayWithinBudget` (of `AdmissionsSound`): totals add reservations of any day to the charges of
  today, and a run settled after midnight moves its charge; the sum stays within the limit all
  the same, but for what clean-up adds to an attempt beyond its deadline.

### Fairness

`LocalWorkers!Fairness` is weak fairness of: each step of a live process inside
`process_one`; the claims of the polling loop, which comes round every two seconds
(`process_runs.py:50-54`); the settlement inside `reconcile_runs`, which every batch calls; the
purge job; the end of an orphan decoder (`run_bounded(timeout=330)`); and the operator, who is
the code's own answer to a slot nobody releases (`reconcile_runs.py:13-18`). Nothing is
assumed of owners, of the clock or of crashes. `CloudDispatch!Fairness` adds strong fairness of the
relay and of the claim of a delivered task, since a crashed relay or handler is
restarted for ever and no step may be cut off by crashes for ever. Of the queue nothing is assumed:
it may give a task up at any time (`QueueGivesUp`), and the fairness of a claim asks for a delivery
only while the task is there. `EveryRunEndsOrIsFlagged` counts ATTENTION as an end, because there
the code hands over to a person, and says that a run waits in silence in one case only, when it is
`Stranded`: its row says ENQUEUED and the queue has given the task up. No process of the
repository comes back to such a row. The alert QUEUE_DELAY of `operations.py:220-221`, computed
from the age of the oldest queued run, is what shows it to an operator.

`ResumableUpload!FairSpec` is weak fairness of every step of a process, of the sweeps
(`reconcile_uploads`, which three commands and the polling worker repeat; `purge_expired`) and of time, and the
assumption that from some moment on the store and the processes no longer fail
(`<>[][~Failure]_vars`): the code retries for ever and promises nothing to a store that never
answers. Nothing is assumed of clients, so an abandoned upload must end by its expiry.
`CapabilityEnds` waits for a call of `begin` under way: the deadline lies seven days and ten
minutes after the reservation, and no request lasts ten minutes.

`Previews!FairSpec` is used by a finding only: strong fairness of the steps of the maintenance
pass, which a command repeats, weak fairness of the provider's own steps, and that a
cancellation under way ends.

### Findings

1. `dispatch.py:120` updates the outbox row by primary key after `acknowledge_stopped` has
requeued the run. If the next generation has been relayed, claimed and started in between, its
STARTED row becomes ATTENTION. `NeverRegressStarted` states the comment of `dispatch.py:54`
("Handler may already have started. Never regress its state."), and `MCCloudStarted` finds the
interleaving. All other answers respect it, which `ReceiptLeavesStarted` shows in
`MCCloudLaunch`. The consequence is bounded: `QueuedIsDispatchable` and the safety properties
hold with the overwrite in the model; a queued run overwritten this way waits for the operator.

2. `reconcile_uploads` (`resumable.py:543-549`) purges by the expiry of a session it listed as
VERIFYING, and `mark_purging` accepts a COMPLETE one unless told otherwise. When another sweep
completes the verification in between and the hour of the session ends, the first sweep erases
the completed capture and cancels its run. `evidence-storage.md:94-96` revokes only *pending*
uploads on expiry. `CompletedEvidenceKept` states it and `MCUploadStaleSweep` finds the
interleaving in thirteen steps. Passing `allow_complete=False` at that call would close it.

3. `cloud_execution.update` refuses a row of a tombstoned run while it is SUBMITTING, also when
only its uid changes (`cloud_execution.py:104`). When a cancellation was interrupted between
its tombstone and its rows and the receipt of the launch was lost, every maintenance pass finds
the job, tries to record its uid and fails before it can stop it. The machine ends by its own
deadline and is found gone, but without the uid and the deletion receipt the slot cannot be
proven free. `UidRecovered` states it and `MCPreviewUid` finds the loop, under strong fairness
of every step of the maintenance pass. The loop needs a job whose worker has not come as far as
`process_one`: one that has ends by revoking (`process_runs.py:190-196`), which stops the row.

Two facts that are no findings, because no text of the repository says otherwise: a crash
between the two renames of `preview_ledger.py` leaves the ledger unreadable, and recovery
refused, until an operator repairs it; and a task that the queue gives up leaves its row ENQUEUED.

## Proofs

Eight modules hold theorems, all of them for every value of the constants that satisfies the
named assumptions: any number of runs, owners, processes, attempts, uploads, files, records
and collisions.

| module | about | assumptions |
|---|---|---|
| `RunJobsProofs` | lemmas on the transactions of `RunJobs`, for the three modules below | `RunsAssumption`, `LimitAssumption` |
| `LocalWorkersProofs` | decoders, slots, budgets | and `WorkerAssumption` |
| `RunRecordsProofs` | the rows of runs, and the refinement of `FencedExecution` | the same |
| `CloudDispatchProofs` | the hosted path | `RunsAssumption`, `LimitAssumption`, `CloudAssumption` |
| `ResumableUploadProofs` | uploads and erasure | `UploadAssumption` |
| `PreviewsProofs` | the file journals; the shared log and its refinement of `AtomicRegister`; Batch previews; the write ledger | `PreviewsAssumption` |
| `DomainProofs` | the recording companion; match history; accounts; practice loops; admissions | `CompanionAssumption`; `HistoryAssumption`; `AccountsAssumption`; `PracticeAssumption`; `AdmissionsAssumption` |
| `ResearchProofs` | studies with their dataset; detectors; knowledge | `StudiesAssumption`; `DetectorsAssumption`; `KnowledgeAssumption` |

What the assumptions ask of the code: finitely many runs, sessions and files; limits that are
natural numbers, positive where zero would forbid everything; `MaxFence` large enough for every
claim, requeue, cancellation and first deletion of a run; files numbered in the order in which they are uploaded;
a query with at least one page; an account with at least one password, whose first address is
one of the addresses; windows of finitely many captures; finitely many studies, definitions and
uploads; a definition's dependencies among the definitions. Nothing is asked of the quotas of
`Admissions` but that they are numbers: a quota of zero admits nothing. `Below` of `Knowledge` is
defined by its assumption, as the least set that has a definition and what its members depend on.

| theorem | property | |
|---|---|---|
| `InvariantHolds`, `TypeCorrect` | `WorkersInv`, `TypeOK` | the inductive invariant |
| `PhysicalCapHolds` | `PhysicalCap` | decoders never exceed `GLOBAL_ACTIVE_RUNS` |
| `OneDecoderPerOwnerHolds` | `OneDecoderPerOwner` | |
| `DecoderHasSlotHolds` | `DecoderHasSlot` | a slot is not released under a decoder |
| `OneProcessPerAttemptHolds` | `OneProcessPerAttempt` | |
| `BudgetHeldUntilStoppedHolds` | `BudgetHeldUntilStopped` | |
| `RecordsSoundHolds` (`RecordsInvHolds`) | `RecordsSound` | what a row says after revocations and repeated executions |
| `CancellationIsFinalHolds` | `CancellationIsFinal` | an action property |
| `ImplementsFencedExecutionHolds` | `ImplementsFencedExecution` | a refinement |
| `RemoteSoundHolds` (`CloudInvHolds`) | `RemoteSound` | the cap and the slots, for executions no transaction sees |
| `OutboxSoundHolds` | `OutboxSound` | |
| `ReceiptLeavesStartedHolds` | `ReceiptLeavesStarted` | an action property |
| `EvidenceSoundHolds` (`UploadInvHolds`) | `EvidenceSound` | rows tell the truth about the object store |
| `LimitsRespectedHolds` | `LimitsRespected` | slots, and the quota in stored bytes |
| `EvidenceOutlivesVerifiersHolds` | `EvidenceOutlivesVerifiers` | an action property |
| `JournalsSoundHolds` (`JournalsInvHolds`) | `JournalsSound` | |
| `RecoveryIsCompleteHolds` | `RecoveryIsComplete` | an action property |
| `JournalSoundHolds` (`LogInvHolds`) | `JournalSound` | |
| `ImplementsAtomicRegisterHolds` | `ImplementsAtomicRegister` | a refinement |
| `ExecutionsSoundHolds` (`ExecutionsInvHolds`) | `ExecutionsSound` | machines are accounted for; refunds need proof |
| `TombstoneIsFinalHolds` | `TombstoneIsFinal` | an action property |
| `WritesSoundHolds` (`WritesInvHolds`) | `WritesSound` | |
| `ServedIsWholeHolds` | `ServedIsWhole` | |
| `CompanionSoundHolds` (`CompanionInvHolds`) | `CompanionSound` | |
| `RemovedStaysRemovedHolds` | `RemovedStaysRemoved` | an action property |
| `MatchesSoundHolds` (`HistoryInvHolds`) | `MatchesSound` | |
| `ImportsAreAuthorizedHolds` | `ImportsAreAuthorized` | an action property |
| `AccountsSoundHolds` (`AccountsInvHolds`) | `AccountsSound` | |
| `AccountChangesAreProvedHolds` | `AccountChangesAreProved` | an action property |
| `PracticeSoundHolds` (`PracticeInvHolds`) | `PracticeSound` | |
| `ReportsSoundHolds` | `ReportsSound` | |
| `AdmissionsSoundHolds` (`AdmissionInvHolds`) | `AdmissionsSound` | quotas of bytes, runs and seconds of a day |
| `StudiesSoundHolds` (`StudyInvHolds`, `DetectorInvHolds`) | `StudiesSound` | what is described or approved stands |
| `RetentionReturnsHolds` | `RetentionReturns` | |
| `KnowledgeSoundHolds` (`KnowledgeInvHolds`) | `KnowledgeSound` | a withdrawal is transitive |

None of the properties is inductive: they speak of decoders, executions, machines and objects,
and the code sees rows. Each invariant says what the rows know of them, and what a process
may go on believing between two transactions.

### Local workers

`WorkersInv` connects decoders and rows:

1. `SlotDiscipline` is about rows only. Slots lie at or below the run's fence, so that a new
   claim opens a fresh one; a PROCESSING run holds the slot of its fence; a waiting run holds
   none; open slots are one per owner and at most `ActiveLimit`. Each transaction keeps it.
   The cardinality step uses that a claim adds one pair to a finite set and that every
   other transaction only shrinks it.
2. `DecoderHasSlot`: decoders are a subset of the open slots that were entered.
   A release must therefore come from somebody who knows the decoder is gone.
3. `WorkerDiscipline` says who that is: a process with `stopped` entered its attempt and the
   decoder of it is gone, and because an entered slot is refused by `begin_execution`, it
   cannot come back.
4. `OneProcessPerAttempt` is needed for 3: otherwise another process could still decode the
   attempt that the first reports stopped.
5. `BudgetDiscipline`: a settled budget belongs to a run that is not pending and holds no
   slot. With `DecoderHasSlot` it gives `BudgetHeldUntilStopped`.

`PhysicalCap` then follows because a subset of a finite set is no larger, and
`OneDecoderPerOwner` from the uniqueness of open slots per owner.

### Rows of runs

`RunRecordsProofs` shows that a step is one of seven kinds as far as the rows of runs are
concerned: it leaves them, submits, grants, drops, publishes, releases a slot with or without a
requeue, or revokes a set of runs. Everything else is proved kind by kind. `ExecutionsBounded` needs `SlotsCounted`: a run has at most
as many granted slots as attempts. `ResultIsCurrent` needs `Entered`, that a process that may
publish has entered the attempt of its fence. The refinement maps open slots to held tokens,
and each kind is one action of `FencedExecution` or a stutter.

### Hosted path

Rows first: a step does one of seven things to the rows of a run, and each keeps `RowInv`
(the generation never passes the attempts by more than one, ENQUEUED has its task, an
operation belongs to a row that was claimed). Then the processes: a handler whose
generation is still the row's knows that no slot of the run but its own is open
(`KnowsAttempt`), that its attempt has no execution before its call and after a rejection (`KnowsRemote`), and that no other handler
launches for the same attempt (`HandlersDistinct`); a relay knows its lease of the row; the
observer of `reconcile_cloud` holds a name that is empty or that of the slot, as long as the slot
is open. A slot is released by the observer on an execution that has ended, or by the handler
whose call was rejected, and these facts are what make both right.

### Uploads

A step is one of eighteen turns in the life of a session. Facts about a session that no turn of
another process can undo are what a process may remember outside a transaction:
`WorkerKnows` lists them for each place in the code, and they are proved to last. Writing
the proof showed that the invariant also needs that a GCS session is not purged while its
`begin` is under way: the receipt of a begin must not come after the purge it would make
untrue. The quota is counted in rows and stated in bytes: received bytes belong to sessions
that are not purged.

### Journals and previews

`LogInv`: the log is a chain of legal moves, and a creation that is still under way, even
of a writer who gave up, can only add a legal move at the place it was computed for; the
abstract register is the last record. `JournalsInv` says for each file operation
which records are in the directory and which the checkpoint covers: both are numbered without
a hole, the directory holds at least what the checkpoint covers, and what was reported is under
the checkpoint. `ExecutionsInv` ties each machine to a journal row, each row to what the
launcher and the pass have read of it, and bounds what holds capacity: open slots and
rows that are not stopped. `WritesInv` ties each file state to its session and its object; the
coordinator whose heartbeat is good holds its slot (`HeartbeatHoldsSlot`), one that has lost both
stops at its next read of the row, and after a purge none is left beyond it (`PurgedIsQuiet`).

### Companion

`CompanionInv` has a part for the rows of the server (`RowsAgree`) and one for each computer.
The rows only move forward (`Forward`): a completed session stays complete until it is removed, a
removed one removed, and a receipt keeps its holder. A receipt on a computer that told the truth when it was
written (`OutcomeTrue`) therefore still does. `RevokedDeviceIdle` holds because every request is
checked again in the transaction that handles it, and because the revocation fences the
session of the same device in its own. That failures stay within `MaxFailures` needs that a
computer with an outcome awaits nothing (`OutcomeWaitsForNothing`): a late answer is nobody's.

### Match history

`HistoryInv` has three parts. `MatchesInv` is about one page at a time (`MatchSound`) and does
not mention the job: publication only moves forward (`NewestOfAll` of the published analysis), so
what counts is the newest; an approved recording was claimed for the present revision or the
match is out of every measurement. `JobInv` is about the job: a worker that holds the fence of a
job in progress claimed it under the present link, because every revocation fences the job in its
own transaction and a job of a player who is not linked is cancelled or was never started.
`CursorInv` says that every page before the cursor was seen; a deletion keeps it since the
match it removes is suppressed. `ImportsAreAuthorized` follows from `JobInv`: only a committed page changes a version.

### Accounts

`AccountsInv` has three parts. `AccountRows` is about the row: a registration that has not
committed belongs to an account that does not exist, a deleted account has no link, and an
unverified one still has its first address. `LinksInv` is about the links: at most one
of each purpose, its number in the mailbox. A link that activates carries the first address
and is refused once the address is verified; any other carries the address wanted last, since
asking for another replaces it. `AccountChangesAreProved` follows. `ClientsInv` is about each
client: a session that was ended is stale by something the middleware reads (`Ended`: the
account is deleted, the entry revoked, the password hash or the epoch old). As an account
only moves forward (`AccountForward`), what is stale stays stale (`EndedLasts`), whatever the
client had read before.

### Practice loops

`ReportSound` says of each report what cannot be read off it: its members are analyses that took
place, its baseline is the plan's, its practice is still linked, a measured one had a complete
collection, and unless it is marked nothing it counts has been taken back. That is inductive
because evidence only moves one way (`RowsForward`: analyses are numbered on, plans stay frozen,
links are kept) and because a deletion or correction withdraws the trials of every analysis of the
capture, current or not (`KnownIsTrial`). A report may be marked for other reasons too,
so a step is described by the marks it adds (`ReportsMarked`). `AvailableIsCurrent` then needs no
induction: a report that is found fresh when it is read, and was sound when it was written, is what
would be measured now (`FreshIsStillMeasured`), and the same holds of the comparison a
retention report refers to.

### Admissions

The quotas are sums over sets of uploads. `MapThenFoldSet` chooses one recursive function among
those that satisfy its equation, so the first lemmas show that every finite set has such a
function (`SumsExist`), that two agree where both are defined (`SumsAgree`), and hence that a
sum has the terms one expects whichever element is taken out (`TotalWithout`). There is no
induction over an operator behind them: a counterexample would have a smallest set.

`AdmittedFits` counts stored bytes and the places of uploads that are still to come. It is
inductive because `Publish` counts again whatever others hold: a place that has expired is no
longer counted, and its upload is published only if there is room without it. `DayWithinBudget`
is not: at midnight the charges of the day are gone and the reservations remain, so
`ReservedFits` says that they alone fit. When a run is settled its reservation becomes its charge,
on whichever day that is; `RunInv` gives that what was spent is at most `AttemptSeconds + Overrun`
for each attempt, of which the reservation has paid the first part. What is left is what the
property allows.

### Studies

`StudyInv` says of each report, snapshot and import what it may describe (`Described`): members
that are active, a session that is there, captures that are live, labels that are final. Most
steps add evidence; those that take some back (`EraseKeeps`, `CloseKeeps`) end what described it in
the same transaction, and the proof follows each of them. `EvidenceInv` ties what a player
has added to his membership, which is what lets a withdrawal find all of it, and the
captures of one recording to one date of origin. `RetentionReturns` then needs that the
latest of finitely many expiries exists (`LargestExists`): after a capture is taken back,
`Restored` is that date or the origin.

### Detectors

An active version has a receipt that passed and was approved, and its newest receipt, which may
be another, passes as well (`ActiveInv`). A newer receipt that fails stops the version in its own
transaction, and whatever ends a receipt ends the version it activated (`InvalidateKeeps`).
`DetectorRows` and `ReceiptRows` bring the reviewers of a receipt together with those of
its version, so that nobody's decision is counted for another.

### Knowledge

`KnowledgeSound` speaks of what lies below a release at any distance, and `revoke` works in rounds, each
adding the published versions that depend on one already taken. `WithdrawnIsClosed` shows that
the rounds reach their end: among as many rounds as there are definitions, and one more, two are
equal, since the sets only grow, and two equal rounds add nothing any more. What rests on a
withdrawn release is then withdrawn (`WithdrawnReaches`) because `Below` is the least
closed set; no induction on the depth of the graph is needed. `ReleasesInv` says what the rounds
rely on: a proposal names published versions only, so nothing can come to rest on a
version that is published later. `ReanalysesInv` adds what measurements and contributions rely on: a
reanalysis was asked for under a published mapping, and the publication in force has run.

Writing the proof showed that `NothingRestsOnWithdrawn` asked too much of a version that was never published:
`publication_measurement` takes such a publication as unmanaged, and the property now does.

### What is only model-checked

- Liveness under fairness (`EveryRunEnds`, `EveryRunEndsOrIsFlagged`, `SessionSettles`,
  `ErasureCompletes`): the prover has no rules for fairness and ENABLED.
- The properties of the three findings, which are violated.

Every other property a run checks is a theorem.

## Not modelled

What each module leaves out of its part is said above and in the notes of `PROJECT.json`. Left
out for good: video and image processing, floating-point estimators and the rules and
statistics of `analysis/`, which are sequential computations over one document; the player
model, which is computed at every read and stored nowhere; the operations snapshot, the frontend,
serialisation, routing, presentation and infrastructure, which keep no state of their own. The fixed
windows of `security.py` admit twice the limit across a boundary by design.

## Plan

The modules of the plan are written, and what the runs check is proved but for liveness. What could
follow, in the order of what it would say about the system:

1. The reaper's variant for local storage, with the files of the attempt's directory (`PreviewWrites`).
2. Several players in one collection of `Studies`, whose split guards compare players.
3. The restore that withdraws every release (`restore_revoke` of `knowledge.py`).
