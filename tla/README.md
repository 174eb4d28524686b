# TalentFlow in TLA+

TalentFlow manages candidate cases of several tenants from application to hire:
a FastAPI process serves commands over a PostgreSQL database, and background
processes turn committed decisions into emails and remove documents whose time
is over. This directory holds specifications of the parts of it that run
concurrently, TLC configurations that check them on small instances, and proofs
checked by TLAPS for instances of any size.

    tlc -config MCOfferWorkflow_race.cfg MCOfferWorkflow
    tlapm OfferWorkflowProofs.tla

Paths below are relative to `src/app/`; `modules/` is `src/app/modules/`.
`PROJECT.json` maps every definition to the lines it models and lists the
hazards, line by line, with the properties that cover them.

## 1. Inventory

Every HTTP request runs in a thread with a database session of its own
(`shared/database.py`: autoflush off, rolled back when the session closes
uncommitted). Sessions share only the database and, for attachments, a
directory. PostgreSQL runs at its default, READ COMMITTED: each statement sees
what is committed when it starts, and an UPDATE waits for the lock of its row
and then evaluates its WHERE again. Two objects are shared by the threads of a
process without a lock: the cached signing keys and the memory rate limiter.

| component | state | operations | what is hard | what makes it correct |
|---|---|---|---|---|
| Candidate state machine `modules/workflow` | none | `transition_to` | | only the table's moves |
| Candidate cases `modules/candidates` | stage, version, terminal_at | create, transition, list | read, compare, guarded UPDATE; races with offers and purge; pages of a changing list | no lost update; moves follow the machine; lists are complete |
| Offers `modules/offers` | offers, approval_decisions, outbox_events | create, decide | two rows and two inserts in one transaction; stale reads; rollback | both approvals in order; decided offers final; offer and case agree; one event per decision |
| Outbox publisher `modules/notifications` | outbox_events.status, notification_deliveries | `publish_pending` | overlapping batches, conflicts, crashes | one delivery per event; none forgotten |
| Delivery worker `modules/notifications` | delivery rows with attempts and a lease | claim, send, mark, fail | leases that run out, crashes, late answers of the provider | recorded results are true; every row settles |
| Email worker `run_email_worker.py` | none of its own | publish, then deliver | a conflict or a lost claim ends a run | every decision is told or given up |
| Retention and holds `modules/retention` | policies, legal holds, anonymized_at | set policy, set hold, purge | holds, uploads and crashes during a purge; files and rows together | due cases are purged, nothing else is |
| Attachments `modules/attachments` | rows and files | upload, list, download | failure between file and row | every row has its file, every file a row |
| Interviews `modules/interviews` | interviews, feedback | schedule, submit | two submissions | one feedback, by the interviewer |
| Calendar `modules/calendar` | hashed tokens with expiry and revocation | create, revoke, read feed | revocation against readers | a revoked or expired token reads nothing |
| Organization `modules/organization` | tenants, users, memberships, requisitions | create tenant, requisition | two creations of a slug | unique slug with its first admin |
| Identity `modules/identity` | memberships; cached JWKS | authorize, validate token | unlocked cache and key rotation | only members with the permission act; withdrawn keys die |
| Rate limiter `shared/rate_limit.py` | windows per client | consume | window edges, rounded seconds, restarts | bounded bursts; a refused client gets in again when told |
| Reporting `modules/reporting` | none | queries | a report is several reads at several instants | its parts fit together |
| Audit reader `modules/audit` | none | one query | | |
| HTTP layer `main.py`, `api/` | none | routes, error mapping | errors no route maps | a failed command changes nothing |
| Schema `shared/models.py` | tables, unique constraints | | | the constraints the commands rely on |
| Settings, observability, migrations, infrastructure | configuration | | | |

How they interact. A decision commits an outbox event with the rows it changes
(`modules/offers/application/decide_offer.py`); publishers turn events into
delivery rows; workers lease the rows and call SendGrid. Transitions, offers
and the purge write the same case rows. Attachments and the purge share rows
and files. Every route asks for the permission of the caller's role in the
tenant of the path, behind the token validation and the rate limit.

## 2. Plan

In the order of importance, all of it done:

1. Decisions: `CandidateStateMachine`, `OfferWorkflow`, its abstraction
   `ApprovalFlow`, and the theorems of `OfferWorkflowProofs`.
2. Emails: `DeliveryWorker`, `OutboxPublisher`, their composition
   `EmailPipeline`, and the theorems of the three.
3. Documents: `CaseFiles`, retention with attachments, and its theorems.
4. Everything else that is created and shown: `Permissions`, `Records`, and
   its theorems.
5. Shared objects of a process: `JwksCache` and `RateLimiter`, with theorems.

Open: an audit trail that spans all commands. A purge cannot race with a transition: it selects rejected and
withdrawn cases, and those never move.

Modules that are proved about declare no RECURSIVE operator.

## 3. Modules

| module | models |
|---|---|
| `CandidateStateMachine` | stages and transitions |
| `OfferWorkflow` | `TransitionCandidateHandler`, `CreateOfferHandler`, `DecideOfferHandler`, the rows they touch |
| `ApprovalFlow` | what the three commands promise together, each command atomic |
| `OutboxPublisher` | `publish_pending` in several processes |
| `DeliveryWorker` | `DeliveryWorker` in several processes, leases and time |
| `EmailPipeline` | `run_email_worker` and `run_outbox_publisher`: the two above composed |
| `CaseFiles` | upload, download, policies, holds, `purge_due`, `run_retention_worker` |
| `Permissions` | roles, permissions, `require` |
| `Records` | creation of tenants, requisitions, cases, interviews, feedback and calendar subscriptions; revocation; lists, reports, feeds |
| `JwksCache` | the JWKS provider and `_key_for` in several threads |
| `RateLimiter` | both limiters and the middleware's decision |
| `...Proofs` | theorems (section 6) |
| `MC...` | instances for TLC: roles, seeds, symmetry |

In every module one action is one statement, from the first read of a command
to its commit, a command that its first checks refuse changes nothing, and a
rollback is the loss of what a request keeps in memory. A definition marked
"Mistake" is a plausible error in the code that a property detects; no
specification uses it.

### OfferWorkflow

`candidate`, `offers`, `decisions`, `outbox`, `audit` are the committed rows.
`pc[r]` is the statement request `r` executes next and `req[r]` what it holds
in memory.

| handler | actions, in order |
|---|---|
| transition | `BeginTransition` (read, version check, state machine), `MoveCase` (guarded UPDATE), `CommitMove` (audit, commit) |
| create offer | `BeginCreateOffer`, `ReserveCase` (guarded UPDATE), `CommitOffer` (insert, commit) |
| decide | `BeginDecision` (read, version, role, `Offer.decide`), `UpdateOffer` (guarded UPDATE), `SyncCase` (read the case, state machine), `AdvanceCase` (guarded UPDATE), `CommitDecision` or `InsertDecisionFails` (inserts, commit) |

A first approval goes from `UpdateOffer` to the commit. An updated row is
locked to the end of its transaction, and no one sees the new value before:
the model keeps it in `req[r]`, writes the rows at the commit, and lets other
UPDATEs of the row wait (`CaseFree`, `OfferFree`). A conflict, an invalid
transition, a failed insert and a crash are a `Rollback`.

Abstractions: one tenant, as every query is filtered by the actor's tenant;
no code changes a membership, so roles are a constant; salaries, titles and
names are read by no decision; `terminal_at` is a function of the stage; an
audit record keeps the case and its two stages. Ids are fresh (`uuid4`).
Cases exist from the start. `Versions` are the values clients send.

### OutboxPublisher

A publisher is in `running` from its SELECT to the end of its transaction.
`batch` is what it selected, `checked` what its loop has passed, `inserts` the
deliveries it will insert (autoflush is off, so other statements see none of
them). `CommitBatch` is possible when no row violates the unique
`outbox_event_id`, `BatchFails` otherwise.

### DeliveryWorker

`delivery[d]` is a row. A worker goes through `Select`, `Claim`,
`SendSucceeds` or `SendFails`, then `Mark`, or `FailRead` and `FailWrite`.
`_fail` has two actions because its SELECT has the guard and its UPDATE has
not; `_claim_next` has two because its UPDATE repeats the guard with the `now`
read before the SELECT. `age[w]` is the time since then: the claim compares
and sets the lease with the old clock. `SendFails` may or may not have reached
the recipient. A crashed process comes back with a new worker id, so its id in
a row is replaced by `Gone`. `sent` counts accepted emails, up to two;
`attempts` stop at `MaxAttempts + 1`, above which no comparison changes.

Time is kept as the time left of each lease. In `Spec` any lease may run out
while its holder works. In `TimelySpec` none does: a send takes at most 10
seconds (`sendgrid_email.py`) and a lease lasts 60 (`shared/settings.py`), so
this is the behaviour of workers that are not suspended.

### EmailPipeline

The state of `DeliveryWorker` plus that of `OutboxPublisher`, joined by one
definition: the delivery of an event exists for the publisher when its row is
not `absent` for the workers (`Materialised`). `Commit` is therefore one step
of both: it marks the events and makes the rows claimable. `phase[w]` is where
a run of the email worker is: it publishes, then delivers until `_claim_next`
finds no row or loses one, and a conflict in the first half ends it before the
second. Processes of the outbox-only command publish beside it. A worker may
die in any phase. Deliveries are numbered in the order of their events:
decisions are taken to commit in the order of their `created_at`
(`OutboxPublisher` alone does not assume it).

### CaseFiles

| code | actions |
|---|---|
| `AttachmentService.upload`, `LocalAttachmentStorage.save` | `BeginUpload`, `WriteTemporary`, `Replace`, `CommitUpload`; `SaveFails`, `CommitRaises` and then `UndoUpload` or `UndoFails`, `UploadCrashes` |
| `AttachmentService.list` and `download`, `FileResponse` | `BeginDownload`, `ReadRow`, `OpenFile`, `SendFile` |
| `RetentionService.purge_due`, `purge_due` of the repository | `StartRequest`, `ReadPolicy`, `SelectDue`, per case `SelectAttachments` and per file `Unlink`, `CommitPurge`; `PurgeFails` |
| `run_retention_worker` | `StartWorker`, and the next tenant after each commit |
| policy, hold, closing transitions, time | `SetPolicy`, `SetHold`, `ReleaseHold`, `Close`, `Day` |

A row and a file of an attachment are separate: `rows` is committed, `file[f]`
is what the directory holds. The UPDATE of a purge is by primary key, so
`CommitPurge` asks nothing again. A commit that raises may have taken effect
(`CommitRaises`), and the undo then removes the file all the same, unless the
rollback or the delete raises as well (`UndoFails`). A client knows an id from
its 201 or from the list of the case, which names every row: `BeginDownload`
takes either, so a download may be of a row whose upload failed. The age of
a case counts days from `terminal_at`; only whether the period of its tenant
is over matters.

### Permissions and Records

`Records` keeps one record `db` of tables with several tenants in one state.
A creation is `Begin` (permission and reads) and `Commit` (insert, unique
constraints). The reads of a creation are one step: each but the one for a
duplicate asks for rows that no code removes, so only the duplicate may be out
of date at the commit, whenever it was looked for. The loser of a race on a
unique constraint gets 500, since no route maps the `IntegrityError`. A
revocation reads an owned subscription and then updates it by id. The reader
goes through a list page by page (two statements each), a report, or a feed;
it changes nothing, so one reader stands for all. `due`, `dead` and `late` are
history: what was true when it began. `listed` is the sequence of the pages a
client has been given and `Shown` what is on them. Random ids of cases may come
before or after any cursor (`Unused`); other ids are taken in order.

`Seed` is any finite set of rows that the schema and earlier requests can have
left: primary keys are unique, feedback is by the interviewer of its interview,
references stay within a tenant, and a membership is of a tenant that exists
(`ConsistencyAssumption`, `MembershipAssumption`). Empty tables, where the
system starts, satisfy this.

### JwksCache

`cached` and `expiry` are the attributes that threads share; `Test`, `Fetch`,
`Store`, `SetExpiry` and `Return` are the steps of `get`, between which other
threads run, and `Refresh` is the one retry of `_key_for`. The provider
rotates its key: document `n` holds key `n`. `delay` is the time between the
provider's answer and its receipt; time passes only while threads wait for
the network. A `Return` that finds the cache cleared by another thread is the
server error that the code has there.

### RateLimiter

`limiter` is the choice of `create_app`. `count` and `left` are the window of
one client per store, a process or Redis; a request is one step, because the
middleware does not await inside `consume` and Redis runs the script as a
whole. `Restart` empties the memory of a process and nothing in Redis.
`recent` and `owed` are history: how many requests were let in during the last
1, 2, ... ticks up to a window's length, and when a refused client was told to
come back. Two clock ticks make
a second, because one limiter cuts and the other rounds to whole seconds.

## 4. Runs

| run | bounds | shows |
|---|---|---|
| `race` | 1 case, 1 offer, 3 requests, 2 hiring managers, 1 admin | type, `ApprovedByBoth`, `DecidedIsFinal`, `OfferAndCaseAgree`, `OneEventPerDecision`, `VersionsCountCommits`, `StagesFollowTheMachine`, `OfferInsertNeverConflicts`, implements `ApprovalFlow` |
| `ends` | 1 case, 1 offer, 2 requests, fair | every request ends |
| `outbox` | 3 events, 3 publishers, fair | `OneDeliveryPerEvent`, `PublishedIffMaterialised`; every event gets its delivery |
| `delivery_safety` | 2 rows, 2 workers, 2 crashes, 2 attempts, lease 1, stall 2 | `DeliveredWasSent`, `DeadLetterIsExhausted`, `SuccessByHolder` |
| `delivery_settles` | 2 rows, 2 workers, 2 crashes, 2 attempts, lease 3, stall 2, fair | `OneWorkerPerRow`, `SettledIsFinal`, `ExcessNeedsCrash`; every row is settled for good |
| `notify` | 2 decisions, 2 email workers, 1 publisher, 1 attempt, 1 crash with a row, fair | `OnlyPublishedIsSent`; implements `OutboxPublisher` and `DeliveryWorker`; every decision settles |
| `files` | 2 tenants of 1 case, 1 document, the worker, 1 purge request, 1 reader, 2 faults, fair | `KeptUntilDue`, `NoFileWithoutRow`; every due case is purged |
| `tenants` | 2 tenants with rows and a third one to create, 2 requests, 1 reader, pages of 1 | `TenantsAreIsolated`, `OneWinnerPerKey`, `ListIsComplete`, `ReportAddsUp`, `FeedNeedsLiveToken` |
| `rotation` | 2 threads, 3 documents, lifetime 2, delay 1, fair | `WithdrawnKeysDie`, `RotationIsFollowed`; every validation ends |
| `windows` | 2 replicas, limit 2, windows of 3 seconds in halves | `BurstIsBounded`, `RetryAfterHolds` |
| `delivery_toctou` | 1 row, 2 workers | violation: `OnlyHolderFinalizes` |
| `hold` | 1 case, the worker | violation: `HoldIsHonoured` |

The bounds.

- *Offers.* A conflict on a row needs two requests; the third one is there for
  a decision, a transition and a creation at once, and for two deciders of a
  step with a transition between them. A case moves at most seven times, so
  versions up to eight are all a client can hit. Crashes are not bounded.
- *Deliveries.* With two attempts a row can be in its first, its last and
  (after a crash) beyond its last attempt; with a stall longer than the lease a
  claim may take effect with a lease that has run out already. Three events and
  three publishers let two batches overlap in part and a third one meet both.
- *Pipeline.* One attempt, so that the state space stays small; repeated
  attempts are those of `delivery_settles`. Deaths of a process that holds no
  row are not bounded.
- *Documents.* One document is enough for a race of its upload with the purge
  of its case; the second tenant is what the worker goes to next, or does not
  reach after a fault. `MaxDays` is 1: a period is over or not. Two faults let
  a repaired half purge be interrupted once more.
- *Records.* The seed holds what the requests need of earlier ones, with
  the same person an interviewer of both tenants; every table can grow by two.
  Three concurrent requests exceed what TLC can do; constraints compare two
  rows, so a third request meets no new case.
- *Keys.* Three documents are one in the cache, one on its way and one newer.
- *Windows.* Requests come at every half second of a window and the next one.

`CHECK_DEADLOCK FALSE`: cases may be in a final stage, rows settled, requests
answered, and all of them are in a finite instance.

## 5. Fairness

- `OfferWorkflow!FairSpec`: a thread goes on to its next statement (weak
  fairness of the steps that do not wait), and a statement that waits for a row
  lock gets it when the lock is free again and again (strong fairness:
  PostgreSQL queues the waiters of a row). No client has to send a request, and
  crashes may happen or not.
- `OutboxPublisher!FairSpec`: a scheduler runs the publishers again and again
  (`src/README.md:160`), so each makes progress; one of them crashes only
  finitely often. Publishers that all crash in every batch publish nothing.
- `DeliveryWorker!FairSpec`: workers run and time passes, within the leases.
  Without that two suspended workers can take a row from each other for ever,
  since a claim is not bounded by `attempts`. Crashes are bounded by
  `MaxCrashes`.
- `EmailPipeline!FairPipelineSpec`: the scheduler runs every email worker again
  and again, time passes, and some worker from some time on dies only while it
  holds a row (which `MaxCrashes` bounds). Nothing is asked of the outbox-only
  command.
- `CaseFiles!FairSpec`: the scheduler runs the purges again and again, and
  `MaxFaults` bounds the faults. `DueIsPurged` speaks of tenants that the
  worker reaches (`Served`): it takes the first `BatchSize` tenants by id and
  has no cursor.
- `JwksCache!FairSpec`: threads are scheduled, and a request to the provider
  ends (`urlopen` has a timeout). Nothing is assumed of its outcome.

## 6. Proofs

For constants of any size that satisfy the assumptions of the modules, which
TLC evaluates in the runs:

| module | theorem | states |
|---|---|---|
| `OfferWorkflowProofs` | `TypeCorrect` | `Spec => []TypeOK` |
| | `TwoApprovals` | `Spec => []ApprovedByBoth` |
| | `RowsStayTogether` | `Spec => []OfferAndCaseAgree` |
| | `OneOfferPerCase` | `Spec => []OfferInsertNeverConflicts` |
| | `MachineFollowed` | `Spec => StagesFollowTheMachine` |
| | `DecidedNeverReopened` | `Spec => DecidedIsFinal` |
| | `Refinement` | `Spec => ImplementsApprovalFlow` |
| | `EventsMatchDecisions` | `Spec => []OneEventPerDecision` |
| | `NoUpdateIsLost` | `Spec => []VersionsCountCommits` |
| `OutboxPublisherProofs` | `TypeCorrect` | `Spec => []TypeOK` |
| | `OneDelivery` | `Spec => []OneDeliveryPerEvent` |
| | `PublishedMeansMaterialised` | `Spec => []PublishedIffMaterialised` |
| `DeliveryWorkerProofs` | `TypeCorrect` | `Spec => []TypeOK` |
| | `DeliveredMeansSent` | `Spec => []DeliveredWasSent` |
| | `GivenUpWhenExhausted` | `Spec => []DeadLetterIsExhausted` |
| | `HolderRecordsSuccess` | `Spec => SuccessByHolder` |
| | `NeverTwoOnARow` | `TimelySpec => []OneWorkerPerRow` |
| | `SettledForGood` | `TimelySpec => SettledIsFinal` |
| | `OnlyCrashesExceed` | `TimelySpec => []ExcessNeedsCrash` |
| `EmailPipelineProofs` | `WorkersAreRefined` | `PipelineSpec => ImplementsDelivery` |
| | `PublishersAreRefined` | `PipelineSpec => ImplementsOutbox` |
| | `SentMeansPublished` | `PipelineSpec => []OnlyPublishedIsSent` |
| | `WorkersKeepTheirWord` | `PipelineSpec =>` the four promises of `DeliveryWorker` about shared rows, results and attempts |
| | `OutcomesAreTrue` | `PipelineSpec =>` what a settled row says of outbox and provider is always true |
| `CaseFilesProofs` | `TypeCorrect` | `Spec => []TypeOK` |
| | `DocumentsAreKept` | `Spec => []KeptUntilDue` |
| | `NoOrphans` | `Spec => []NoFileWithoutRow` |
| `JwksCacheProofs` | `WithdrawnKeysAreRefused` | `Spec => []WithdrawnKeysDie` |
| | `PublishedKeyIsAccepted` | `Spec => []RotationIsFollowed` |
| `RateLimiterProofs` | `ComingBackHelps` | `Spec => []RetryAfterHolds` |
| | `TwoWindowsAtMost` | `Spec => []BurstIsBounded` |
| `RecordsProofs` | `TenantsStayApart` | `Spec => []TenantsAreIsolated` |
| | `OneIsCreated` | `Spec => []OneWinnerPerKey` |
| | `ListsAreComplete` | `Spec => []ListIsComplete` |
| | `ReportsAddUp` | `Spec => []ReportAddsUp` |
| | `FeedsNeedTokens` | `Spec => []FeedNeedsLiveToken` |

None of the properties is inductive: they speak of committed rows, and what a
commit writes was read several steps before. Each module names its inductive
invariant `Inv` (`Joint` for the pipeline, `Counts` for the counts).

*Offers.* `Inv` has five parts: `TypeOK`; `RequestOK`, what each request
carries at each `pc` (a version it has read is at most the committed one, and
where the two are equal the row it has read is the committed row; the command
is legal for that row; once it holds a lock, the version it compared still is
the committed one, `Locked`); `Exclusive`, no two requests hold a row;
`OfferOK`, how status, step and decisions of an offer go together (a rejected
offer has a decision at its own step, so that the unique (offer, step) stops
any further one); `StageOK`, how offers and stages go together. For the
refinement, commits map to the steps of `ApprovalFlow` (`CommitMove` to
`MoveCase`, `CommitOffer` to `Open`, `CommitDecision` to `ApproveFirst`,
`ApproveLast` or `Reject`) and all other steps to stuttering.

*Counts.* A set grows by one only if what a commit adds was not in it. For a
decision the unique constraint says so, for an offer the fresh id, and for an
audit record the state machine: every transition raises the `Rank` of the
stage, and `PastIsPast` says that the stages in the audit are behind the case.

*Publisher and workers.* `BatchOK`: an event that the loop passed without an
insert has a delivery, which no one removes. `WorkerOK`: an email was accepted
before its worker marks the row, and the attempts `_fail` has read are at most
those of the row now, since only claims change them and they only add; that is
why a `_fail` that overwrites the lease of another worker cannot give a row up
too early. `RowOK` ties the owner of a row to the worker at work on it. For
`TimelySpec`, `TimelyOK` adds that a busy worker holds an unexpired lease and
that a claim under way is younger than a lease, so a row somebody works on is
eligible for no one. `ExcessInv` counts crashes: a row under lease that has run
out belonged to a worker that crashed; a row that waits for a claim has
attempts left, because `_fail` compares what the row still says (`ReadOK`); so
the rows that are or will be claimed beyond the bound (`Overdrawn`) grow only
with a crash, by one.

*Pipeline.* Every step is a step of the publishers alone, of the workers
alone, or a commit, which is one of both. The theorems of the two components
are cited, not proved again: by the refinements each of them holds of the
pipeline, and `OutcomesAreTrue` joins those of both.

*Documents.* `UploadOK` says what row and file are at each step of an upload:
before the commit there is no row, at the commit the file is whole, and a
created document loses its file before its row; a row loses its file before
its case may be purged only by the undo of an upload whose commit raised and
took effect. `PurgeOK`: what a purge has
chosen was closed for a day, and stays so; what it dooms has been committed.
`ReaderOK`: a download is of an upload that has reached its commit
(`Committed`), none of which becomes a created one later; one that fails on a
created document is of a case that was closed for a day. One lemma is about sets of numbers: the loop over tenants needs that a set of
tenants has a least one (`Least`).

*Keys.* Each of the three windows in which an old document can be is bounded
by the time since its key was withdrawn: on its way (`Answered`, at most the
delay), just stored and without its expiry (`JustStored`), and cached
(`Lives`: the time left of the cache shrinks as the key's age grows). At
`Return` the bound is the sum of both (`Returned`).

*Windows.* `StoreOK`: the window of a store ends no later than a refused
client was told, plus a second; `ToldLongEnough` is the arithmetic of cut and
rounded seconds. For the bursts, `LetIn` splits the last window's length at the
start of the present window: since then at most what it counted, and at most
the limit, was let in; before it at most the limit, because a window is as long
as the length looked at, so that only one can have ended within it.

*Records.* The steps compare what was read earlier with what is committed now,
so `Inv` says what of it lasts. `RowsOK` with `References`: committed and
prepared rows refer to rows of their tenant. That survives every change because
tables only grow: `Grown` says that a step keeps each row, perhaps in a later
state (`Later`: a stage, a revocation, an expiry), and everything proved of
references, readers and winners is proved once for a growing database
(`GrownRows`, `GrownReader`, `RequestStays`). `Fresh`: the id of a prepared row
is free and no other request's. `WonOK`: a row like that of a winner is in its
table, which the unique constraint then refuses to a second one. `InterviewerRole`
is where a new admin of a new tenant could gain a role, and does not. `ListOK`:
whatever is due is on a page shown or ahead of the cursor, and all that was
shown is behind it; `PageIsFirst` is the lemma about the first `PageSize`
numbers of a set. `ReportOK` counts by an injection from feedback to
interviews. `FeedOK`: a subscription that was revoked when the request came
still is, and an interview keeps its tenant and interviewer.

Model-checked only: liveness (`RequestsEnd`, `EveryEventMaterialises`,
`EverythingSettles`, `EveryDecisionSettles`, `DueIsPurged`, `ValidationEnds`),
because the prover reaches neither fairness nor ENABLED. Every safety invariant
and action property of the runs that TLC finds true is also a theorem.

## 7. Not modelled

- The audit reader, one read-only query; health checks.
- Settings, metrics, logs and traces; migrations and infrastructure. The
  constraints are read from `shared/models.py`, and cascades never fire because
  no route deletes a parent row.
- `icalendar.py`, which formats a feed; the counts of cases and offers in a
  report, single reads that nothing compares.
- The checks of an uploaded document and the malware scan, which are a choice
  of refusing; request schemas, which refuse before any handler runs.
- The text of an email and the request to SendGrid; what a worker sees of a
  send is in `DeliveryWorker`. `last_error` and the backlog gauge.
- Signature and claims of a token, checked by a library.
- Which client a request is counted for (address headers), and that the
  memory limiter never forgets a client.
- The SQLite engine of the tests, which shares one connection between threads.

Known and in the models, with no promise in the documents that it breaks: the
loser of a race on a unique constraint gets 500; a crash between file and
commit, or an undo that fails, leaves a file without a row; a commit that
raised and took effect leaves a row without its file, which the list shows and
a download answers with 410; two overlapping purges record a case twice;
`refresh` by another thread makes `get` return None, a 500; a tenant beyond
the batch size is never reached by the retention worker. No property speaks of
these, except that `KeptUntilDue` allows no other row without its file.

## 8. Where the code and its documents differ

Each line has a configuration that ends in a counterexample. The first two are
runs and findings of `PROJECT.json`.

| configuration | property | the documents | the code |
|---|---|---|---|
| `MCDeliveryWorker_toctou` | `OnlyHolderFinalizes` | only the lease holder finalizes (`src/README.md:166`) | `_fail` updates by id after a guarded SELECT |
| `MCCaseFiles_hold` | `HoldIsHonoured` | a case can be placed on legal hold (`src/README.md:112`); the purge takes cases without one (`test_candidate_retention.py:41`) | the hold is looked at in the SELECT only, not when the case is written |
| `MCOfferWorkflow_bypass` | `ApprovedStageNeedsApprovedOffer` | an offer is approved in order, then the case (`src/README.md:16`, `src/docs/architecture.md:161`) | the stage endpoint makes the same moves without an offer |
| `MCOfferWorkflow_refused` | `RejectionIsNeverRefused` | a rejection at either step rejects the offer (`src/docs/architecture.md:168`) | not when the case has moved on: the request fails |
| `MCOfferWorkflow_audit` | `StageChangesAreAudited` | commands write audit records (`src/docs/architecture.md:107`) | the offer commands move cases and write none |
| `MCDeliveryWorker_exhausted` | `ExhaustedIsNotClaimed` | exhausted work becomes a dead letter (`src/docs/architecture.md:211`) | a crash on the last attempt leads to one more claim |
| `MCCaseFiles_leftovers` | `AnonymizedHasNoFiles` | a purge removes private metadata and bytes (`src/README.md:112`) | an upload that commits after the select leaves both, and no later purge selects the case |
