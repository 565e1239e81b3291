# A TLA+ verification of scholight

scholight is a research-paper service: it ingests arXiv papers into a vector store,
answers searches over them, extracts web pages, and runs *Surveys*: long generated
literature reviews that are drafted, started, executed by workers, archived on S3 and
announced by email. A personal deployment of it is released and migrated by scripts that may die
at any point. Its difficult part is the Survey subsystem: several processes on
several hosts share PostgreSQL tables under leases, a daily allowance is charged, hosts
crash, and what a user sees must stay consistent. Around it stand the ingestion of papers
into two databases, the checkpoints and archives of a Survey on S3, the extraction of web
pages by a bounded set of worker processes, the admission of searches and the engine behind
it, and the releases. All of these are modelled; what is left out is listed at the end.

Paths are relative to `src/scholight/` unless they start otherwise.

## 1. The system

| Component | State it keeps | Operations | Interacts with |
|---|---|---|---|
| Survey tables (`db/queries_survey.py`, `db/queries_survey_drafts.py`, `db/survey_locking.py`, migrations 005, 013) | `survey_daily_usage` (reserved and succeeded counts of a user's day), `surveys`, `survey_drafts`, `survey_jobs`, `survey_email_notifications`, `survey_artifact_cleanup_outbox` | create, revise, start, cancel, delete; claim, heartbeat, settle, finish, defer, mark workspace missing; sweeps; operator repairs | every Survey process, by transactions that lock usage, survey, job, drafts in this order |
| Resident workers (`survey/worker.py`, `survey/draft_worker.py`, `survey/process.py`) | asyncio tasks, one per claim, with a heartbeat loop and two events (lease lost, stop); run directories on the host's disk | claim, run RCM in a subprocess, settle, archive, sweep; recover expired leases | the tables; S3; RCM |
| One-shot compute (`survey/control.py`, `survey/control_lambda.py`, `survey/one_shot.py`, `db/queries_survey_attempts.py`, migration 014) | `survey_compute_attempts`; ECS tasks; a session lock | reserve, launch with an idempotency token, record, claim exactly, heartbeat, close on STOPPED, reconcile | the tables; ECS; EventBridge |
| Email outbox (`db/queries_survey_notifications.py`, `survey/notification_worker.py`) | notification rows with lease, attempts, backoff | claim, send, complete, retry, recover | the tables; the mail service |
| Cleanup outbox (`db/queries_survey_cleanup.py`, `survey/cleanup_worker.py`) | jobs whose S3 objects must be removed | claim, delete objects, complete, retry, recover | S3 |
| Survey archive (`survey/artifacts.py`, `survey/recovery.py`, `survey/quality_repair.py`) | objects under a prefix per job, a manifest written last, append-only overlays of the operator | upload, verify, restore, overlay, resolve, delete | workers, operator, cleanup |
| Checkpoints (`survey/checkpoints.py`, `survey/resumable_runner.py`, `survey/durable_workflow.py`) | manifests and blobs on S3, a pointer in `survey_jobs` | save, commit the pointer, adopt a successor, restore | one-shot tasks |
| Ingestion queue (`db/queries_ingestion.py`, `scheduler/ingest_worker.py`) | `ingestion_jobs` with leases and attempts | enqueue or promote, claim, renew, release, complete, fail | metadata sync, full-text installation |
| Full-text installation (`store/fulltext_install.py`, `store/ingestion.py`, `db/target_ingestion.py`) | a recovery manifest, phases recorded in PostgreSQL, chunks in the vector store | prepare, upsert, verify, delete the old, flag the paper | vector store |
| Metadata sync (`scheduler/metadata_sync.py`) | a day cursor | sync a day, advance, reconcile recent days | arXiv, ingestion queue |
| Search admission and usage (`api/search_execution.py`, `api/search_access.py`, `db/queries_quota.py`, `db/queries_anonymous_quota.py`, `api/usage_tasks.py`) | counters per user or address and day, a bounded queue of usage events with one writer | reserve, search, enrich, compensate, record, drain | search engine, history |
| Web extraction (`web_extract/`) | a gate with a bounded queue, flights by key, memory reservations, worker processes | acquire and release, join a flight, transfer a reservation, restart | API |
| Execution of one claim (`survey/worker.py`, `survey/process.py`, `survey/diagnostics.py`, `survey/evidence.py`, `survey/finalizer.py`) | the RCM process and two events, the run directory, what its event stream told | start, repeat after a provider's failure, assemble, audit, repair cards, stop | resident workers |
| Search engine (`search/`, `store/query.py`) | none of its own | candidates, filters, fusion, ranking, in several calls of one search | vector store |
| Personal releases and private migrations (`scripts/release_admission.py`, `scripts/personal_apply.py`, `scripts/personal_migration.py`) | a journal on S3 per release and migration, the runtime stack, registrations | plan, apply, resume, migrate | CloudFormation, ECS, the admission controller on the host |
| Parsing, report rendering, CLI, logging | none, or one process's own | pure transformations | - |

What is hard about it: a worker that has lost its lease does not know it yet; a lease that
expired can be revived by its owner or taken over by another; the answer of a commit or of
`RunTask` can be lost; hosts die between two transactions and lose their disk or keep it;
cancellations race settlements; a STOPPED event is late, repeated or missing; and the day's
counters are moved by seven different transactions.

What makes the components correct: a survey is charged at most once, never against a
cancellation and never beyond the day's limit; it is executed by one claim at a time; it
comes to an end whatever fails; the report that was paid for is delivered as long as its
disk lives; nobody loses track of archived objects; emails tell the truth; the limits on
simultaneous work hold for the work that really goes on. A paper's text in the vector store
is of one version at every moment, and no announced version is forgotten; a checkpoint never
falls back to an earlier stage, loses no finished unit but one whose progress could not be
written, and a task never runs again what it finds published; an archive that is finished can be
read, and one that is deleted leaves nothing behind; memory, slots and
workers of the extraction come back whatever is cancelled or killed; a search is charged on
one day, refunded on the same, recorded as what it was, and answered soundly although the
collections change under it. A readable report is never taken away by what comes after it,
but by a repair whose process cannot be created, fed or stopped; a charged one is complete, and no
process outlives its claim. No background worker of one release
runs beside the runtime of another, and a migration runs once and before its use.

## 2. The modules

| Module | Models |
|---|---|
| `SurveyLifecycle` | The abstract specification: phase, charge, verdict and cancellation of each survey. No workers, leases or counters. |
| `SurveyStore` | The tables and every transaction that writes them, one action each, and what the tables promise. |
| `SurveyQueue` | Resident mode ("legacy" dispatch): users, job workers step by step, draft workers, sweeps, email worker, operator, crashing hosts. Extends `SurveyStore`; refines `SurveyLifecycle`. |
| `SurveyCompute` | Event mode for full surveys: the control cycle, ECS, one-shot tasks. Extends `SurveyQueue`, whose worker steps the tasks take under the id of their attempt. |
| `SurveyExecution` | What one claim executes in the resident mode: the RCM process and its repetition, assembly, audit, the repair of cards, and the heartbeat that stops all this. |
| `SurveyDiagnostics` | Operators for `SurveyExecution`: what the host reads out of the events of the process and out of its files. |
| `SurveyCheckpoint` | The resumable workflow of one job on one-shot tasks: units in stages, their publication (objects, manifest, pointer), restore, successor adoption, settlement, archive. |
| `SurveyUnits` | Operators for `SurveyCheckpoint`: the order of the steps, how plans fan a step out into units, and how a unit ends. |
| `SurveyArchive` | The archive of one job object by object, the operator's overlays, deletion and the cleanup outbox. |
| `Ingestion` | Metadata synchronisation, the ingestion queue and the installation of full texts, in its three deployments (lean, full, bound destination). |
| `WebExtract` | The extraction runtime: requests, shared flights, gates with queues, serial worker processes, memory envelopes, scratch files. |
| `SearchAccess` | Searches around the engine: minute window, daily quota, compensation, usage events. |
| `SearchEngine` | Operators: the pipeline of a search, phase by phase, as a function of what the collections hold at each of its calls. |
| `PublicSearch` | `SearchAccess` with the answers of `SearchEngine`, and searches of the command line beside it. |
| `ReleaseAdmission` | Releases and private migrations of the personal deployment, with the stack, the controller, the workers and the journals. |
| `SurveyProofs` (for `SurveyStore`, `SurveyQueue` and `SurveyCompute`), `SurveyCheckpointProofs`, `SurveyExecutionProofs`, `SurveyArchiveProofs`, `IngestionProofs`, `WebExtractProofs`, `PublicSearchProofs`, `ReleaseAdmissionProofs` | The theorems about these modules and their proofs (section 5). |
| `MC...` | The small instances for TLC. |

**SurveyStore.** One record per row, without the columns that only display. A transaction
is atomic because it takes the row locks of its aggregate first and, for claims, the
advisory lock of its queue; one that raises changes nothing and is not an action. A retry
of an accepted request returns the stored row and is a stuttering step. Time is
abstracted: a lease is none, live or expired by the database clock, a deferred archive is
due or not. A survey has one job at most and is named like it. Of the drafts of a survey
the model keeps the active one, the revision it is based on and the latest ready one. The
fairness order among candidates (by user turn, then age) is left open, so every property
holds for any order. `DeleteSurvey` keeps the quota state of the removed row as history:
the counters are about it.

**SurveyQueue.** A `Worker` is a claim slot. The code draws a new `worker_id` per claim; a
slot claims again only after its previous task has ended, so the slot can stand for the
id. `task[w].pc` follows `process_survey_job`: `start` (claimed, no run directory),
`execute` (RCM runs), `settle` (the result is in hand, the lease was checked before and is
not checked again but by the transaction), `archive`, `upload`, `sweep`. The heartbeat is
concurrent: it renews, sees a cancellation (and then stops renewing, as the code does), or
finds the lease lost. `HostStops` ends all tasks of a host at any point and may take its
disk. What an execution reports (`Reports`) is nondeterministic: RCM is not modelled.

**SurveyCompute.** The lease owners are attempt ids. `control` is the serialized control
cycle between two of its transactions; `ControlStops` ends it anywhere. `RunTask` may be
refused, accepted, or accepted with a lost answer; it is idempotent in the token. A stop
is reported through the ARN only. The reservation of one kind counts all active attempts.
`SurveyCompute` starts with surveys that are already queued: drafting and starting are the
same transactions in both modes and are covered by `SurveyQueue`. Only full jobs are
modelled; `DraftWorkers` is empty in its instances.

**SurveyExecution, SurveyDiagnostics.** A step is what the coroutine does up to its next await;
the heartbeat may stop it between any two. A run directory is a record of what the code reads out
of its files (a card is absent, unreviewed, reviewed, marked, ...), an event stream what
`_collect_stage_timings` learns from it. RCM leaves any directory and tells anything, as far as
`MaxDefects` allows (section 3). The audits and the classification of failures are operators.

**SurveyCheckpoint, SurveyUnits.** One task at a time owns the job (`OneTaskPerJob` of
`SurveyCompute`), and may die or lose its lease anywhere. A unit is `todo`, `running`, `returned`
(its file is on disk, not published) or `done`; which units a stage has is read from the plans that
earlier units wrote, and a malformed plan ends the run. Publishing takes the file's hash, uploads
what S3 does not have, puts the manifest and then moves the pointer by a compare-and-set; each is a
step, and the answer of the last may be lost. A new task restores the pointer's manifest and adopts
the one published successor. `Rewriters` says which units write their files again in which task
while others are published. After a commit the task has moved on to the new sequence and hash before
it writes the progress of the survey. If that fails, the executor never counts the unit as done, but
a unit that runs beside it publishes its own list on top: the second case of `CommitPointer`.
`slipped` remembers to which units this has happened since the last commit that counted or the last
restore. Manifests carry their sequence; the hash of a parent is represented by the parent's units.
`by` is a history variable, the task that has published a manifest; a cancellation is noticed at the
end of a unit and not kept across tasks; the limits on units at once (4 and 2) are never reached by
the instance.

**SurveyArchive.** An upload is taken apart into a put and a verification per object, the
manifest last; the claims, leases and the final transaction are those of `SurveyStore` in
short. `stray` remembers that somebody put an object who had lost the job: the thread of an
upload is not stopped when its lease is gone. `"report"` stands for all files that are equal
in every attempt, `"run"` for `run.json` and the PDF, which are made anew. A SHA-256 is
represented by the contents. The cleanup knows the archive by its manifest, and when that is
missing by its prefix.

**Ingestion.** A day is a set of announced versions in pages; a sync run may die between the
vector store, the ledger and the queue, or fall back to a partial source. A job row carries
version, status, attempts and lease; a worker installs in the steps of
`store/fulltext_install.py`. `profile` is the deployment: `lean` keeps metadata only, `full`
is the ordinary queue, `bound` the destination with a per-paper lock and receipts. When a
destination is adopted, the old queue's rows stay in their own table: `legacy` is the version of
each paper that they had done. `CursorCovers` counts a row of either queue only for the version that
it is for. Adoption takes the unfinished rows from a window of dates that the operator gives; it is
assumed to reach back far enough. Left out: the loss of the connection that holds the advisory lock, priorities among claims, the
change of the profile's hash.

**WebExtract.** A request joins the flight of its key or starts it; the job of a flight goes
through download, parser and perhaps browser. The actions cut the coroutines at their awaits,
in places finer: the model has then more interleavings than the event loop. The memory guard
is a refusal that may always happen. A chunk of the body is one step that grows the envelope.
Left out: the result caches, stop timeouts, the shutdown of the service and the limit of 32
keys.

**SearchAccess.** One process; the quota tables are rows per day. Every answer of the
database may be lost and every await cancelled. What the engine finds is the matter of `PublicSearch`. The
history queue is the same machine as the usage queue. A statement that is cancelled and
still committed later by the server is left out.

**SearchEngine, PublicSearch.** A paper is a number, its place in the order of the IDs; a query is
the scores that vectors and BM25 give to papers and chunks, as fractions where the code divides. A
search takes a state of the collections for each of its calls, later ones for later calls. Level 3
does not exist in the code either. `Sound` says what any answer must be: ordered, of papers that
exist and fit the filters at some call, thorough where that was asked for, and the beginning of what
a larger request would have got. A sort is an arrangement without inversions (`Arranged`), whichever
ties it breaks.

**ReleaseAdmission.** One operation at a time holds the workflow's concurrency group and may die
after every step; a later one resumes it from its journal, others may come in between. CloudFormation
changes the stack or rolls it back; the controller loads registrations when it likes and acknowledges
what it has loaded; workers start from what it has loaded and stop late. Manifests, bindings and
receipts are valid or refused as a whole.

Rows are updated with nested `[f EXCEPT ![s] = [@ EXCEPT !.a = .., !.b = ..]]`: the prover
reads two `![s].a`, `![s].b` clauses of one EXCEPT wrongly, and an `@` inside a nested EXCEPT's IF, so these forms are
avoided.

## 3. The runs

| Run | Instance | Shows |
|---|---|---|
| `queue_hosts` | 1 survey, 2 workers on 2 hosts with disks that may be lost, 1 draft worker, 2 revisions, all five results | the tables' invariants, single execution, fencing, tracked archives, and that every step is a step of `SurveyLifecycle` |
| `queue_two` | 2 surveys of one user, limit 1 a day, 1 slot, 2 workers on one durable host | the counters and the limit over two surveys, and that a charged report is delivered while the disk lasts |
| `queue_live` | 1 survey, 2 workers on 2 hosts, under fairness | a started survey ends, a draft is decided |
| `compute_live` | 1 survey, 3 attempts of which 2 may start, slots to spare, under fairness | one task per job, harmless late stops, the steps of the life cycle, and that the stop of a tracked task gets recorded |
| `compute_two` | 2 surveys, 1 slot, 2 attempts | the limits hold for the tasks that run |
| `ingest` | 1 paper announced and revised, 2 workers, 2 attempts, 1 fault, through all three deployments, under fairness | the cursor, receipts, replacement of a text, and that the queue drains |
| `checkpoint` | 8 steps, 1 seed, 1 card, 2 parallel sections, one of them rewriting in the first of 2 tasks | stages durable, no replay of what is published, complete delivery, no falling back |
| `execution` | 2 papers, 1 section, 2 attempts, up to 2 defects, 2 kinds of failing completion, under fairness | what is charged is complete, a readable report is hidden by a broken repair only, no stray process, and that it ends |
| `extract` | 2 requests for one URL, shared or not, one slot and one waiter per gate, 1 kill, under fairness | permits and memory, replies to their own callers, shared work, and that the service drains |
| `search` | 1 search of a user, 2 of an address, limit 1 a day, 2 days, a queue of one event; 1 search of the command line; 3 papers whose rows change | counters, limits, usage, and that answers are sound |
| `release` | 2 releases and 1 migration between 2 manifests, one legacy, one with a new schema | workers are of the deployed release, a migration runs once and before its use |
| `archive` | 2 attempts to archive, 1 repair, 1 cleanup task with 2 tries and 1 fault, under fairness | the archive is readable, a cleanup is complete, and it ends |

*Bounds.* Two workers are the fewest that can take over from and race each other; a third
adds no new pair, and what is proved below holds for any number. One survey suffices for
everything about one row's life; the counters and the slots relate surveys, so they get
two. Two revisions reach the cap on revisions and a draft based on an earlier one (ten in
the code). Three attempts with two starts allow a first task, its successor and a third
one that the budget must refuse (three starts in the code; eight archive retries become
one). In `queue_two` surveys and workers are interchangeable and declared symmetric, in
`release` the releases; no liveness run uses symmetry.

`ingest`: an old and a new version and two workers are what it takes to install one text
under another; the fault is a worker that dies in any step. `checkpoint`: two tasks are a
first one and its successor, the second restores what the first left in any state; two
sections of one stage are the least that publish concurrently. One of them writes its file twice, in
the first task, whose checkpoint the second one restores. The steps kept are those whose place or
whose end differs from their neighbours'. `execution`: a directory or a set of alarms
differs from a perfect or an empty one in at most `MaxDefects` places, since the audits look at
one or two places at a time; `MaxEvents` bounds the events of a process that matter. `extract`:
two requests for one key share a flight and leave it in any order, or compete for the gates;
the second waiter of a gate is the one that is refused. `search`: three searches with a limit of
one are a charged, a refused and a late one; the second day is what a refund may hit wrongly; the
counters and limits are proved for every instance. `release`: two releases and a migration are the
fewest of which one may come between the two halves of another. `archive`: two uploads are all
that the keys of the objects can tell apart; the second try of the cleanup sees any partial
deletion of the first. A deletion with errors removes one object or none.

*Deadlock* is not checked: every survey may have ended or been deleted, and then nobody
has to act.

*Mutants.* Each property of a passing run has a mutant of the code's definition that
breaks it: a dropped guard, a forgotten counter, a fence that is not checked. They stand
in the modules just before the definition they replace and are used by no specification.

## 4. Fairness

`SurveyQueue!Fairness`: a task that does not wait goes on (WF: the event loop runs it);
sweeps and clocks run (WF: periodic loops); a lease that nobody renews runs out (WF); a
queued or due job is claimed sooner or later (SF, by survey: candidates are ordered by
turn and age, so none is passed over for ever, although it may be locked or out of a slot
at any moment); and not every attempt to archive is interrupted before it succeeds (SF).
Nothing is assumed of users, of the operator, of heartbeats, or of failures.

`SurveyCompute!ComputeFairness`: a control cycle comes to its end (WF); a stop that
reconcile or an event can see is looked at again, since the cycle runs every minute (SF,
since the cycle may be busy or die), and not every cycle dies before it records it (SF); a
job that stays reservable is reserved (SF). Nothing is assumed of ECS or of the tasks.

`Ingestion`: workers, claims and the synchronisation go on (WF), leases of dead workers run
out (WF); faults are bounded and nothing makes a source answer. `WebExtract`: the event loop
runs what is ready, timers and deadlines fire (WF); neither the network nor a worker process
need ever answer - that every request ends is due to the deadlines alone. `SurveyArchive`: the
cleanup is claimed and recovered and its calls are answered (WF); uploads, repairs and the
user are not fair. `SurveyExecution`: the event loop goes on and a process that was sent SIGKILL
goes away (WF); that the time limits fire is only the premise of `ExecutionEnds`, since the process
may work for ever without them. `SurveyCheckpoint`, `PublicSearch` and `ReleaseAdmission` state
safety only, and no fairness.

## 5. What is proved

TLAPS checks the proof modules to the last leaf, for all values of the constants that satisfy
the modules' named assumptions: any finite sets of surveys, cards and searches, any sets of
workers, hosts, attempts, papers and releases, any limits. The assumptions (`StoreConstants`,
`QueueConstants`, `ComputeConstants`, `IngestionConstants`, `SearchConstants`, `PublicConstants`,
`EngineConstants`, `CollectionConstants`, `ReleaseConstants`, `ArchiveConstants`, `DiagnosticsConstants`,
`ExecutionConstants`, `UnitConstants`, `CheckpointConstants`, `ExtractConstants`) are types, finiteness, and that a model value like `NoWorker` is none of
the things it stands beside. A few say a little more. At least one revision can be made (ten in the
code), a paper has at least one chunk and a day of announcements at least one page. An overlay is
not named like the base (its prefix is a hash of its contents). The steps of an instance stand in
the order of the workflow (`UnitConstants`). A worker process of the extraction takes one call at a
time, and a scratch file reserves at least one unit. A collection holds finitely many papers and
chunks, each query gives a number to each of them, and a filter passes rows only
(`CollectionConstants`). A manifest has a legacy or an
expanded schema as it was built, and the current one is not expanded before the migration.

Each argument is an inductive invariant, checked by TLC on the run's instance before it was proved:

| Module | Theorems | Rest on |
|---|---|---|
| `SurveyProofs` | Of `SurveyQueue`: `TypeOK`, `LedgerBalanced`, `QuotaFollowsStatus`, `RowsAgree`, `CancelledNeverCharged`, `NotificationTruthful`, `DailyLimitHolds`, `ExecutedOnce`, `LiveLeaseFences`, `ArchiveNeverOrphaned`, `ChargedMeansDelivered`, and `ImplementsLifecycle`: the resident workers implement `SurveyLifecycle` | `StoreInv`, `QueueInv`, `ShowsInv`, `DeliveryInv` |
| `SurveyProofs` | Of `SurveyCompute`: `OneTaskPerJob`, `TasksWithinLimits`, `LateStopIsHarmless`, `StepsOfLifecycle` | `ComputeInv` |
| `IngestionProofs` | `CursorCovers`, `ReceiptMeansInstalled`, `NeverHalfReplaced` | `CursorInv`, `InstallInv` |
| `WebExtractProofs` | `ResourcesAreBalanced`, `SharedWorkIsWanted`, `ReplyIsOwn` | `ExtractInv` |
| `PublicSearchProofs` | `QuotaIsKept`, `UsageIsTruthful`, that `PublicSearch` implements `SearchAccess`; the types and the limits of `SearchAccess`; `AnswersAreSound` | `SearchInv`; `AnswersAreOutcomes` |
| `ReleaseAdmissionProofs` | `WorkersAreCurrent`, `MigratedOnceBeforeUse` | `ReleaseInv` |
| `SurveyArchiveProofs` | `ArchiveIsReadable`, `CleanedMeansGone` | `ArchiveInv` |
| `SurveyCheckpointProofs` | `StagesAreDurable`, `PublishedIsNotReplayed`, `DeliveredIsComplete`, `ProgressIsKept` | `CheckpointInv` |
| `SurveyExecutionProofs` | `ReadableIsNeverHidden`, `NoStrayProcess`, `ChargedIsComplete` | `ExecutionInv`, `JudgedFits` |

*The tables and the resident workers.* `StoreInv` (types, quota, rows, cancellation,
notifications, counters) is preserved by every transaction whoever runs it (`StoreStepInv`); its
parts need each other: the counters balance because the quota state follows the status, a
cancellation is not charged because rows agree, and so on. The balance itself is an argument
about cardinalities: each transaction moves one survey between the sets that the counters count
(`QuotaMove`). On top of it `QueueInv` adds what the processes know: that a busy task has a
survey, that an executing task's survey was claimed and so cannot be claimed from the queue
again (`ExecutedWasClaimed`, because a survey never returns to the states before its run,
`NeverBackBeforeRun`), and that recovered surveys are charged. `ExecutedOnce` and
`DailyLimitHolds` are not inductive without these. `LiveLeaseFences` follows from a lemma
on the writes of each worker step: every one of them is conditioned on ownership, except
the repeated settlement, which changes nothing. `TypeOK`, `QuotaFollowsStatus` and
`CancelledNeverCharged` are proved only; the runs check what is more than these.

*The life cycle.* The refinement mapping reads phase, charge, verdict and cancellation off the
rows. Its step theorem needs more than `QueueInv`: a cancellation that is settled was asked for
(`StopWasAsked`) and a survey that is being cancelled has run (`CancelsRan`); the abstract
allowance is kept because the ledger is balanced. The same step lemmas serve `SurveyCompute`.

*Delivery.* `ChargedMeansDelivered` is proved under `OneDurableHost`: all workers are on one host
and it keeps its disk. This is not a restriction of the proof: with two hosts the property is
false, because a takeover by the other host loses the directory of the first (section 6).
`DeliveryInv` says that a settled report that is not archived lies on that disk (`ReportsOnDisk`)
and that a task past its execution keeps it there (`TasksKeepDisk`).

*One-shot tasks.* The limits count attempt rows and the claim is about tasks. `ComputeInv` joins
them: an attempt is closed only after ECS has stopped its task, a task claims only for the attempt
that it was launched with, and a job has one active attempt since a reservation needs that it has
none. The set of occupied slots is finite because a reservation adds one element. A late stop is
harmless because the job's owner is the id of an attempt and ids are not used again.

*Ingestion.* `CursorInv` needs that nothing of a page is owed when the next day is fetched, and that
nothing counts as done by an old queue (`legacy`) before the destination is bound. The
installation rests on the lock of the paper (one worker holds it in a bound destination,
`OneHolds`), on the recovery manifest, which is recorded before the first write and names
everything that may lie in the store beside the new chunks (`ManifestsTell`), and on the condition
that a preparation is recorded only while the version is still the paper's.

*Extraction.* `ExtractInv` says of each gate who owns a permit, who waits and what is granted
(`PermitsFit`): owners and granted are what the gate counts, who waits owns nothing, and nobody
waits beside a free permit. Each operation on a gate is one lemma about one gate (`ReleaseFits`,
`TakeFits`, `EnterFits`, `LineUpFits`, `GiveUpFits`, `CancelFits`), so a step of a job is a chain of them:
a job that gives up a wait whose grant it has not seen takes the permit and gives it back. The
budget is the cardinality of the units that jobs and starting processes hold (`HeldChanges`).
An allowance for a startup belongs to a job that is starting or stopping that process, and
what a process owes to the job that is calling or stopping it (`ProcessesFit`); because the slot of a
worker has one owner (`OneOwner`), whoever gets the slot finds nothing owed. A flight holds
exactly the callers that wait for its key, and work is cancelled only when its flight is empty,
which nobody joins (`CallersFit`).

*Searches.* `SearchInv` adds what a search holds at each place of its code (`HoldingOK`: between
the reservation and the refund the row that counts it is that of the reservation), that no row
passes its limit, and that an event belongs to a search that is over, whose record no later step
changes. A reservation and a refund add or remove one element of the set that a row counts;
that the refund subtracts from the right row follows from `HoldingOK`. `PublicSearch` implements
`SearchAccess` step by step, so its two properties carry over.

*Answers.* The state only says that an answer is an outcome of its request
(`AnswersAreOutcomes`); the rest is about the functions of `SearchEngine`, from the sorting upwards. A
finite set can be arranged by any order with ties (`ArrangementExists`), so a ranking lists its keys
once each (`RankedLists`), and the order of the hits, which breaks ties by the paper, leaves nothing
open (`BeforeIsOrder`, `FinalIsSorted`): this is `Ordered`. Each phase is then one lemma about
whatever the collections hold at its call: `PaperSearchLists`, `RerankedLists`, `ByPaperFits`,
`AggregationFits`, `MergedFits` and, over the calls of one search, `LevelTwoFits` and `FoundFits`.
They say where a paper comes from (`CameFrom`, from which `Fits` follows, because the look-up of the
fusion is not older than that of the filter), that two shares of a half never come to more
than 1 / (k + 1) (`FusedIsBounded`) and that the chunks shown are the paper's own. `SizeOnlyCuts`
holds since the recall depth does not depend on a small `top_k` (`LongerFindsTheSame`) and a cut of
a longer cut is the cut (`CutOfLonger`). That the blended score of a paper is a fraction at all is
an induction over the fold that sums its chunks: the library's induction theorems cannot be
instantiated, but that a set of subsets of a finite set has a smallest member can be cited
(`SmallestSubset`, by `WFMin`), and with it `FoldExists` shows that the recursion of a fold has a
solution and each proof that its values stay in a set.

*Releases.* `WorkersInv`: whoever may start workers starts those of the deployed runtime, a
controller that is up to date has loaded what the stack says, and while another runtime is being
deployed nobody works and nobody may begin to; the places of the release say how it got there.
`MigrationInv`: receipts and records of done migrations are true of the database, and a release
that was planned without a migration did not need one.

*Archives.* While nobody puts an object who has lost the job (`stray`), only the owner's upload
changes the base, and after the manifest is written nobody does (`UploadsFit`); the layers of an
overlay chain lie on that base, and the objects of a layer are complete before its pointer
names it (`LayersFit`, `RepairsFit`). After a deletion objects only vanish, so what a cleanup
task has listed and what is still there lies among the keys it deletes (`CleanupFits`).

*Checkpoints.* What a step is fanned out into depends on files of earlier steps only
(`NeedsAreEarlier`), so two directories that agree on the units that are done agree on the plan of
the open step (`FansStay`). With that `CheckpointInv` compares the directory with the committed
checkpoint: they agree on what the task takes for done (`ExecutionFits`), whatever runs belongs to
the one open step (`UnitsFit`), and the files that were hashed are still those of all that does not
run (`PublishFits`). The manifests are told apart by their sequence (`ManifestsFit`): none is more
than one ahead of the pointer, and one that is (`Succeeds`) has every step that the pointer has
closed and misses none of its units but those that have slipped. A task knows the pointer or is one
commit behind it (`HeldFits`). What has slipped from it belongs to the open step, and as long as it
goes on there is another unit of that step which is not committed (`SlipsFit`), so the step that a
commit without the slipped unit leaves open is the one that was open before (`OpenIsBehind`): the pointer
never falls back. A task that locates its checkpoint finds the successor, if there is one, before
anything runs again, and behind the last step nothing is ahead of the pointer (`PointerIsLast`) and the task
knows it, although it may have missed a commit before.

*Execution.* `ExecutionInv`: there is a process only while somebody waits for it; when a result is
a success the coroutine is at a place from which no failure is returned and nothing raises but a
repair (`RepairIsBroken`, the exception of `ReadableIsNeverHidden`), and a process that still
lives is a repair, which writes cards but not the report; a charge is decided last, from a judgement
without any reason, which implies completeness (`FlawlessIsComplete`). The converse, that a run which
did all of its work is charged, needs that the judgement in the result is still that of the files
when it is looked at (`JudgedFits`: there is no index before an assembly, so an index says that no
write of it has failed), that everything the events may promise is a paper or a section and
every alarm is about a file of the contract (`CollectedStays`, an induction over the fold of the
collector like that of the searches, with the same lemmas), and then that a perfect directory gives
no reason (`PerfectHasNoReasons`).

*Only model-checked:*

- Liveness (`StartedSurveyEnds`, `DraftIsDecided`, `TrackedStopIsRecorded`, `QueueDrains`,
  `ServiceDrains`, `ExecutionEnds`, `CleanupEnds`): the prover has no rule for fairness.

Everything else that a run checks, every invariant and every action property, is proved.

## 6. Where code and documents disagree

The models show the following deviations. They are described here and not kept as runs.

*Surveys*

- Heartbeats revive expired leases without looking at the limits (`db/queries_survey.py:734`),
  so in the resident mode more jobs than allowed may hold live leases; in the one-shot mode
  the limits are kept (`TasksWithinLimits`).
- One deferred upload overwrites the error code that the operator's recovery needs in both
  rows (`db/queries_survey.py:940`): a contract failure is then not recoverable.
- A cancelled run whose disk is lost becomes a failure and is mailed about
  (`db/queries_survey.py:973`).
- After a takeover by another host the old host keeps its copy of the run directory
  (`survey/worker.py:1936`), and a charged report that only lay there is lost to the survey.
- A task that claims before its ARN is recorded is out of reach of every stop report; its
  attempt keeps a slot and its job for ever (`db/queries_survey_attempts.py:362`, `:435`).
  `TrackedStopIsRecorded` is therefore about attempts whose ARN was recorded.
- In event mode no sweep ends a running job whose window or budget is used up by clean exits
  (`db/queries_survey_attempts.py:286`, `:298`).
- One lost lease of an email or a cleanup ends the control cycle as failed, after the other
  deliveries were started (`survey/control.py:340`).

*One execution*

- A `DBError` while the progress is written, between the audit and the assembly, ends the
  execution as an exception (`survey/worker.py:1150`).
- A failure to create the process of a repair, to write its input or to stop it is not caught
  where the repair is optional (`survey/worker.py:1407`). `process_survey_job` settles what was a
  readable report as failed with `survey_runtime_unavailable` (`survey/worker.py:1982`) and the
  reader never sees it, while the reasons of a report that is not perfect are to "make a readable report free, never hidden"
  (`survey/worker.py:457`; also `deploy/ecs/README.md:731`). `ReadableIsNeverHidden` allows exactly
  this (`RepairIsBroken`).
- After a repair the diagnosis is started afresh and no model step counts as failed
  (`survey/worker.py:1570`), so what the first run missed is forgotten and may be charged.
- A process that fails because of its provider is repeated from an empty directory
  (`survey/worker.py:1685`), also when it has left the materials of a report that would have been
  assembled if it had ended well.
- The codes for sections in the repair of a report cannot be reached (`survey/worker.py:1624`).

*Checkpoints and archives*

- `survey/checkpoints.py:274` hashes the files of a unit and reads them again for the upload
  while other units may write the same directory: an object can hold other bytes than its key
  names, and the committed checkpoint cannot be restored.
- After a commit the task takes over the new sequence and hash and then writes the progress
  (`survey/resumable_runner.py:794`-`802`), which may raise (`db/queries_survey.py:767`). The
  executor does not count the unit (`survey/durable_workflow.py:89`-`90`), while a unit beside it
  goes on and commits a list without it under a sequence that fits: the committed checkpoint loses a finished
  unit, which a later task runs again. This is the `slipped` of `ProgressIsKept`; a closed
  stage is never lost.
- The contract of a unit looks at the existence and the size of its file
  (`survey/durable_workflow.py:32`): a file that an earlier task has left half written, and that was
  saved with the checkpoint of another unit, satisfies it when the unit runs again and writes nothing.
- A card or a seed whose run was cancelled or timed out counts as one that could not be written;
  the workflow goes on without it.
- An upload goes on when its lease is lost and writes the same keys
  (`survey/artifacts.py:280`, `:334`): it can overwrite objects of an archive that is already
  finished (`deploy/ecs/README.md:717` calls them immutable), and put objects after a deletion.
  `ArchiveIsReadable` and `CleanedMeansGone` hold as long as that has not happened (`stray`).
- The cleanup removes what the manifest lists: an object of an earlier attempt that the final
  manifest does not list stays, and so does everything after eight failed tries. Checkpoints
  are under another prefix and are not touched.

*Ingestion and extraction*

- In the `full` profile, without per-paper lock and receipts, two workers that install two
  versions of one paper may leave a mixture although the job has succeeded
  (`db/queries_ingestion.py:63`, `store/ingestion.py:225`); `ReceiptMeansInstalled` and
  `NeverHalfReplaced` are about the bound destination. There, too, an expired lease whose budget
  is used up is claimed once more (`db/queries_ingestion.py:258`).
- A fetch interrupted between the end of the body and its return leaves a scratch file that
  nobody owns (`web_extract/fetcher.py:298`).

*Searches*

- A request cancelled while its abstracts are fetched is neither refunded nor recorded
  (`api/search_execution.py:523` catches `Exception` only), while one cancelled during the
  search is.
- `search/level2/phases.py:150` and `:166` say that a chunk's index is not among the fields of a
  search, although `store/fields.py:95` includes it.
- A thorough search of the command line restricted to IDs ignores them when it looks for chunks.
- A chunk collection that is not loaded raises a `RuntimeError` that is not taken for an
  operational failure: the answer is `search_failed` (500) and not `thorough_search_unavailable`
  (503).

*Releases*

- A rollback to a legacy manifest enables ingestion again (`scripts/release_admission.py:333`).
- A release that is resumed while the migration task of another operation runs enables workers
  beside it.
- A migration task that could not be launched or that failed stays in the journal as it is and is
  not tried again.

## 7. Not modelled

- The email worker beyond the rows of `SurveyStore`: the machine of the cleanup outbox once
  more. Delivery is at least once.
- Parsing and chunking, the rendering of reports, charts and PDF, prompts, the excerpts of
  evidence, the CLI, the template of the runtime and logging: transformations without concurrent
  state, whose interesting properties are about text or numbers.
- Reconciliation, health checks and archives of the vector store: batch jobs of one process
  that an operator starts.
- API routes, MCP, sessions and access keys: request handling; what they change is changed by
  the transactions of the components above.
- PostgreSQL's deadlocks: transactions are atomic in the models; the database aborts one of
  two that block each other, and the code treats that as an error of the transaction.
- The vector database, S3, ECS, the mail service and RCM are external and modelled only by
  what the code sees of them.

## 8. Further work

The preparation and the reconciliation of the vector store; the caches and the
shutdown of the extraction; drafts in the event mode; the email outbox.
