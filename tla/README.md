# Nexus mail engine: verification project

TLA+ specifications of the campaign engine in this repository and of the web
panel that drives it, the TLC configurations that check them on small instances,
and theorems checked by TLAPS. Paths are relative to the repository's root;
`worker/` stands for `apps/worker/src/`, `api/` for `apps/web/app/api/`,
`server/` for `apps/web/server/`, `ui/` for `apps/web/components/`.

## 1. The system

A web application (Next.js, `apps/web`) writes campaigns, recipients and settings
to PostgreSQL; worker processes (`apps/worker`, scaled to several) read them, feed
BullMQ queues in Redis and send mails over SMTP.

| component | source | state it keeps | operations | modules |
|---|---|---|---|---|
| Recipient state machine | `worker/state/`, a trigger in `prisma/migrations/20260423190500_*` | `CampaignRecipient.sendStatus` | conditional UPDATE; trigger that rejects illegal transitions | RecipientLifecycle, Delivery |
| Delivery processor | `worker/processors/delivery.processor.ts`, `retry.processor.ts` | campaign counters and status, campaign log, account health | `processDelivery`, `finalizeCampaignIfDone`, `processRetry` | Delivery, SmtpAccounts |
| Fair scheduler | `worker/scheduler/campaign-dispatch.service.ts`, `fair-scheduler.ts` | caches, cursors | tick: pick, add job, claim row, requeue stale rows, backfill, end cooldowns | Delivery, Pacing, SmtpAccounts |
| Boot recovery, shutdown | `worker/scheduler/campaign-recovery.service.ts`, `worker/index.ts` | rows, jobs | rebuild jobs, reset rows | Delivery |
| Queues and locks | `packages/queue/src/index.ts` | jobs, lock keys in Redis | `add` with a job id, retries, `withDistributedLock` | Delivery, Lease |
| Orchestration | `server/campaigns/orchestration.service.ts`, `api/campaigns/**` | campaign, rows | create, start (chunked import), pause, resume, cancel, delete | CampaignControl, Creation |
| External API | `api/external/v1/**` | counters in Redis | create and start a campaign, limit of requests | Creation, ExternalLimit |
| Alibaba suppression sync | `worker/processors/alibaba-sync.processor.ts`, `server/suppression/alibaba-sync.ts`, `api/suppressions/sync-alibaba` | one state row with cursor, counters, lock | start, pause, resume, reset, page loop, retry, recovery; a synchronization within one request | AlibabaSync, AlibabaManual |
| Safety throttle | `worker/safety` | window in Redis and throttle of the row, per account | record an outcome | SmtpAccounts |
| Rates and pacing | `worker/rate`, `packages/rate-control`, `api/smtp/apply-daily-target` | token buckets, cached summary, rates in the rows | plan a daily target, effective rate, take a token | RateControl, Pacing |
| SMTP tests and health | `server/smtp`, `api/smtp/**` | in-memory test jobs, account health | bulk and single tests, resets, edits | BulkTest, SmtpAccounts |
| Queue administration | `api/queue/admin/route.ts` | - | pause, resume, clean jobs | QueueAdmin |
| Lists, recipients, suppressions, unsubscribe | `api/lists/**`, `api/suppressions/**`, `api/unsubscribe`, `server/unsubscribe` | tables, captcha rows | import, add, remove, suppress, lift, unsubscribe, captcha | Audience, Captcha, ListImport |
| Segments | `server/segments` | saved queries | query, numbers, export, import into a campaign | Segments, Creation |
| Tracking | `server/tracking`, `apps/web/app/track` | events, counters | record an open or a click | Tracking |
| Short links, templates | `server/short-links`, `api/templates/**` | links, templates | shorten a template, edit | ShortLinks, TemplateEditor |
| Secrets | `scripts/rotate-smtp-secrets.ts`, `packages/security` | encrypted passwords, ring of keys | encrypt, decrypt, rotate, verify | SecretRotation |
| Pages of the panel | `ui/**` | what a page shows and has chosen | requests under way at once | TablePage, LiveSend, ListImport, TemplateEditor, BulkTest |
| Sessions, dashboards, logs, seeds, benchmarks, deployment | `server/auth`, `scripts`, ... | - | - | - |

The components meet in shared rows and queues and hardly ever in calls: the
scheduler decides from a cached campaign, adds a job and then claims the row; the
processor reads campaign and row, waits, sends, and updates row, counters and log
in separate statements; the last deliveries to see no pending row each report the
campaign finished; start, pause, resume, cancel and delete change the campaign
under everyone's feet; a dying, stopping or booting process resets rows and
re-adds jobs. Hardly any sequence of statements runs in a transaction with another
one (the rotation script is the exception), and the only mutual exclusions are a
2 s lock of the scheduler, on which nothing depends, one lease per campaign and
kind of request, and a row lock of the synchronization. All the hard behaviour is
of this kind, and `PROJECT.json` lists it under `hazards`, each at its line.

What makes the parts correct:

* rows move only along the lifecycle the trigger allows; `sent` is said only of
  mailed recipients; nobody is mailed twice without a failure or an edit of the
  template; counters and log agree with the rows; no queued row is without a job; every row settles and the
  campaign ends; a stopped campaign falls silent; a finished one stays finished;
* of requests of one kind on a campaign one runs at a time; a start misses nobody
  and its target counts the rows; a cancel is thorough and final;
* Alibaba sync: one worker on the cursor at a time, no page lost, pause reaches
  `paused`, retries are bounded and continue;
* accounts: caps, throttle levels and cooldowns agree and end; the shares of a
  daily target reach it; buckets hold their rate; campaigns take turns;
* addressees: nobody who unsubscribed is brought back; lists keep their size;
  segments mean the same in numbers, exports and imports; passwords survive;
* what a page, a report or an answer says is what the database holds.

## 2. Plan

In order of importance; everything but the last item is on disk.
Each module `XProofs` holds the theorems about the module before it.

1. **RecipientLifecycle**: the trigger as an abstract specification.
2. **Delivery**: scheduler, queues, processor, recovery, shutdown, operator for
   one campaign and several processes; implements 1. **DeliveryProofs**.
3. **AlibabaSync**: operator requests, queue, page loop with failures, row lock
   and recovery. **AlibabaProofs**.
4. **Lease** (what the distributed lock promises) and **CampaignControl** (start
   with its import, pause, resume, cancel, delete), which implements it.
   **CampaignProofs**.
5. **SmtpAccounts** with **SmtpProofs**, **BulkTest**, **RateControl**,
   **Pacing**: the accounts.
6. **Audience** with **AudienceProofs**, **Captcha**, **ListImport**,
   **AlibabaManual**, **QueueAdmin**, **Segments**, **Creation**, **ShortLinks**,
   **Tracking**, **ExternalLimit**: the requests.
7. **SecretRotation**: the scripts that are run by hand.
8. **TablePage**, **LiveSend**, **TemplateEditor**: the pages.
9. **SmtpParts** and **PanelParts** instantiate the small modules of 5 to 8 and
   state what they promise together; **SmtpPartsProofs**, **PanelProofs** and
   **PagesProofs** prove it.
10. Left: making a list, the forms of settings (one read and one write each), the
   diagnostics of the scheduler; what section 11 lists as only model-checked.

## 3. Delivery: how it corresponds to the code

One campaign is modelled: campaigns share only SMTP accounts and batch sizes, which
are abstracted. `Recipients` are its rows, `Procs` worker processes, `Workers` the
slots of their BullMQ workers (`WORKER_CONCURRENCY`), `Home` maps slots to
processes.

State: `status`, `row`, `total`, `logged` are the database (campaign status,
`sendStatus`, the three counters, the `sent` log entries with their idempotency
key, which boot recovery forms differently); `mails` counts what SMTP servers
accepted; `version` is the version of the campaign's template, which every edit
raises and which is part of a job's id and key; `job` is the content of the delivery
and retry queues: `<<r, v, 0>>` is the job with the deterministic id of `r` and
version `v`, `<<r, v, n>>` its retry copy for the n-th attempt that threw; `ex` is the program counter and the local variables of each slot;
`sched` the local state of scheduler and recovery in each process (cached campaign
with the version of its template, picks of a tick, jobs added but not yet claimed, rows to reset and rebuild);
`phase` the life of a process; `cancel` the progress of `cancelCampaign`.

| actions | code |
|---|---|
| `Tick`, `Enqueue`, `ClaimEnqueued`, `RequeueStale`, `Backfill` | `dispatchFairBatch`: one step per statement that others can see |
| `Begin` ... `FinalizeWrite` (with `BeginReturns`, `ThrowEarly`, `ThrowInTry`, `ThrowInCatch`) | `processDelivery` from read to finalization: each database or SMTP call is a step, the early returns and throws are alternatives |
| `JobDone`, `JobThrew`, `MoveRetry`, `Evict`, `Added` | BullMQ as configured, the `failed` listener, `processRetry` |
| `Crash`, `Shutdown`, `Exit`, `Boot`, `ResetLost`, `RecoverRow` | process life: BullMQ's stalled jobs, `shutdown`, `recoverCampaignQueuesOnBoot` |
| `Pause`, `Resume`, `CancelStatus`, `CancelJobs`, `CancelRows`, `Suppress`, `EditTemplate` | orchestration; unsubscribe, suppression and caps; `PATCH api/templates/[id]` |

Abstractions:

* Time is left out: delays, back-off, ages (2 and 10 minutes), cache and lock TTLs
  may take any time, including none. The model therefore allows more
  interleavings than a healthy deployment shows.
* Account selection, rate and quota are nondeterministic: they decide between
  passing, skipping (`suppressed`) and throwing.
* Redis errors of `add` are a pick that the tick drops; database errors the code
  swallows (also in the look-ups of a delivery and of a finalization, which then
  return) and those inside the catch block are the event `dberror`; all others are
  `ThrowEarly`/`ThrowInTry`.
* Not modelled: a process dying between a throw and the retry copy the `failed`
  listener adds; a job that stalls twice (BullMQ
  fails it, hence the assumption of at most one crash); a new row or job between
  the reads of boot recovery. Start, restart and deletion of a campaign are the
  subject of CampaignControl.

### Properties

`TypeOK`; `SentWasMailed`; `LifecycleHolds` (refinement of RecipientLifecycle);
`OneMailEach`; `BooksAgree` (counters and log against the rows); `QueuedHasJob`;
`SilentOnceStopped` and `DoneIsFinal` (action properties); `EveryRowSettles` and
`CampaignEnds` (liveness). Each is explained where it is defined. Their premises,
and why each is there:

* `OneMailEach`: `mails[r] <= version`, while no attempt throws, no process dies or
  stops and no finished job is evicted. Without an edit this is one mail. An edit
  while the campaign runs makes a new id and a new key of every row that is added
  again, by a requeue, by a second process or by one with a cached campaign; the old
  job and the new one can both mail, without any failure. TLC finds the second mail
  when the bound is put to one.
* `BooksAgree`: the sent and the skipped counter never exceed their rows, and the
  sent one is exact without throws and crashes. The failed counter counts attempts:
  a failure is counted, a late claim takes the row from `failed` back to `queued`, and
  the row is sent after all. So it is compared with the attempts that threw, which it
  never exceeds, and with the failed rows, behind which it does not stay unless a
  database error or a crash comes between the two statements.
* `QueuedHasJob`: no attempt throws, nothing stops, is evicted, canceled or swallowed,
  and no process dies once the template was edited (recovery builds the id from the
  version of the moment, and deletes nothing of the old one). The run has crashes
  without edits; the theorem covers either.
* `EveryRowSettles`: all rows but the `Stranded` ones: those that a late claim puts
  back to `queued` in a finished campaign, and those whose job finished without a
  delivery because a database error was swallowed.
* `CampaignEnds`: no crash, throw or database error; each may come between the last
  row and its finalization, and nobody else finalizes.

## 4. AlibabaSync: how it corresponds to the code

The worker imports Alibaba's invalid addresses page by page into the suppression
table. Everything the parts share is one row: status, stop request, cursor, lock,
failure counters and the hashes of the cursors handed out.

State: `row` is that row; `job` the queue; `ex` the program counter and local
variables of each process's worker (concurrency 1); `rec` what its recovery timer
has decided but not yet done; `web` the requests of operators under way. `applied`
and `overlap` are history variables: the pages whose addresses were suppressed
since the last start, and whether a start or reset met a page in flight.

| actions | code |
|---|---|
| `Begin`, `BeginUnconfigured` | `processAlibabaSuppressionSync` up to `acquireAlibabaSyncLock` |
| `ReadRow`, `Page`, `PageFails`, `Commit`, `Finish`, `Release`, `MarkPaused` | one round of the page loop: a step per statement on the row |
| `ReadBatch`, `Continue`, `ClearLock`, `StopBatch` | the end of a batch |
| `FailRow`, `AddRetry`, `Catch`, `DbError` | `finalizeFailure`, the catch block, errors in and outside it |
| `RecoverRead`, `RecoverWrite`, `RecoverAdd` | `recoverAlibabaSyncJobs` |
| `Ask`, `Clear`, `PauseRow`, `ResumeRow`, `AddSyncJob`, `ReadMeta`, `SaveMeta` | `startAlibabaBackgroundSync`, `resetAlibabaSyncState`, `pauseAlibabaSync`, `resumeAlibabaSync`, `enqueueSyncJob` |
| `Crash`, `Unstall`, `Promote` | death of a process, BullMQ's stalled and delayed jobs |
| `TwoMinutes`, `RetryDue` | the clock, as far as the code compares with it |

Abstractions:

* A cursor is the number of the page it asks for, 0 is null, and a page holds one
  record. Hashes of cursors do not collide (the code keeps 32 bits of the hash of
  each of the last 500).
* Errors are classified by what follows: retried (`transient`), not retried
  (`permanent`), not retried but stored under a transient code (`stuck`: the
  cursor loop and the streak of empty pages, which is one event). The code of
  BullMQ's lock errors can only be found in rows of earlier versions.
* Job ids contain the time and are never used twice.
* The clock: two minutes pass without a write only while no worker is in the loop,
  or during a slow page; a stalled job is noticed when `lockedAt` is old, which
  follows from the worker's options (lock 300 s, renewed every 60 s).
* The row's four queries of the recovery are one read; a database error of the
  lock's UPDATE, which changes nothing, is left out. Resuming is modelled as the
  API accepts it, which is more than the buttons offer.

Properties: `TypeOK`; `OnePageAtATime` (two workers never have a page in flight);
`CompletedIsComplete` (no page is skipped); `PlaceIsKept` (the cursor does not move
back); `NoFalseAlarm` (a retried page is not taken for a cursor loop);
`SyncSettles` (liveness). `CompletedIsComplete` holds unconditionally but for a
start or reset that meets a page in flight. `OnePageAtATime` and `NoFalseAlarm`
hold of `Undisturbed` behaviours: one start or reset, with crashes, failed pages or
pauses, continuation jobs, retries and recoveries, but without a slow page, a
resume, an error of the bookkeeping, a process without credentials or a row left by
an earlier version. TLC on larger instances shows why each is named: a second
worker gets in beside a slow page; a resume re-opens a row whose worker is still
in its page, or one that is completed; a failed row is taken up by two recoveries,
each of which clears the lock; a pause of a row that waits for its retry leaves the
retry's job to the next run. `PlaceIsKept` is unconditional and so the run of its
instance states it; the theorem `PlaceStaysKept` is about undisturbed behaviours.

## 5. CampaignControl and Lease

One campaign under three requests of its operators, each at its own statement,
with schedulers and deliveries reduced to what the requests can see: a job reads
the campaign, settles its row and finalizes.

State: `status`, `deleted`, `due`, `targeted`, `losses`, `row` are the campaign and
its rows; `list` and `refused` the members of its list and those that are inactive
or suppressed; `job` and `fin` the deliveries and the finalizations that have read
and not yet written; `lock` the key of each action in Redis; `req` the requests.

| actions | code |
|---|---|
| `Acquire`, `NotAcquired`, `Expire`, `Crash` | `withDistributedLock`: SET NX with a token, compare and delete at the end, the TTL, a process that dies |
| `StartRead`, `StartQueue`, `ImportChunk`, `ImportFails`, `StartCount`, `StartRun` | `startCampaign`: check, queued, the pages of the import, the count, the blind update to running |
| `Pause`, `ResumeUpdate`, `Enqueue` | `pauseCampaign`, `resumeCampaign` |
| `CancelRead`, `CancelUpdate`, `CancelJobs`, `CleanBatch`, `CleanEnds` | `cancelCampaign` with its clean-up, in the request or in the background |
| `DeleteRead`, `DeleteWrite` | the deletion |
| `Dispatch`, `Begin`, `Settle`, `FinRead`, `FinWrite`, `ComesDue` | schedulers and deliveries |
| `AddMember`, `RemoveMember`, `Refuse` | edits of the list while the import pages through it |

**Lease** is the abstract specification of the lock: taken only when free, lost
only to the TTL, given back only by its owner. `LocksAreLeases` shows the lock of
each of the three actions to implement it (INSTANCE ... WITH, the clients inside
being the requests past `Acquire`), and `OneAtATime` that two requests of one kind
overlap only after an expiry. `ImportHolds`: whoever was in the list all along has
a row, however the list is edited, unless the membership under the cursor is
removed (then the next page is empty and the import just ends), and the target of
the progress bar counts the rows. `QuietCancelIsFinal`: a canceled, cleaned-up
campaign of which nothing is in flight stays so. `CancelDrains`, `RunningEnds`:
liveness. A delivery whose mail went out but whose row a cancel has cleaned up
returns without finalizing (`Settle`), so `RunningEnds` asks for one delivery that
will (`Finalizes`): if the rows of all that are left have been cleaned up, or if a
start sets the campaign running after everything was delivered and finalized, it
stays running for good. `NoRunningDeleted` is the property that fails.

Time is left out, so a lock may expire whenever it is held; a request is served
once and is its own lock token; errors of the database that a delivery swallows are
left to Delivery; a campaign is started from a list (segments and
queries are Creation's).

## 6. Accounts and sending

Modules of this and the next two sections are small and have each one subject, so
a short account of each is enough; the comments of the definitions say the rest.
They do not share variables. SmtpParts and PanelParts hold an instance of each and
the properties of all, and two runs check them: `smtp` and `panel` (section 10).

**SmtpAccounts.** Three records describe an account: `row` (health, throttle,
cooldown, last error), `window` in Redis, `count` of today's deliveries. A delivery
goes through `Gate` (pool, eligibility and quota, all from caches), `Accept` or
`Reject`, `Count`, `RecordRead`, `Judge`, `RecordWrite` and `WriteHealth`, one step
a statement; `Sweep` ends cooldowns; `Patch`, `ArchiveInUse`, `BulkDelete`,
`ImportAgain`, `ResetWrite`, `TestStart`, `TestEnd` are the requests of operators.
Failure counts are small numbers and percentages; MIME, TLS and messages are left
out. `QuotaBound` (those over the cap were past the gate together),
`SafetyAgrees` (level and throttle tell one story when outcomes are recorded one
after the other, each to the end: the row is updated before the window, so an error
between the two may leave a level above zero with a row that is not throttled; it
counts as `raced`), `ResetSparesAuth`, and `CooldownEnds`, which fails.

**BulkTest.** A job in the web server's memory whose loops share one cursor, one
result list and the time of the last mail; only what stands between two awaits is
atomic. `Orders` are the kinds of jobs: of passive accounts, with mails, and with
or without `updateHealth`. The update of an account may fail unnoticed (`missed`); a
password that cannot be decrypted ends its loop and the job as failed (`Throw`), as
does a query for the accounts (`ResolveFails`), while the other loops go on. The page
starts a job, polls it, and may start another. `CompletedAddsUp`, `MailsSpaced`, `CompletedShowsAll`, checked together as
`BulkTestHolds`.

**RateControl.** `apply-daily-target` reads the accounts (`ApplyRead`), writes them
one by one, then the pool, the running campaigns, the summary and the stamp; the
worker's cached summary is three reads (`ReadBust`, `ReadSummary`, `ReadPool`), each
of which may fail: the code takes that for an absent value, and caches the value of
the pool, or none, as if it were fresh. `RatePlanner` and `RatePlannerWrite` are the
two requests that count the accounts and then write one share to all.
The effective rate, the warm-up ladders and the planner's formulas are translated
with their rounding, in millionths of a mail per second. The shares cover the
target and reach it (`PlanCovers`, `PlanIsReached`, in `SharesHold`), and who has
seen the stamp uses no older summary (`SeenMeansFresh`, in `RatesHold`), unless the
summary could not be read when the cache was filled (`blind`).

**Pacing.** The token bucket of an account, polled by deliveries and replaced by a
full one when the rate changes, and `FairCampaignScheduler.nextBatch`. `Paced` (in
`RatesHold`) bounds what a bucket lets through by what it held and gained;
`FairBatches` (in `SharesHold`) compares `nextBatch` with the reference: no campaign
with work left is two behind another, and the batch is full if it can be.

**Creation.** A campaign is created for a list, a segment or a query and started,
while accounts, lists, segments and templates change; the external API checks,
creates and starts in one request. `CreationHolds`: the campaign is for those of its
query at creation (`TargetIsKept`), and the end of the external request tells whether
the campaign runs (`AnswerIsTrue`): it does with `ok`, and also with the two errors
that come after it was set running (`Launch`: the log, and `queue_unavailable`), and
with no other. The caller sees both as a start that failed, as it does for a failed
import; section 9 names it as a limit. In `SharesHold`: accounts of rows were fit at some moment of the
start (`PoolIsFit`), and rows are shared out by the strategy's weights
(`SharesAreFair`, against the arithmetic of full rounds).

**SecretRotation.** A password is its version and its word. Processes read the ring
of keys when they start; the operator introduces a new key, runs the script, and
retires the old one when `verify-smtp-secrets` is satisfied. The script reads all
rows (`ScriptRead`), updates each on the value it read inside one transaction
(`ScriptUpdate`, which gives up when a row has changed), commits or dies.
`RotationHolds`: `WordsAreKept`, `RotationIsComplete`, `EverybodyReads`.

## 7. Addressees and content

**Audience.** Recipients, lists and global or list suppressions. Each request on
them (import, add, add by id, remove, bulk remove, suppress, suppress all, by
scope, by failures, lift one, lift by filter, unsubscribe, validate, remove
invalid or suppressed, clear, resize, drop) is the sequence of its statements.
An unsubscribe reads its settings: it leaves all lists or none (`removeFromAllLists`)
and is suppressed or not (`addToSuppression`). `UnsubscribeHolds`: whoever was
suppressed by an unsubscribe stays so, whatever import is under way, until an operator
writes or lifts the suppression (`muted`); who left the lists as well is on none
(`out`), until somebody adds the address deliberately, and unless an import that was
under way at once puts it back. With the settings off nothing is promised.
`ListsWithinSize`, but for the lists in `loose`: additions that counted the same free
places.

**Captcha.** The row in Redis, its stand-in in memory, and confirmations that read,
judge and write it back. **ExternalLimit.** Windows in Redis and per process; a
request may be counted in both. `CaptchaHolds` (in `GatesHold`) and `LimitHolds` (in
`TotalsHold`).

**ListImport.** Chunks of a file under way at once, with their shared set of seen
addresses and one sum, with and without `dedupeGlobally`. An address may be left out
for up to three reasons and is reported under each (`CountedTwice`). `ShowsItsImport` (in `ReportsHold`), `ReportAddsUp` and
`OverrunBounded` (in `TotalsHold`).

**AlibabaManual.** The synchronization within one request, with its date range,
pages, cursor loop and bounds. `HandledHolds`, `DaysAreRight` and `CountsAddUp` (in
`ReportsHold`), `NoPageIsMissing` (in `TotalsHold`).

**Segments.** The query as a predicate on rows, events and suppressions; numbers,
export and import page through it while deliveries and events go on. `PagesAreExact`
and `NumbersAgree` (`SegmentsHold`).

**ShortLinks.** The template is a sequence of texts; its destinations are shortened
by one request of the service after another, of which answers get lost; an operator
enters, edits and deletes links meanwhile. `ShortenedThroughout`, `CampaignIsWhole`,
`TemplateIsKept` (`LinksHold`).

**Tracking.** A request looks for an event, writes one, counts the recipient:
`TotalsFitReached` (in `ReportsHold`) says by how much the totals may be off the
recipients reached, and why; `TotalsWithinEvents` (in `TotalsHold`) compares them
with the events.

**QueueAdmin.** Cleanups page through a queue by place and remove by id, while
workers take jobs, schedulers add some and campaigns change; a scan ends at
`MaxScan` jobs (1.5 million in the code). `CleanupSpares` (in `GatesHold`),
`CleanupIsThorough` (in `TotalsHold`: a cleanup that is left alone removes all jobs of
a campaign if the queue is within the scan's bound, and all stale jobs if it is within
one page, for behind that every page that is cleaned lets as many jobs move past).

## 8. Pages

What makes a page hard is that its requests are under way at once and an answer is
put into whatever the page shows by then.

**TablePage** is one specification of the tables of suppressions, SMTP accounts,
campaigns and lists; the record `page` holds what they differ in (does the query
carry the filters, does an answer patch its row, does the selection follow the
rows, which operations on many rows exist). `BulkIsExact`: what is done hits
exactly what was chosen at the click; `TableIsTrue`: at rest the table is what the
database holds, unless an overtaken answer came last.

**LiveSend** is the page that creates, starts and follows a campaign by a stream of
events: the server reads once a second, a slow reading may be overtaken,
connections break, the browser connects again, and may be refused for good.
`LiveShowsEnd`.

**TemplateEditor** is the editor, its single slot for a request under way, and the
routes it calls. `TextStaysHome`, `UsedStays`, `EditorIsTrue`.

All of them are part of `PagesHold`.

## 9. Disagreements and limits

A violated property states what a comment, a text of the panel or a script says.

* `delivery_duplicate`: "deterministic jobId already protects against duplicate
  deliveries" (scheduler, line 551) does not hold after one attempt that throws
  before its mail: BullMQ retries the job and the `failed` listener adds a copy; both
  find the row queued, and both mail. (After a mail the row is sent or failed, and
  later attempts return.)
* `alibaba_pause`: a pause during the page loop leaves the row `cancelling` for
  good; the interface says that the synchronization is being paused.
* `campaign_delete`: "Running campaigns must be canceled before deletion"
  (`api/campaigns/[id]/route.ts`, line 185). The route reads the status and then
  deletes by id; a start that is under way sets a campaign that was finalized
  meanwhile running between the two.
* `smtp_cooldown`: the cooldown after an error ends, but the account stays out,
  because nothing resets its health.

Limits that no text denies. The properties name them as exceptions, which is how
they were found:

* Delivery: a late finalization turns canceled into completed; a campaign is
  completed while rows are queued, and those are skipped; a claim after a failed
  attempt puts the row back to `queued`; a delivery that read the campaign before
  a cancel still mails; a template edited while its campaign runs gives rows that are
  added again a second job and a second mail; a failure counted before a late claim
  stays counted when the row is sent.
* Synchronization: a page in flight carries its cursor over a reset into the next
  run, which skips pages and reports completed; after a page slower than two
  minutes two workers share a cursor. By hand: an unreadable answer is an empty
  page that nothing reports.
* Orchestration: the last update of a start undoes a cancel, and leaves a campaign
  running for good whose deliveries were all finalized before it; removing the
  membership under the cursor ends the import early; at the start `smtpIds`,
  single mode and the account ids of the external API are ignored; an external
  start that fails midway leaves a half-imported campaign, and answers that the start
  failed although the campaign runs when its log or its queue fails afterwards; when all accounts are throttled with their
  cooldown over, the pool is empty; deleting a segment counts its campaigns first
  and one may come in between.
* Accounts: a throttle set without a cooldown is never lifted by the sweep; a quota
  read from the cache lets more than the cap through.
* Addressees: an import under way puts whoever unsubscribes back on its list (the
  suppression stays); two additions fill
  the same places; a list import started again counts beside the chunks of the
  failed one.
* Segments: the numbers ignore the filters on campaigns and dates, the export of
  "failed" takes other deliveries along, the one of "suppressed" overrides
  "exclude".
* Short links: a destination that begins another is replaced inside it; an answer
  without a URL becomes the base URL; an error midway leaves links nobody records;
  a failing log reports an error for a campaign that exists.
* Secrets: a process with the old ring cannot read what is new, which shows as a
  failed login; the verification reports stale passwords but exits with success; a
  legacy password with three colons is taken for an encrypted one and stops the
  script.
* Pages: an answer replaces what was typed since; a link is inserted into the
  template that is open when it comes; any answer frees the only slot; of two
  operators the later one wins; a table shows an overtaken answer until the next.
* Totals labelled as unique count a recipient twice for two requests at once, and
  never after one that was cut off.

## 10. Runs, bounds and fairness

Events the environment chooses (requests of operators, crashes, database errors,
evictions, slow pages, ...) are bounded by constants. Where they are called
`Budgets`, each member is a function from events to how often each may happen, and
a behaviour stays within one of them: a run with two budgets explores the
behaviours of each, and not the product of all events.

| run | instance | checks |
|---|---|---|
| `delivery_live` | 1 process of 2 slots; 1 crash, 1 throw, 1 edit of the template, or 1 database error | `EveryRowSettles`, `CampaignEnds` |
| `delivery_crash` | 2 processes of 1 slot, 1 crash, 1 version of the template | `QueuedHasJob` |
| `delivery_events` | 1 process of 2 slots; 1 throw; 1 throw and a database error; or once each: cancel and database error; pause, cancel and skip; crash and stop; stop and eviction; an edit of the template | `TypeOK`, `SentWasMailed`, `OneMailEach`, `BooksAgree`, `LifecycleHolds`, `SilentOnceStopped`, `DoneIsFinal` |
| `alibaba_live` | 2 processes, one of which continues by itself; a crash and a failed page, a database error, the time limit, a job without credentials, an old row and a failed page, or a pause and a resume | `PlaceIsKept`, `SyncSettles` |
| `campaign_requests` | 2 members, chunks and batches of one; three requests in three mixtures, 1 event | `TypeOK`, `OneAtATime`, `ImportHolds`, `LocksAreLeases`, `QuietCancelIsFinal` |
| `campaign_live` | a start with another or a cancel, 1 event | `CancelDrains`, `RunningEnds` |
| `smtp` | the modules of section 6, Segments and ShortLinks | `Types`, `QuotaBound`, `SafetyAgrees`, `ResetSparesAuth`, `BulkTestHolds`, `RatesHold`, `CreationHolds`, `RotationHolds`, `SegmentsHold`, `LinksHold`, `SharesHold` |
| `panel` | AlibabaSync with operators; the other modules of sections 7 and 8 | `TypeOK`, `CompletedIsComplete`, `OnePageAtATime`, `NoFalseAlarm`, `PanelTypes`, `AudienceHolds`, `GatesHold`, `ReportsHold`, `PagesHold`, `TotalsHold` |
| `delivery_duplicate`, `alibaba_pause`, `campaign_delete`, `smtp_cooldown` | the least in which it happens | a violated property each, section 9 |

`smtp` and `panel` put modules that share no variables into one run: `focus` names
the instance that a behaviour exercises, the others rest in one initial state, so
the state space is the sum of those of the instances, not their product, and each
property is that of its instance. MCSmtp and MCPanel give the instances their
constants, with comments where a bound is chosen for a case.

Why the bounds are enough:

* Delivery: two recipients, for every property is stated of a recipient, of the
  sum of counters, or of the last recipient against another; two slots are the
  least that interleave. `MaxFails` and `MaxVersion` bound the job ids; two versions
  are one edit, the least with two ids of one row.
* AlibabaSync: two pages are the least of which one can be skipped, in batches of
  one every page ends a batch; `MaxRetries` of two makes a retry happen and the
  last failure follow; the jobs leave room for the current one, the continuation,
  a retry and a recovery, and no job a worker adds for itself waits for room.
* CampaignControl: three requests, because a lock freed by a wrong owner needs a
  third to get in; two members in chunks of one, so that a start has an inside of
  its import (a start with a cancel has them in `campaign_live`); one event, of
  which each kind is enough for its exception.
* SmtpAccounts: two accounts and two deliveries, with a cap of one and windows of
  four outcomes: the levels rise and fall. RateControl: two accounts, two requests
  and two cached readers; targets chosen for each policy, rung and rounding.
  Pacing: rates below and above one mail a tick, three campaigns with up to three
  recipients. BulkTest: two loops in one job, or two jobs, of three kinds (with and
  without mails, updates and passive accounts).
* Creation: three accounts, five recipients in pages of two, so that shares go over
  pages. Segments: three recipients in pages of one with a past campaign.
  SecretRotation: two accounts, two processes, two executions.
* Audience: two addresses, two lists, three requests: an unsubscribe beside any
  other, with each setting of the page, and additions beside each other. QueueAdmin:
  three jobs in pages of one and a scan of two, so that jobs move across a page's end
  and the scan's. ListImport: three or four chunks, two at
  once. Pages: two rows, three clicks, one mishap; one to two requests of each
  kind in the editor.

Symmetry is used in safety runs only (recipients; slots; processes with their
slot; requests; the two loops of a bulk test). Deadlock is checked in every run of
Delivery: pause, resume, ticks and boots keep the system going. It is not in the
others, where nothing is left to do once requests are served and the operator
rests.

Fairness. Delivery: ticks run from `setInterval`, BullMQ workers fetch waiting
jobs and run them to an end, the container restarts a worker that died (`restart:
unless-stopped`), and `cancelCampaign` runs to its end; so each of these steps is
weakly fair. Nothing is assumed of the operator, of failures, or of the two-minute
requeue. `CampaignEnds` is stated of behaviours without crash, throw and swallowed
database error: any of these may happen between the last row and the finalization,
and nobody else finalizes. `EveryRowSettles` holds with a crash and with an edit, and
with a throw or a database error but for the `Stranded` rows of section 3.

AlibabaSync: the steps of a worker that has a job, taking a job, the recovery timer
(`setInterval`, every minute), a request the web server has begun, the clock and
BullMQ's stalled and delayed jobs; nothing is assumed of operators, failures and
crashes. A pause can leave the row `cancelling` (section 9), which `SyncSettles`
counts as settled.

CampaignControl: a request the server has taken goes on, schedulers and workers
work, a finalization that has read writes, and the time of a campaign comes;
pauses, crashes, expiries and edits need not. SmtpAccounts (`smtp_cooldown`):
deliveries that began go on, the sweep runs, a cooldown passes.

## 11. Proofs

A theorem holds for every value of the constants that the named assumption of its
module admits; TLC evaluates the assumptions on the instances it checks. Every
type invariant or safety invariant below has the same three steps: the initial
states have it, every action keeps it (a lemma per group of actions), and it
implies the property. What each adds to the property, and why, is the argument.

**Delivery**, for any finite number of recipients and slots, any processes,
attempts and failures (`DeliveryAssumption`; that a process dies at most once, see
section 3, is used by no proof), in DeliveryProofs:

| theorem | argument |
|---|---|
| `TypeCorrect` | `TypeInv`: types, and every busy slot has a job, which is what makes its `Target` a recipient |
| `SentImpliesMailed` | strengthened by: a slot about to commit has mailed its recipient |
| `ImplementsLifecycle` | each writer of `row` maps to `Update` of the abstract specification or to a stutter |
| `DoneStaysDone` | case analysis of the writers of `status` under `TypeInv` |
| `AtMostOneMail` | while calm, at most one job per recipient and version was ever live: a job that is not `wait` or `active` is never started again, one slot per active job, no job has a version that is still to come, and the mails of a recipient are the jobs of its versions that have mailed |
| `StoppedIsSilent` | a slot past the gate has seen the campaign running |
| `BooksAlwaysAgree` | `BooksInv`: the counter and the slots on their way to count are together at most the rows, and exactly the sent rows without throws and crashes. Rows leave `sent` and `skipped` never, and a slot counts only after its own conditional update, which at most one slot per row wins. Failed rows do return, so the failed counter is bounded by the attempts that threw, and from below by the failed rows |
| `QueuedRowHasJob` | `Lossless => FedInv`: the deterministic job of a row is absent only while the row is pending and nobody is about to claim it, is completed only when the row is decided, and every slot works on such a job; crashes and recoveries included. With an edit, the job is one of the versions up to the present one |

**AlibabaSync**, for any number of pages, processes, jobs, requests and events
(`AlibabaAssumption`; that a job stalls and throws only so often is used by no
proof):

| theorem | argument |
|---|---|
| `SyncTypeCorrect` | `TypeInv`: types, and a worker that has a page to go has not used up its batch, without which the bound on `round` is not inductive |
| `CompletedHasAllPages` | `NothingSkipped`: every page before the row's cursor is fetched, and so is every page before the one a worker has in flight, whose answer leads at most one page on. That is why the blind update at the end of a page, which may set the cursor back, never skips one; a start or reset between read and update is the exception |
| `PagesOneAtATime`, `NoAlarmIsFalse` | One invariant, `Undisturbed => Peace`, for neither is inductive without the other: who works holds the row's lock for its job (`Holds`); its page is the row's (`InPlace`); hashes in the row, and those a request will write back, lie behind the cursor (`InOrder`); no failure is one that a recovery takes up (`Fails`); without a failed page nothing waits for a retry (`Retries`); nothing goes on before the one start or reset is written (`Requested`) |
| `PlaceStaysKept` | from `Peace`: the only update that could lead the cursor back is that of a page read before another's, and there is no other |

**CampaignControl**, for any list, number of requests, sizes of chunk and batch,
and events (`ControlAssumption`), in CampaignProofs:

| theorem | argument |
|---|---|
| `ControlTypeCorrect` | types; the resources of a request follow its program counter |
| `OneRequestAtATime` | `LockInv`: whoever is inside an action and has not lapsed owns its key, and the owner of a key is inside its action or dead |
| `LocksImplementLeases` | every step enters, leaves, dies in or lets lapse at most one lease, or changes none; the three instances of Lease share the one case analysis |
| `ImportIsComplete` | `ImportInv`: a request in the import has a row or a refusal for every member it has passed, as long as the membership under its cursor was not removed; `CountInv`: without a lapse, death or failure the target and what a start has counted are the number of rows. Rows only come from the import, and none is deleted |
| `QuietCancelStays` | an action property: from a state in which nothing is in flight no action makes the campaign run |

**SmtpAccounts**, for any pool, number of deliveries, cap (at least one), thresholds
and events (`SmtpAssumption`), in SmtpProofs:

| theorem | argument |
|---|---|
| `AccountTypeCorrect` | types of rows, windows, caches, deliveries and requests |
| `CapIsKept` | `Bounded`: the count and the deliveries past the gate that are not counted yet are together below the cap plus the other slots |
| `ThrottleIsTold` | `Told`: one delivery at a time records for the account, what it is about to write has reached the row, and so has what the window says |
| `ResetIsSparing` | an action property under `Spares`: what a reset is about to update has none of those whose credentials had failed when it read |

**Audience**, for any finite set of addresses, any lists, any number of requests and
any scenarios (`AudienceAssumption`: an unsubscribe is somebody's, a scope is one
list, and what there is at first fits). The run states the properties inside
`PanelTypes` and `AudienceHolds`:

| theorem | argument |
|---|---|
| `AudienceTypeCorrect` | types; members are known recipients of lists that exist; a request past its first step is of the kind that takes that step |
| `UnsubscribedStayOff` | `StaysOff`: whoever is muted is suppressed with the page's reason, whoever is out is muted and on no list, and what any request has read and will still do (an import's filtered addresses, the ids of a filter) concerns nobody of them, unless it was under way when they left |
| `ListsKeepSize` | `Roomy`: for a list nobody has overrun, an addition that has counted fits together with the members there are, and it is the only one that has counted and not written |

**The small modules.** SmtpParts and PanelParts name what the proofs assume of the
constants of each module (`WideFits`, `DailyFits`, ...: sets that are finite, a page
size above zero, queries and pages of the shape that requests have); TLC evaluates
these on the runs `smtp` and `panel`. SecretRotation, QueueAdmin and LiveSend need
no assumption. First each module's own property is proved from its own
specification, then the property that the run checks, in the form

    X!Spec \/ [](focus # "x") => []XHolds

that is: a behaviour that obeys the module, or is about another one. Every behaviour
of the runs is of this kind, because `focus` never changes and the steps of a
behaviour with `focus = "x"` are those of X.

| theorem | module | inductive invariant, and why it is needed |
|---|---|---|
| `BulkTestAlwaysHolds` | SmtpPartsProofs | `BulkInv`: rows below the cursor have a result or exactly one loop that works on them, the counters are the number of results, and every result of a job that updates is in the row, missed, or with the loop that will write it; who may still send within the 150 ms and who has sent are together no more than the loops; an answer that says completed carries all results (`PageInv`) |
| `RatesAlwaysHold` | SmtpPartsProofs | `PaceInv`: what a bucket has given and holds is what it held and gained until it was filled last (`Drawn`), which refills keep although they cut what overflows. `RateInv`: not only the cache is that of the last stamp, so is what calls under way will fill it with, unless their read failed (`Fresh`) |
| `CreationAlwaysHolds` | SmtpPartsProofs | `CreateInv`: what a request has read of the segment is one of the queries it had until the campaign was made, the campaign keeps it, and an import reads it from there (`Origin`); the external request imports only just before its end, and between the update to running and its end only logs and wakes the queue (`Answered`) |
| `RotationAlwaysHolds`, from `PasswordsSurvive`, `RotationCompletes`, `NobodyIsLockedOut`; `RotationTypeCorrect` | SmtpPartsProofs | `RotationInv`: what a script has staged is still what it read, because its transaction holds the rows, and two scripts stage different rows (`Exclusive`); once a script is settled or the old key is gone, every process knows the new one (`Known`), and what was new when a settled script read stays new, so the rows it does not stage are, too (`Renewed`) |
| `SegmentsAlwaysHold` | SmtpPartsProofs | `SegInv`: whoever is to come is ahead of the cursor, whoever was chosen all the time and is behind it has been taken or refused (`Ahead`, `Behind`), from lemmas about the page, the least recipients above the cursor. `CountInv`: with calm, what has been counted is what would be counted now; that counts and exports agree is then an argument about the query alone, rewritten by the code for each button |
| `LinksAlwaysHold` | SmtpPartsProofs | `LinkInv`: links that were made have different numbers (`Apart`), each destination is still to do, made, or lost to a mishap (`NoneLost`), and what was made is in the text wherever its destination stood while what is to do is untouched (`Throughout`). `KeptInv` for the rows of operators |
| `AudienceAlwaysHolds` | PanelProofs | from `UnsubscribedStayOff` and `ListsKeepSize` above: the instance of Audience in PanelParts is that of AudienceProofs under the same substitution |
| `GatesAlwaysHold` | PanelProofs | `CaptchaInv`: a potential argument. What may still be accepted (in Redis, in memory, by confirmations beside the one that holds the row) and what has been are together within the bound; wrong answers likewise, with the attempts that each copy of the row has left. `CleanupInv`: what is about to be removed is of no protected campaign, although it was looked up earlier |
| `ReportsAlwaysHold` | PanelProofs | `ManualKept`: who was found suppressed before the page's inserts stays so. `ManualCounts`: in each step of a page what is matched is added, already there, or in hand. `ImportInv`: only the import that the page is about is open, and without strays those before have come to rest. `TrackInv`: a request that saw no event and is not overlapped is the first |
| `PagesAlwaysHold` | PagesProofs | `LiveInv`: a final event is the last on the wire and what was read with it comes right before, or is shown already. `TableInv`: an answer that is not old says how things are (`AnswersHold`), and what is shown is true row by row unless an answer is awaited (`TableHolds`). `EditorInv`: every document in the editor, in a request or in an answer is at home in its template (`EditorHomes`), and while nothing is mixed at most one request is under way (`EditorTruth`) |

The invariants of these proofs found what TLC's instances were too small for: the
unconditional forms of `OnePageAtATime` and `NoFalseAlarm` are false (section 4),
a database error between the updates of row and window breaks `SafetyAgrees`
(section 6), and a cap of zero means "no cap", which `CapIsKept` therefore
excludes.

Only model-checked:

* liveness (`EveryRowSettles`, `CampaignEnds`, `SyncSettles`, `CancelDrains`,
  `RunningEnds`), which is out of the prover's reach;
* `PlaceIsKept` of behaviours that are not undisturbed;
* `Types` and `PanelTypes`, the types of the small modules together. The proofs
  carry the types they need in their invariants, often weaker ones (a natural number
  for a bounded one); those of SmtpAccounts, Audience and SecretRotation are theorems;
* `SharesHold`, whose parts compute over data: the shares of a daily target are sums
  over the accounts with rounding (`PlanCovers`, `PlanIsReached`), `FairBatches` and
  `SharesAreFair` are about a recursive function that visits campaigns and accounts
  in turn, and `PoolIsFit` is about a sequence that `SelectSeq` and a sort leave.
  What these compute for every input takes an induction over data. The second instance
  of the bulk test is checked here, too; its property is the theorem
  `BulkCompletedShowsAll`, which is about any rows and loops;
* `TotalsHold`: sums over tokens of a file and over events (`ReportAddsUp`,
  `TotalsWithinEvents`), the pages that follow one another as a recursive function
  (`NoPageIsMissing`), pages of a queue cut by `SubSeq` and `SelectSeq`
  (`CleanupIsThorough`), and bounds that count members over windows or chunks
  (`LimitHolds`, `OverrunBounded`);
* the four violated properties, which are counterexamples.

## 12. Not modelled

Sessions (signed cookies; the server keeps nothing), dashboards, reports and logs
(they only read), forms of settings (one read, one write), making a list, seeds,
benchmarks and smoke tests, the diagnostics row of the scheduler, batch sizes from
the backlog, the health server of the worker, the signing of Alibaba's requests
and of tokens, MIME and SMTP itself (external: an accepted or refused mail),
PostgreSQL, Redis and BullMQ beyond what the code configures.

## 13. Running

    tlc -workers 2 -config Delivery_events.cfg MCDelivery
    tlc -workers 2 -config Alibaba_live.cfg MCAlibabaSync
    tlc -workers 2 -config Campaign_requests.cfg MCCampaignControl
    tlc -workers 2 -config Smtp.cfg MCSmtp
    tlc -workers 2 -config Smtp_cooldown.cfg MCSmtpCooldown
    tlc -workers 2 -config Panel.cfg MCPanel
    tlapm DeliveryProofs.tla
    tlapm AlibabaProofs.tla
    tlapm CampaignProofs.tla
    tlapm SmtpProofs.tla
    tlapm AudienceProofs.tla
    tlapm SmtpPartsProofs.tla
    tlapm PanelProofs.tla
    tlapm PagesProofs.tla
