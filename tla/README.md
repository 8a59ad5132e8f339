# Verification of the datawatch backend

TLA+ models of the backend's own logic, checked by TLC on small instances, with
theorems checked by TLAPS for every value of the constants. Paths below are
those of the repository; `src/src/...` is written `src/...`.

## 1. The system

Users register web pages (target URLs), describe what to extract from them
(datapoints: selectors, pagination, output format) and schedule extractions
(jobs). BullMQ delivers runs of jobs to a worker, which scrapes the page, stores
the text, compares it with the one before and emits events; notifications,
webhooks and e-mails follow from the events.

| Component | State it keeps | Operations | Model |
|---|---|---|---|
| Executions and the worker (`queue/scrape.processor.ts`, `job-executions/`) | `job_executions`, `results`, `job_logs` rows; BullMQ's runs and locks | `process`, `initExecution`, `completeExecution`, `failExecution`, `saveLog`, diff detection | `ExecutionLifecycle` |
| Jobs and their schedule (`jobs/`) | `jobs` rows; BullMQ's cron schedulers and one-time entries | create, update, remove, run; `updateJobSchedule`, `clearSchedule`, `enqueueOnce`, `enqueueImmediate` | `JobScheduling` |
| Notifications (`notifications/`) | `notifications` rows | three event listeners, trim, push, webhook with retries, e-mail, inbox reads and marks | `Notifications` |
| Gateway (`notifications/gateways`) | the rooms of connected clients | connect, disconnect, push to the room of a user | the client of `Notifications`; pushes of outcomes are counted in `ExecutionLifecycle` |
| Scrapers (`scraper/strategies`) | one shared browser | `scrape` with and without pagination | `Scraping` |
| Texts and formatters (`scraper/utils`, `scraper/formatters`) | none | join, normalise, parse, format | `ScrapedText` |
| Accounts (`auth/auth.service.ts`, `users/users.service.ts`) | `users`, `verification_codes`, `password_resets` rows | register, resend, verify, forgot, reset, OAuth sign-up, change password, delete | `Accounts` |
| Target URLs, datapoints (`target-urls/`, `datapoints/`) | `target_urls`, `datapoints` rows | create, `findOrCreate`, update, remove; the URL inspector | `Catalog`; the effect of `remove` on schedules in `JobScheduling` |
| Results, logs | none (reads) | lists, the diff view | the diff view in `ExecutionLifecycle`; the rest is not modelled, see 8 |
| Preview, guards and tokens, application shell | none | rendering, signing, wiring | not modelled, see 8 |

How they interact: `JobsService` awaits `JobSchedulerService`, which talks to
Redis; BullMQ hands runs to `ScrapeProcessor` in any server process;
the processor awaits `JobExecutionsService` and a scraper; that service emits
`execution.done`, `execution.failed` and `execution.diff` through EventEmitter2,
whose listeners are async and awaited by nobody; removing a user, target URL or
datapoint reaches the jobs, executions, results, codes, tokens and notifications
by database cascades, which reach no queue.

**What is hard here.** Almost nothing runs in a transaction. Every `await` is a
point where another request, another process, a deletion or a crash can come in
between. Redis and PostgreSQL hold two halves of one fact (a job's schedule) and
are written one after the other. BullMQ may deliver a run twice. Listeners of
concurrent events trim one table. `PROJECT.json` lists these hazards at their
lines, with the properties that would catch them going wrong.

**Granularity.** Node runs one statement stretch at a time, so the modules have
one step for each stretch between two awaits, and no finer. A request's arrival
and its first query are one step: before the answer it has changed nothing.

## 2. The modules

| Module | Stands for | Instance |
|---|---|---|
| `ExecutionLifecycle` | processor, executions service, BullMQ around them | `MCExecutionLifecycle` |
| `ExecutionReport` | what listeners may rely on (abstract) | instantiated in `ExecutionLifecycle` |
| `JobScheduling` | jobs service, scheduler service, removals | `MCJobScheduling` |
| `Notifications` | listeners, trim, channels, inbox | `MCNotifications` |
| `NotificationInbox` | what a user sees (abstract) | instantiated in `Notifications` |
| `Delivery` | an execution's events on their way to the inbox: the two modules composed | `MCDelivery` |
| `ScrapedText` | text utilities and formatters, pure operators | used by `Scraping` |
| `Scraping` | one scrape by either scraper | `MCScraping` |
| `Accounts` | codes, tokens, passwords of one address | `MCAccounts` |
| `Catalog` | target URLs, their inspection, datapoints | `MCCatalog` |
| `ExecutionLifecycle_proofs`, `ExecutionOutcomes_proofs` | theorems about `ExecutionLifecycle`, the second on top of the first | |
| `JobScheduling_proofs`, `Notifications_proofs`, `Scraping_proofs`, `Accounts_proofs`, `Catalog_proofs` | theorems about the module each is named after | |
| `Delivery_proofs` | theorems about the composition, from those about its parts | |

Definitions a comment marks as *Mutant* are faulty variants of a definition that
follows them. No specification uses them; `PROJECT.json` names the property each
of them breaks when it takes that definition's place.

### ExecutionLifecycle

State: the rows (`status`, `finishedAt` as a rank, `result`, `logs`), BullMQ's
runs (`runState`, `lock`, `stalls`) and, for each worker, the await it is at
(`pc`), the run and execution it works for, the formatted text and the verdict
of the comparison. `emits` and `pushes` count what has left the process.

A worker goes through `init`, `target`, `scrape`, `saveResult`, `logDone`,
`markDone`, `markActive`, `pushDone`, `compare`, `emitDone`, `resolve`; an error
in the try block leads to `logError`, `markFailed`, `reportFailed`, `reject`; an
error in `init` or in the catch block leads straight to `reject`, since nothing
catches it. `process()` is one worker per server process because `@Processor`
sets no concurrency. A database call answers, rejects without effect
(`QueryFails`), or takes effect and loses its answer (`reply = "lost"`).
`RowMissing` is Prisma's error for a row that a cascade has removed. `Crash`,
`LockExpires` and `RecoverStalled` are BullMQ's world: no producer sets
`attempts`, so a failed run is not retried, but a stalled one is delivered again,
`MaxStalled` times. `UnhandledLog` is the end of the process by the smart
scraper's unawaited `onLog` when the execution's row has gone.

### JobScheduling

State: each job's row (status, cron, scheduleStart), its BullMQ scheduler, the
entry under its one-time key (`once`, with the date it was added for), runs that
wait, and for each request in flight its operation, the await it is at (`pc`), the
await of `clearSchedule` it is at for each job (`at`: `DatapointsService.remove`
clears all of them in one `Promise.all`), and the row as it read and wrote it.
`blame` records, for each job, what has disturbed its schedule: two requests at
work at once (`overlap`), a failed call or a lost answer (`failed`), a one-time
entry that a worker held (`locked`), a cascade that bypasses the scheduler
(`cascade`). The properties say which of these excuse what, and so also which
do not.

### Notifications

One user and one job; a handler is one listener call and names the row it saves.
It reads the job's flags, saves, finds what to trim, deletes that, pushes, posts
to the webhook up to `MaxAttempts` times, and mails. `Ties` allows two rows of one
millisecond, in which case `orderBy createdAt` leaves their order open. A client
connects (and is in its user's room from then on), loads the inbox, and leaves;
`view` is what it has been pushed or has loaded. The row's `webhookUrl` is set by no DTO;
`UpdateJob` lets it change, which only adds behaviours.

### Delivery

`ExecutionLifecycle` and `Notifications` with one next-state relation. EventEmitter2
joins them: `Announce` is the step of a worker that emits, together with the start
of the listeners of just those events (`emit` calls them in the same stretch of
code). A handler is named after its execution and event. `Perish` is the end of a
process, which takes its handlers along; `DeleteWithJob` the removal that both halves
see. Every other step is a step of one half. The owner here has neither webhook
nor e-mail: what follows the push is the business of `Notifications` alone.

### ScrapedText and Scraping

A text is a sequence of words, bars and line breaks: just what separates the steps of
`normalizeScrapedText`, `zipColumns`, `parseRows` and the formatters. A formatted output
is a table; CSV quoting, JSON punctuation and Markdown padding are left out. A datapoint
has at least one selector: a path of commas alone, which the DTO lets pass and which
gives none, is left out. `Scraping` follows one scrape call by call; a site gives the
texts of each selector and the links of each page, and the browser can be lost at any
step.

### Accounts

One e-mail address and its successive accounts. Verification codes and reset tokens
are both *secrets* with an owner: the code deletes the old ones, stores a new
one and mails it in three awaits. Users present whatever has reached their inbox,
codes of a deleted account included. `Areas` says what an operation may disturb in
another (codes, tokens, the password); `blame` records overlaps by area.

### Catalog

The rows of one user. A slot is a request or a run in flight. `findOrCreate` looks
(`Find` if there is a row), inspects the page, and inserts; `create` does the last two.
The page may answer or not, and a URL without a scheme never does, although the DTO lets
it pass. A run reads the URL of its datapoint's target, scrapes, and marks the target
ACTIVE by the job, whatever its URL is by then. Of a datapoint the target alone is kept;
what `ChangePoint` writes is not. The database is external: one row for a URL and user,
no datapoint without a target, deletion in cascade. `reached`, `had`, `assigned`,
`answers` and `beaten` are history for the properties.

## 3. What the runs check

| Run | Question | Instance |
|---|---|---|
| `lifecycle_one_worker` | Is the announced change verdict right and the one the diff view shows, is no change lost, is a false DONE taken back, is every row left RUNNING explained? | 1 job, 3 runs, 5 rows, 2 texts, 1 database fault, 1 crash |
| `lifecycle_two_workers` | Do events, rows and BullMQ's verdict agree when a run is delivered twice? | 2 workers, 2 runs, 4 rows, 1 fault, 1 expired lock |
| `lifecycle_settles` | Does every run settle? | 2 runs, 5 rows, 1 crash, 1 expired lock, fairness |
| `scheduling_sequence` | Does the schedule follow the row through any requests, and does a paused job stay quiet? | 1 job, 3 requests, 2 at a time, 2 patterns, 1 rejected pattern, 1 date, 1 fault, 1 cascade |
| `scheduling_removals` | What can leave a schedule without a job? | 2 jobs, 4 requests, 2 at a time, 1 fault, 1 cascade |
| `scheduling_orphan` | Does a schedule ever outlive its job? **Yes.** | 1 job, 1 cascade |
| `scheduling_lost_reschedule` | Does an update always reschedule? **No.** | 1 job, 2 requests |
| `notifications_delivery` | Is the table bounded, is the newest kept, does a connected client miss nothing, is mail sent in spite of the webhook? | 2 handlers, 1 row kept, ties, 2 webhook attempts, 1 failure or change of settings, a client, fairness |
| `delivery` | Is what the inbox says of an execution true, does every outcome reach it, is trimming invisible? | 1 worker, 2 runs, 2 rows, 2 texts, 1 fault, 1 crash, 1 handler that breaks off or change of settings, 1 row kept, distinct timestamps |
| `scraping` | Is a successful scrape complete and readable in every format, is its page closed, does it end? | 1250 sites of 3 pages, both scrapers, 0, 2 or 3 pages, 1 fault |
| `accounts` | Do codes, tokens and passwords belong to whom and to what they should? | 5 requests, 2 at a time, 2 passwords, 1 fault |
| `catalog` | Is there one row for a URL, is ACTIVE earned, is `findOrCreate` refused for a reason? | 3 URLs of which 2 absolute, 2 targets, 1 datapoint, 4 requests or runs, 2 at a time, 1 fault |

**Why the bounds are enough.** The cases that matter need few actors: a comparison
involves two completed executions and one that comes between them (3 runs); a
second delivery needs two workers, or one crash and one worker; a lost update
needs two requests; a trim that meets another needs two handlers and one row too
many, and so does a note that is older than what the inbox keeps; a change on its way
to the inbox needs two executions; a stale code needs an account that is deleted and
created again between the read and the write (register, verify, delete, register:
four requests of five; for a stale token register, forgot, reset, delete, register: all
five); a `findOrCreate` that is beaten needs one other request, and
a stale ACTIVE a target, a datapoint, a run and a change of the URL (four requests).
Rows are enough for one more delivery of each run than `MaxStalled` would
use with the crashes and expiries allowed, except in `delivery`, where a stalled run
is not delivered again (`MaxStalled` is 0): that is the business of the lifecycle
runs. Where a theorem of section 5 states the same property, the bounds only decide
which mistakes TLC finds first. Symmetry is used for slots and values
that the modules only compare, and never in a run that checks liveness.

### The properties

*Executions.* `EventsTellTheTruth`: although `completeExecution` and
`failExecution` can both run for one execution, at most one of done and failed is
ever emitted, and the row still says the same. `OutcomeHasEvidence`: DONE implies a
stored result and its log line, FAILED an error line. `OutcomeIsFinal`: an announced
outcome is not overwritten. `CompletedRunWasDone`: BullMQ's *completed* means an
execution was announced as done. `DiffVerdictCorrect`: with one worker
`execution.diff` is emitted exactly when the text differs from the previous
completed one. `NoChangeMissed`: a single failed query loses no change.
`ViewAgreesWithDiff`: the diff view goes by the date of results and diff detection by
the end of executions, and they agree all the same, unless an execution on view has
failed or was given up. `FalseDoneCorrected`: a client told DONE of an execution that
is then recorded as FAILED is told FAILED too, unless the process dies or a second
call fails. `StuckOnlyByFailure`: there are never more rows left RUNNING than crashes
and failed queries; scrape errors, deletions and stalls leave none. `EveryRunSettles`.
`ReportsOnce`: the module implements `ExecutionReport`, in which a listener hears
one final word or none, and none about an execution that was given up.

*Scheduling.* `CronFollowsRow`, `OnceFollowsRow`: the schedule of an undisturbed
job is the one its row asks for. `PausedStaysQuiet`: while an undisturbed job is
paused nothing but a manual run is enqueued. `OrphansExplained`: a schedule
outlives its job only by an overlap or a cascade. A failed call never leaves the cron
scheduler behind; it may leave the one-time entry, whose refused removal is only logged.

*Notifications.* `NotesBounded`, `NewestKept`: concurrent trims keep what they
must and remove the rest, ties included. `MailedInSpiteOfWebhook`.
`ClientMissesNothing`: a client that joins its room before it loads the inbox has
been given, or is about to be given, every row that is there, because a row is saved
before it is pushed.

*Delivery.* `InboxTellsTheTruth`: a note, saved however long after its event, agrees
with the execution's row as long as there is one, and there are never notes of both
outcomes. `OutcomesAreNoted`: at rest, every outcome has come to the inbox, unless
the process died, a handler broke off or the settings changed. `InboxShowsNewest`:
the table implements `NotificationInbox`, which has no trimming.

*Scraping.* `WordsKept`: success means all words of all pages in order, and a lost
browser never passes for the last page. `TableKept`: texts without bars or line breaks,
blank ones apart, keep row and column in all four formats. `PageClosed`: a page of the
shared browser is closed on every path, unless a call fails while `openPage` sets it up,
before the try block. `ScrapeEnds`: next links that form a cycle do not keep a scrape
going.

*Accounts.* `OneSecretOfAKind`: at most one code and one token unless two requests
for the same kind overlapped. `VerifiedByMail`: a local account is verified
only by a code mailed for this very account, not for a deleted one of the same
address. `PasswordAsAcknowledged`: the accepted password is the last one reported
as set, unless writers overlapped or a call failed. `TokenSpentOnce`.
`PasswordSetByOwner`: without any exception, the password of an account changes only by
a change of its own or by a reset with a token that was mailed for it. An account may be
deleted and its address registered anew while `resetPassword` hashes; the new account
keeps its password all the same.

*Catalog.* `ActiveWasReached`: a target whose status no user has set is ACTIVE only
if a page under a URL it has or had has answered. `AnswersAgree`: `findOrCreate`
answers one row for a URL, the one that holds it, for as long as it does.
`RefusedOnlyIfBeaten`: it is refused only when another request has stored the URL
while the page was inspected.

### Fairness

- `ExecutionLifecycle`: weak fairness of each worker's work and of its fetching
  (a live Node process resumes an await that has ended, and every await here is a
  query, a scrape with a timeout, or Redis), and of BullMQ's stalled check, which
  every worker repeats by a timer. Crashes, expiries, users and errors are not fair.
- `Notifications`: weak fairness of each handler's steps, for the same reason.
  Emission and the user's actions are not fair.
- `Scraping`: weak fairness of the scrape; axios and Puppeteer calls have timeouts.

The other specifications check safety only.

## 4. Where the code differs from what it says

1. `scheduling_orphan`: the scheduler service removes the cron scheduler of a
   deleted job, but removing a target URL or an account deletes the jobs by
   cascade and never calls it. BullMQ goes on enqueuing runs of those jobs.
2. `scheduling_lost_reschedule`: a job is to be rescheduled after an update. When
   a worker holds its one-time entry, the entry cannot be removed, the error is
   logged only, and the add under the same key is ignored.

Limits that the passing properties make explicit rather than report:

- a crash leaves the execution RUNNING for ever, the queue delivers the run again
  under a new row, and nothing closes the first (`StuckOnlyByFailure` counts them);
- a crash between `markDone` and the comparison loses the change that run found: the
  next runs compare with it (`NoChangeMissed` excepts crashes);
- the diff view shows results of failed executions too, diff detection does not
  compare with them (`ViewAgreesWithDiff` excepts those);
- two overlapping requests can leave two codes or tokens, or a schedule that is not
  the row's (the `overlap` exceptions);
- a reset whose last update fails reports an error for a password it has set
  (`PasswordAsAcknowledged` excepts failed calls);
- `findOrCreate` answers with an error when it is beaten to the insert
  (`RefusedOnlyIfBeaten`), and a changed URL keeps the status of the one before
  (`ActiveWasReached` counts the URLs a target has had);
- an update of a datapoint writes null to every optional column it does not name
  (`datapoints.service.ts:87-91`); no property tells the columns apart;
- the smart scraper loads one page more than it reads.

## 5. What is proved

The proofs assume only the named assumptions of the modules' constants, hold for any
number of jobs, runs, workers, requests, handlers and slots and for any bounds, and have
no unproved leaf. Three kinds of theorem add an assumption of their own, stated in them:
that no two workers are closing executions of one job at once (`[]Apart(j)`:
`ApartVerdictsAreCorrect`, `ApartChangesAreAnnounced`, `ApartInboxIsTrue`,
`ApartChangesReachInbox`), that one worker processes the queue (`VerdictsAreCorrect`,
`ChangesAreAnnounced`, `ViewAndVerdictAgree`, `InboxIsTrue`, `OutcomesReachInbox`), and
that no two rows have the same timestamp (`~Ties`: `InboxImplemented`,
`DeliveredInbox`). Hardly any of the properties is inductive as it stands; what had to
be added is the argument, and each proof has one step for each action.

**`ExecutionLifecycle_proofs`.** `TypeCorrect`, `EventsAreTrue`
(`EventsTellTheTruth`), `OutcomesHaveEvidence` (`OutcomeHasEvidence`) and
`CompletedRunsWereDone` (`CompletedRunWasDone`). That a FAILED row is never announced
as done depends on where each worker is. `IInv` says, for each await, what the worker's
row holds and that nobody has been told of it yet, and that two workers never share an
execution, because `initExecution` creates a row of its own for every delivery.

**`ExecutionOutcomes_proofs`.** On top of `IInv`:

- `OutcomesAreFinal` (`OutcomeIsFinal`), from `FInv`: up to its last await a worker's
  row is not FAILED, and up to `saveResult` it has no result, so no update overwrites
  one;
- `RunningRowsAreFailures` (`StuckOnlyByFailure`), from `LInv`: a row is lost once no worker is
  in the handler for it, each crash and each failed call loses at most one, and the rows
  of a job go with it;
- `ReportImplemented` (`ReportsOnce`): each step is a step of `ExecutionReport` or a
  stutter;
- `ApartVerdictsAreCorrect`, from `JobInv`, for any number of workers: a worker is
  closing an execution from its `markDone` until it has announced the outcome. While no
  two of them close executions of the same job, the row of the one that does is the
  job's newest, so that `fetchLatestTwoResults` finds it and the one before it; and no step
  touches a row an announced one was compared with. What workers do for other jobs, or
  for this one before `markDone`, does no harm. The condition is needed: when a second
  worker marks its row DONE after the first one's `markDone` and before its comparison,
  the first announces the second one's change with its own execution.
  `VerdictsAreCorrect` (`DiffVerdictCorrect`) follows, since one worker alone is always
  apart;
- `FalseDonesCorrected` (`FalseDoneCorrected`), from `PInv`: nobody is told before
  `pushDone`, a worker gets from there into the catch block only by a failed call, and a
  mistaken row is one whose worker is about to correct it, or whose correction cost a
  second failure or the process;
- `ApartChangesAreAnnounced`, for any number of workers under the same condition, and
  `ChangesAreAnnounced` (`NoChangeMissed`), from `AInv`: a row that is DONE and
  unannounced is in the hands of the worker that marked it, and the first failed call
  takes that worker to the catch block, which marks the row FAILED;
- `ViewAndVerdictAgree` (`ViewAgreesWithDiff`), from `VInv`: one worker creates, saves
  and finishes its executions in the order of their ids;
- `RunsAreAttended`, `FewRowsPerRun`, `HandlersEnd` and `RunsEnd`, from `QInv`: a lock is
  on an active run and held by the worker at work on it (`Locked`), and the rows of a
  run, with the workers about to create one, are no more than the times it was handed
  out (`Accountable`), which its stalls bound. So no run is stranded where only a worker
  that has left could move it on, no run leaves more than `MaxStalled + 1` rows, each
  step of a handler leaves it fewer awaits, and a run changes its state in the queue a
  bounded number of times. This is what `EveryRunSettles` rests on besides fairness.

**`JobScheduling_proofs`.** `TypeCorrect`; `ScheduleFollowsRow` (`CronFollowsRow`). The
property speaks of jobs no request is at work on, so `IInv` has to say what holds while
one is. It is stated job by job:

- `Sole`: without a recorded overlap at most one request is at work on the job;
- `LeftRunning`: what a rejected `Promise.all` leaves running has been recorded as a
  failure;
- `Duty`: what the one request has established where it is (it has read the row that
  is there, or has written it and, past the first await of `clearSchedule`, no
  scheduler is left) and so what still separates the scheduler from the row;
- `ReqOK`, `NoOrphanRow`: which operation can be at which await, and that no row is
  left without its datapoint.

A second invariant, `KeyInv`, adds the one-time entry and the jobs that are gone: what
the awaits of `clearSchedule` that are over have removed (`Progress`), and that without
an overlap or a cascade a row is deleted only after both (`KeyOK`). From it follow
`OnceEntryFollowsRow` (`OnceFollowsRow`), `OrphansAreExplained` (`OrphansExplained`)
and `PausedJobsStayQuiet` (`PausedStaysQuiet`). Lemmas about jobs the step is not about
(`Bystander`, `KeyBystander`) and about the one it is about reduce each action to what
it does to one job.

**`Notifications_proofs`.** `TypeCorrect`; `TableBounded` (`NotesBounded`): two trims may
have found the same rows, so `Bounded` bounds what is left when any set of the pending
deletions is done; `NewestSurvive` (`NewestKept`), from `FoundIsOld`: a pending deletion
holds rows that were too old when they were found, and rows only get older;
`NothingMissed` (`ClientMissesNothing`); `InboxImplemented` (`InboxShowsNewest`): the
trimmed table implements the untrimmed one. `EndedMeansTold` and `ListenersEnd` are what
`MailedInSpiteOfWebhook` rests on besides fairness: while nothing breaks off and no
setting changes, a handler that has ended has pushed and mailed (`Told` is inductive
beside `Inv`), and each step of a handler leaves it fewer to take, at most
`MaxAttempts + 8` in all.

**`Delivery_proofs`.** `LifecycleImplemented` and `NotificationsImplemented`: the
composition's behaviours are behaviours of each part, so that all that is proved of the
parts holds of the whole. From the first part's invariants and the fact that a note has
an event behind it (`Heard`): `InboxOutcomesAreTrue` for any number of workers,
`ApartInboxIsTrue` for the changes of a job whose workers are apart, and `InboxIsTrue`
(`InboxTellsTheTruth`) for one worker. The other way round, from `Delivers` (an event
has started its handler, and until a handler breaks off or the settings change, whoever
is past its save has saved): `EveryOutcomeReachesInbox`, `ApartChangesReachInbox` and,
for one worker, `OutcomesReachInbox` (`OutcomesAreNoted`). And `DeliveredInbox`
(`InboxShowsNewest`).

**`Accounts_proofs`.** `TypeCorrect`, `CodesAndTokensSingle` (`OneSecretOfAKind`),
`VerifiedOnlyByMail` (`VerifiedByMail`), `PasswordAcknowledged`
(`PasswordAsAcknowledged`), `TokenSpentOnceHolds` (`TokenSpentOnce`) and
`PasswordSetOnlyByOwner` (`PasswordSetByOwner`). `IInv` binds what a request holds to
what it is doing (`Doing`: a reset past its check holds a token that was mailed for the
account it will write to), says that ids are handed out once, so that
a mail and a stored secret of one id are the same (`Fresh`, `SameMail`), and, for each
area in which nothing has overlapped, that the one request at work there (`Alone`)
accounts for what is not settled yet (`Single`, `Spending`, `Accepted`).

**`Catalog_proofs`.** `TypeCorrect`, `ActiveTargetsWereReached` (`ActiveWasReached`),
`OneAnswerPerUrl` (`AnswersAgree`), `FindOrCreateRefusals` (`RefusedOnlyIfBeaten`).
`Inv` says what still holds, at a slot's second await, of what it has read or found out
at its first (`Evidence`, `Free`), and which rows exclude each other (`Unique`).

**`Scraping_proofs`.** `TypeCorrect`, with the bound on the pages read, and
`PageIsClosed` (`PageClosed`): where a scrape is tells how many pages it may still read
(`Budget`) and whether it holds one of the browser (`Holding`). `ScrapesRunDown` is what
`ScrapeEnds` rests on besides fairness: each step of a scrape lowers `StepsLeft`, at most
`4 * maxPages + 7`, whatever fails and however the links run. The other theorems are
about what the code computes from texts of any length:

- `WordsAreKept` (`WordsKept`), from `Progress`: while no lookup has failed, the pages
  kept are the first of the chain of links, those without texts left out, and a scrape
  is about to succeed only when all of the chain has been read. What the pages give
  has the words of their tables, because each of joining, splitting, trimming, leaving
  out and zipping loses no word (`JoinWords`, `NormalizedWords`, `TrimWords`,
  `JoinedWords`, `ExtractedWords`);
- `FormatKeeps`: in each format every cell of any table is found again;
- `TablesAreKept` (`TableKept`): joining is undone by splitting where the parts hold no
  separator (`SplitJoin`), empty lines never arise in plain pages (`PlainRows`), so the
  rows parsed are the rows of the pages read (`TableParsed`), and `FormatKeeps` does
  the rest.

These need induction over sequences, and the library's induction theorems take an
operator, which the provers cannot instantiate. The module derives what it needs
from the well-foundedness of `<`: a claim is a set, and the lemmas `Induct` and
`SeqInduct` conclude that the set holds every number, or every sequence; `Recursion`
gives the equations of the recursive functions `Split`, `Chain` and `FlattenSeq`.

**Model-checked only.** Liveness (`EveryRunSettles`, `MailedInSpiteOfWebhook`,
`ScrapeEnds`): fairness and ENABLED are out of the prover's reach. What can be said
without them is proved, in `RunsAreAttended`, `HandlersEnd`, `RunsEnd`, `EndedMeansTold`,
`ListenersEnd` and `ScrapesRunDown`: the steps to the end are bounded and lead where the
property says. That the next of them is enabled and is taken stays with TLC.

## 6. Running it

    tlc -workers 2 -config LifecycleOneWorker.cfg MCExecutionLifecycle
    for m in *_proofs.tla; do tlapm $m; done

`PROJECT.json` pairs every run with its module and configuration. Each passing run
ends in about two minutes or less. Deadlock is checked in all of them: `Quiescent`,
`AtRest` and `Scraping`'s `Stop` are the states in which a system is meant to rest, and
in `Notifications` the user can always mark the inbox as read.

## 7. Plan

What was planned is modelled: the core and its invariants, the schedule, the
notifications, the scrapers, accounts, the catalog, the composition of executions with
notifications, and their proofs. What is left, in this order; a new question takes the
place of a run it makes superfluous.

1. A composition of scheduling with the queue: a due entry becomes an execution of a
   job that is still there.
2. Formatter settings as part of a run's text, so that a change of `outputFormat` or of
   field names between two runs, which diff detection reports as a change of the page,
   can be told from one.

## 8. What is not modelled

- Wall-clock time: cron periods, `computeDelay`, expiry dates. A delayed entry may come
  due, and a code expire, at any moment.
- Ownership checks, guards, cookies, JWT and OAuth handshakes: each decides a request
  by itself and keeps nothing.
- The preview: a browser and a page of its own per request, string rewriting.
- Single-column writes (profile, notification settings of a user as such), lists
  and pagination of lists, wording of messages, logging.
- The settings a text was formatted under, see section 7.
- `scraper.service.ts` is bound to nothing; `scrape.events.ts` only logs.
- `src/generated/prisma`: the Prisma client that is generated from `schema.prisma`,
  about five sixths of all lines of the repository's implementation. It is a library;
  what the code uses of it (a query, a unique index, a missing row, a cascade) is
  part of the steps that call it.

Of the some 3900 lines that are written by hand, about 35 in a hundred are mapped; the
others are, for the most part, controllers, DTOs, modules, configuration and the parts
above. A share of the whole that includes the generated client therefore stays below
one tenth, and modelling more could not change that.
