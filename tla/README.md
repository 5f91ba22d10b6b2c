# A TLA+ model of glsync

glsync receives GitLab webhooks and moves Jira issues. A webhook becomes an
event row and, for each issue key it mentions, a job row; background workers
claim the jobs, call Jira, and retry or give up. Several instances may run on
one PostgreSQL database.

The modules here model that path from the payload to the last audit entry, as
the Go code under `src/` performs it. Each run below is a configuration for TLC,
and each theorem is proved by TLAPS for every value of the constants.

## The system and its parts

| part | code | state it keeps | operations |
|---|---|---|---|
| webhook parsing and rules | `internal/gitlab`, `internal/workflow/rules.go` | none | `Parse`, `IssueKeysFromEvent`, `Classify` |
| webhook handler | `internal/server/webhook_handler.go` | none in memory beyond one request | idempotency check, event INSERT, plugins, one job INSERT per key, answer |
| events table | `internal/store/event_repo.go`, migration 001 | one row per idempotency key | EXISTS, INSERT ON CONFLICT DO NOTHING |
| job queue | `internal/store/job_repo.go`, migrations 002, 004 | status, attempts, next_run_at, running_since per job | Enqueue, Dequeue (a transaction), MarkCompleted, MarkFailed, MarkDead, ResetStuck |
| processor | `internal/worker/processor.go` | the batch being dispatched, a semaphore, one goroutine per claimed job | `Run`, `process` |
| executor, Jira client | `internal/worker/executor.go`, `internal/integration/jira` | none | one POST per execution, story points, dates |
| reconciler | `internal/worker/reconciler.go` | none | resets running rows older than `stuck_job_timeout` |
| audit log | `internal/store/audit_repo.go`, migration 003 | append-only rows | Insert |
| configuration | `internal/config` | none | `Load`, `applyEnv`, `Validate` |
| process | `cmd/glsync/main.go`, `internal/server/server.go`, `NewPool` | context, listener, wait group | startup, signal, graceful shutdown |
| dates, backoff | `internal/workflow/duedate.go`, `nextBackoff` | none | functions of the clock |
| plugins | `plugin/plugin.go` | handlers registered before `main` | called after the event INSERT and after Execute |
| health, admin, middleware, rate limit, pool | rest of `internal/server`, `internal/store/postgres.go` | the limiter's counters, the pool | read-only or library code |

How they interact: GitLab calls the handler, which shares nothing with the
workers but the tables and the process that runs both. The workers share the
jobs table with the reconcilers and with the workers of other instances, through
row locks and single statements. All of them share one context, cancelled by the
signal; the audit log is written with a context of its own. PostgreSQL, Jira,
GitLab and net/http are outside and are modelled by what they may do to the
code.

What is hard: claims of several instances interleave with each other, with
resets and with late updates; an update does not check the status it replaces;
decisions are made on a row read before a Jira call of many seconds; a crash or
a cancelled context falls between any two statements; answers of Jira and of
COMMIT get lost; duplicates of a webhook run concurrently, on several instances;
the end of an instance takes its handlers and its workers with it; host and
database have different clocks.

What makes each part correct:

- queue and workers: a job has one worker at a time, final statuses are final
  and tell the truth about Jira, attempts are bounded, every job ends;
- audit log: each counted failure has a row of its own, and of an end that it
  records the grounds are there;
- webhook handler: one job per webhook and issue however often it is delivered
  and mentioned, none missing once it is answered, and no answer too early;
- the service: one job at most asks Jira for the move of a webhook, and what
  GitLab was told is taken ends with a moved issue or a dead row;
- process: it ends under no worker and under no statement, and a signal ends it;
- dates and delays: the next weekday is the next one, no due date precedes its
  start date, the delay stays within its cap.

## Modules

| module | what it is |
|---|---|
| `JobTable` | the jobs table and each SQL statement on it, as an operator from table to table |
| `Executor` | the outcomes of one execution: what Jira decided, which kind of error comes back |
| `Worker` | EXTENDS both: processors and reconcilers of several instances, crash, signal, restart, time |
| `JobLifecycle` | the abstract job queue: the life of each row, without instances or clocks |
| `WorkerProperties` | the properties of `Worker`, the inductive invariants, fairness, and `JobLifecycle` instantiated with a refinement mapping |
| `WorkerProofs` | the theorems about the rows of `Worker` |
| `AuditProofs` | the theorems about its audit log |
| `GitLab` | payload to event to decision |
| `Webhook` | EXTENDS it: the deliveries over the events and jobs tables, with properties |
| `Inbox` | the abstract inbox: stored webhooks, queued issues, who was told; instantiated in `Webhook` |
| `WebhookProofs` | the theorems about `Webhook` |
| `System` | both sides, with their proofs, instantiated over one jobs table and the same instances |
| `Service` | the abstract service: `Inbox` and `JobLifecycle` side by side, joined where a job is queued; instantiated in `System` |
| `SystemProofs` | the theorems about `System` |
| `Main`, `MainProofs` | the configuration, and the process from start to exit |
| `Schedule`, `ScheduleProofs` | dates and retry delay |
| `MCWorker`, `MCWebhook`, `MCSystem`, `MCSchedule` | values for the model checker |

### Worker: state and steps

`jobs` is the table. Time is relative: `nextRun` is `next_run_at` minus the
database's now(), `since` is the age of `running_since`, and `Tick` moves both.
`nextRun` saturates at `-Lag` and `since` at `MaxAge`, which only merges rows
that are all due or all stuck. `loop` is where `Processor.Run` is, `batch` the
rows Dequeue locked or returned, `slot` the goroutines by semaphore slot (with
the row as it was read, the age of the claim and the error), `ctxDone` the
context, `jira` what Jira decided about each job, `audit` how many rows the log has
of each job and action: the number of an attempt is in a detail that is left out,
but every failure inserts a row, and rows are counted.

| action | code |
|---|---|
| `Enqueue` | the INSERT of a job built by `NewJob` |
| `DequeueSelect`, `DequeueCommit`, `DequeueError` | BEGIN with the SELECT ... FOR UPDATE SKIP LOCKED; UPDATE with COMMIT; any failure of them, with the ambiguous COMMIT |
| `Dispatch` | one turn of the loop over the batch: a slot, a goroutine |
| `Execute`, `Report`, `Mark`, `Record` | `process`: the Jira call, the `transition_failed` entry, the row, the last entry |
| `Return`, `Signal`, `Crash`, `Exit`, `Start` | the end of `Run`, the signal, the death and restart of the process |
| `Reconcile` | `resetStuckJobs` |

`MaxHold` bounds how long a claim takes from BEGIN to its Mark, with the wait
for a slot, the Jira call, the plugin job handlers and the audit INSERT. Nothing
in the code compares it with `stuck_job_timeout`; `WellProvisioned` is the
assumption that it is covered, and the run `Worker_late` drops it. Without it
`ExclusiveClaims`, `MarksWhatItClaimed`, `AttemptsBounded` and `TerminalIsFinal`
do not hold: the Mark updates do not look at the status of the row, so that a
goroutine whose row was reset and ended by another takes it out of its final
status. What still holds then is what `Worker_late` checks. `NoJob` stands for
the empty job id in the reconciler's audit entry. A `MaxDisruptions` budget
counts crashes, signals, failed statements and lost COMMIT answers; errors of
Jira are not counted. `Mark` waits for a locked row, as the UPDATE does.

A Mark whose statement took effect and whose answer was lost is the same step as
a successful one, because the code only logs the error.

### Webhook: state and steps

A delivery is identified with the run of its handler and with the id of the
event row it would insert. `Receive` parses; `Check` is the idempotency query
and the filters that need no database (also those of `handleEmojiAward`);
`Insert`, `Plugins`, one `Enqueue` for each key, and `Respond` follow.
`StatementError`, `Disconnect` (cancels the request's context) and `Crash` are
the faults, counted by `MaxFaults`. ON CONFLICT DO NOTHING is `Stored`; the
foreign key from jobs to events is the condition `r \notin events` in `Enqueue`.
A text is a value of which `Matches` gives what the regular expression finds in
it, in order, and `Upper` the key each find spells. `IssueKeys` keeps the first
mention of each key, and the keys of an event are known by the place of that
mention: a job is a delivery and a place (`IssueOf` is its key), enqueued in the
order of the places.

`Inbox` is what the two tables and the answers look like without handlers,
statements or faults. The mapping takes the idempotency keys of the rows, the
jobs with their key and issue, and the deliveries answered `accepted` or
`already_processed`.

### System

`System` has the variables of both sides; `jobs` is the table of `Worker`, and
what the handlers see of it is `Rows`, the jobs that are not absent. The INSERT
of a handler is one step of both (`Enqueue`), the instance that runs a handler is
its `host`, and `End`, a crash or the exit of main, kills the handlers it still
hosts. `Sent` fixes what is delivered, and so which jobs there can be and which
state each one asks for; `Routes` fixes the instances that each delivery may be
sent to, which is the load balancer's choice and any set of them.

`Service` is what all of it looks like from outside: a webhook is taken (`Take`),
an issue of it is queued (`Queue`), and the job that was queued is claimed,
decided, retried and ended (`Work`). It has no handlers, workers or faults.
`Queue` is a step of `Inbox` and of `JobLifecycle` at once: what the handler
inserts is pending, with no attempt and no question to Jira behind it. `System`
instantiates it as `Promised`, with the mappings of its two sides.

### Main and Schedule

`Main` is one process. `file`, `env` and `zero` are its world: which settings the
YAML file and the environment have, and which intervals in the file are not
positive. `Load`, `Validate` and `Connect` are the startup; a signal kills it
before `signal.NotifyContext` and cancels the context after it. A setting is
reduced to where its value comes from. The processor and the reconciler are
goroutines that return once the context is cancelled (for the processor that is
`ShutdownReturns` of `Worker`), or panic when `time.NewTicker` gets an interval
that is not positive. `applyEnv` looks up eight variables: the `Required` settings
are among them, `Optional` is any of the other four, and `FileOnly` stands for the
settings that have none.

The end of `main` is in two steps: `Wait`, where `bgWg.Wait()` returns and the
deferred `pool.Close()` begins, and `Exit`, where it has every connection back. A
request holds a connection while it is in a statement (`Query`, `Answer`);
`Shutdown` does not cancel the requests it gives up on, and `pool.Close()` has no
timeout, so that such a statement keeps the process. A second signal does not help:
`stop()` is deferred before `pool.Close()` and so runs after it. A pool that is being
closed gives out no connection, which is why one wait is enough.

`Schedule` is a clock in hours and the functions
that read it; the time zone of the host is `offset`, one of `Offsets`, and overflow of
`2^attempts * 30s` in an int64 is `Overflowed`.

## Runs

| run | question | bounds |
|---|---|---|
| `Worker_claims` | do claims exclude each other, are final rows final and logged ends real, who touches an abandoned row, is it a job queue? | 2 instances, 2 jobs, 1 slot, 2 attempts, 1 disruption |
| `Worker_late` | what survives when jobs are reset under their worker, and is the audit log true? | 1 instance, 2 jobs, 2 slots, 2 attempts, hold 1, timeout 0, no disruption |
| `Worker_live` | does everything end, do claims exclude each other when clocks disagree, and are rows and log true after crashes and failed Marks? | 2 instances at +1 and -1 tick, 1 job, hold 1, timeout 2, 2 disruptions, fair |
| `Webhook_deliveries` | are duplicates harmless, is every answered webhook queued, is it an inbox? | 2 deliveries of 13 payloads, 2 faults, fair |
| `System_redelivered` | does a taken webhook end in Jira, through one job, and is it all the abstract service? | 1 webhook of 1 issue, 2 deliveries, 2 instances, 2 attempts, hold 0, 1 disruption, 1 fault, fair |
| `Main_exit` | does it cut nothing off, and end? | 6 settings from file or environment, 2 requests, fair |
| `Schedule_dates` | what of the dates holds in which time zone, and is the delay capped? | two weeks of hours at UTC-5, UTC and UTC+14, every weekday, points from -2 to 10 in halves, attempts to 100 |

Why the bounds are enough: a race for a claim needs two claimants and a reset
needs a third party, and the second job makes batches and the order of
`next_run_at` matter; with two slots both are claimed in one batch. Two attempts
give a first failure, a retry and a last one. A crash or a lost COMMIT is one
disruption; the second in `Worker_live` hits the recovery from the first. A hold
of one tick against a timeout of one tick is the tightest case that
`WellProvisioned` allows. The counts of the audit log make the state space large, so
that late resets and disruptions are in two runs: `Worker_late` has two goroutines on
one job by resets alone, `Worker_live` the crash between an audit row and its Mark and
the Mark that fails. `CountedFailuresAreLogged` and `LoggedEndsHaveGrounds` prove both
at once. In `Main_exit` one of the two requests is done when the other is stuck. Two deliveries race for one event row, or the second
arrives when the first is done or has lost some of its jobs. The
two sides of `System` meet in the row, the instance and the redelivery, and their
product is large: in `System_redelivered` there is one issue, claims take no tick,
and the redelivery goes to the other instance (`Routes`). Several issues, and two
deliveries that share the fate of one instance, are in `Webhook_deliveries`; claims
that take time and late resets in the runs of `Worker`. The theorems remove the
bounds for every invariant, action property and refinement that a passing run
checks.

Symmetry is used only in runs without a liveness property, for instances and
jobs that the constants do not tell apart.

Runs that must fail show where the program and its own documents disagree:

| run | the document | what happens |
|---|---|---|
| `Worker_shutdown` | processor.go:56: in-flight jobs are completed before Run returns | Jira moved the issue, the signal came, and the Mark fails on the cancelled context: the row stays running |
| `Webhook_lost` | data.md: one row per (event, issue_key) | a fault after the event INSERT; retries are answered already_processed |
| `Webhook_reopen` | README: MR reopened → Code Review | the second reopen has the idempotency key of the first |
| `Main_hang` | main.go: shut down HTTP, then drain | after a server error nobody cancels the context the workers wait for |
| `Schedule_zone` | duedate.go: at or after today | around midnight ahead of UTC, today is yesterday |

Other differences, which a step of the model shows by itself and which have no
run:

- data.md:85 has dead terminal. With a `stuck_job_timeout` shorter than a claim
  takes (config.go compares it with nothing) a late Mark moves a row that another
  goroutine ended: `TerminalIsFinal` needs `WellProvisioned`.
- transition.go:20 has misconfigured mappings fail loudly. A job whose state has
  no transition id is `Skipped`: completed, and audited as a success.
- plugin.go:18 has event handlers called after the event is persisted, and their
  error abort the enqueuing. The loser of a race for the event row goes through
  `Plugins` all the same, and the error changes nothing.
- README.md:61 has a merge into master move issues to Done (`ClassifyMerge`
  ignores it), and README.md:62 asks for a merged merge request under the emoji
  (`ParseEmoji` keeps no state of it to look at).
- The comments that list the non-retryable statuses as 400, 404, 422 leave out
  405 and 409, and parser.go:140 speaks of a fetch of merge request details
  that no code does.
- README.md:117 says that every key can be overridden by its `GLSYNC_` variable.
  `applyEnv` (config.go:136-161) reads eight; `GLSYNC_WORKER__CONCURRENCY`, for one,
  is ignored without a word (`FileOnly`, `Loaded`).
- With the strategy `sprint_end` an in_progress transition writes 1 into the
  story points field, whatever the issue had (`StoryPoints`, `Fields`).

## Fairness

`Worker_live`: weak fairness of each goroutine's steps (the Go scheduler runs
what can run), of the reconciler (its ticker), of exit and restart and of the clock.
Restart is an assumption about who runs the program: deploy/glsync.service has
`Restart=on-failure`, which starts it again after a crash and not after a clean exit;
after a signal it is whoever sent it. That an exit comes also assumes that the
statements `pool.Close()` waits for end. Jira gets none: it may fail every
time, and then the job ends dead. Dispatch to each slot is fair on its own. A
statement that is waiting for a row lock gets it because transactions are short
and end. No fairness is assumed of enqueuing, signals or crashes. The liveness
properties need the reconciler: with `ReconcileEnabled = FALSE` TLC finds a job
that a lost COMMIT answer leaves running forever, which is what that setting
means: by `AbandonedOnlyReset` nothing else brings such a row back.

`Webhook_deliveries`: each handler runs to its end. Deliveries need not arrive.

`System_redelivered`: what `Webhook` and `Worker` assume, of the steps of
`System`: handlers, loops, goroutines and reconcilers each run on, and an instance
that exits is started again (weak fairness of the exit and the start together).
A failed statement or a disconnect spends the same budget of faults as a handler
cut off by the end of its instance. When a stored webhook has lost a job before
its handler was done (`~OneRowPerKey`), which is what `Webhook_lost` shows,
`TakenIsSettled` asks for nothing.

`Main_exit`: main goes on, and the background loops return once the context is
cancelled. Requests and their statements may take forever; the shutdown timeout, a
step of main, is what ends the wait for requests. Nothing ends that of
`pool.Close()` for a statement, and `SignalEnds` names this one case: main is in it
for good, with a statement that never ends. The connection to the database may take forever too, since
the ping has no deadline, but not once the context is cancelled.

## Proofs

All theorems rest on the named assumptions of the modules (types of the
constants, `MaxAge` large enough to tell stuck rows) and on what is stated here.

- `WorkerProofs`
  - `TypeCorrect`: `TypeOK`. Used everywhere else.
  - `EndsAreEarned`, `DeathsAreEarned`: `CompletedWasApplied` and
    `DeadIsEarned`, with no assumption on timeouts. Inductive invariant
    `EndsInv`: what a goroutine knows of Jira is so (`KnowsJira`), and the
    attempts it read are no more than those of the row. Neither needs the row
    still to be its own, which is why it survives resets.
  - `RunningRowsAreStamped`: `RunningIsStamped`, with no assumption either; it is
    inductive by itself (`StampsKept`).
  - `ClaimsAreExclusive`, `MarksAreOfOwnClaims`, `AttemptsAreBounded`,
    `TerminalRowsAreFinal`: assume `WellProvisioned`. Inductive invariant
    `ClaimInv`: the row of every batch and of every working slot is running,
    with the attempts that were read and a `running_since` as old as the claim;
    locked rows still wait; no row is in two hands. `ExclusiveClaims` alone is
    not inductive, since a reset would break it: the age of the claim is what
    shows that `Stuck` cannot select it.
  - `WorkersImplementLifecycle`: under `WellProvisioned`, `Spec => LifecycleSpec`.
    Each action maps to a step of `JobLifecycle` or to a stutter; `Mark` needs
    `ClaimInv` (the row is running) and `EndsInv` (its verdict is earned).
  - `AbandonedRowsWaitForReset`: `AbandonedOnlyReset`. A running row that is in no
    batch and no slot stays so until a reset, which keeps its attempts. It needs no
    assumption on timeouts: what a poll selects waits, what a transaction has
    locked still waits when it commits, and no two transactions lock one row
    (`LockInv`, inductive by itself), so that no claim reaches a running row;
    and a Mark is of a row that a slot holds (`UnheldRun`, `UnheldProcess`).
- `AuditProofs`, the first two under `~AuditLossy` only
  - `CountedFailuresAreLogged`: `FailuresAreLogged`. It is not inductive: a Mark adds
    an attempt without adding a row. `FailureLoggedFirst` counts the goroutines that
    have logged a failure and not yet marked it (`Counting`): attempts and these
    together are no more than the rows. `Report` adds one of each, a Mark that counts
    moves one from the goroutines to the attempts, whoever else works on the row.
  - `LoggedEndsHaveGrounds`: `AuditIsTruthful`. `EndHasGrounds`: a goroutine that is
    about to log the end of its job has the grounds for it. What Jira decided and what
    was logged is never taken back, so that a Mark that failed or a reset changes
    nothing of it.
  - `LoggedEndsAreReal`: `AuditedEndIsReal` under `WellProvisioned`.
    `RowEndedFirst`: undisrupted, the row of a goroutine that has yet to log the
    end of its job has that end; from there `TerminalStays` keeps it.
- `WebhookProofs`
  - `WebhookTypes`, `DuplicatesAreHarmless`: `TypeOK` and `OneJobPerWebhook`.
    Inductive invariant `EventsInv`: idempotency keys are unique among the rows,
    every job refers to a row and to a place of its event (`TablesInv`), and a
    handler goes on from its INSERT, and answers, only with a row of its key in
    the table (`HandlerInv`). Two places of one event never spell the same key.
  - `CalmWebhooksAreComplete`: `CalmRowsComplete`, from `CalmInv`: while nothing
    fails, the row of every place that a handler has passed is in the table.
  - `WebhookImplementsInbox`: `Spec => InboxSpec`, from `EventsInv`, with any
    number of faults. Each statement maps to a step of `Inbox` or to a stutter.
- `SystemProofs`
  - `ServiceRunsWorkers`, `ServiceRunsHandlers`: each step of `System` is a step
    of `Worker` or leaves its variables alone, and the same for `Webhook` with
    `Rows` for its table. Inductive invariant `Inv`: workers hold, and Jira was
    asked for, only rows that were inserted (`WorkersInv`), so that no step of
    theirs inserts or removes one; a handler works on what was sent to it, in an
    instance, and enqueues only jobs there may be (`HandlersInv`).
  - `MovesAreUnique`: `OneMovePerWebhook`, without a premise. By
    `DuplicatesAreHarmless`, cited through the instance `H` (whose assumptions
    are `SystemAssumption`), handlers queue one job; by `Inv`, Jira is asked only
    on behalf of jobs in the table.
  - `ServiceIsAsPromised`: under `WellProvisioned`, `Spec => ServiceSpec`. Its
    invariant `SidesInv` joins `Inv` with those of the two sides. Each step maps
    to `Take`, `Queue`, `Work` or a stutter (`TakeOfService`, `QueueOfService`,
    `WorkOfService`). A step of one side takes its abstract step from the
    refinement that is proved of that side, and leaves the other side's view
    alone because it changes neither which rows there are nor their life. An
    INSERT is a step of both; it is `Queue` when it takes effect, for which
    `OneJobPerWebhook` must hold of the table it makes, and a stutter when it
    fails.
  - `WorkersKeepTheirPromises`, `ProvisionedWorkersExcludeEachOther` (under
    `WellProvisioned`), `AuditLogIsTruthful` (under `~AuditLossy`),
    `HandlersKeepTheirPromises`: the properties proved of each
    side hold of it inside the service.
- `MainProofs`: `ExitCutsNothingOff` (`NothingCutOff`), from `Ends`: after the select
  no request is accepted, `Shutdown` without a timeout leaves none, `bgWg` is down
  before the pool is closed, and no statement begins after that.
- `ScheduleProofs`, for every hour
  - `NextWeekdayAnywhere` and `DueOnEveryHost`: `NextWeekdayOrYesterday` and
    `DueInEveryZone`, for every zone. `TruncateShiftsDate`: on the host's calendar a
    truncated clock shows today, or yesterday in the hours of the day before
    midnight in UTC; a host in UTC has no such hours, so that there the comment of
    NextWeekday holds.
  - `RetriesAreCapped`: `DelayIsCapped`, from `DelayOfAttempts`, which gives the
    delay for every natural number of attempts: the powers of two are evaluated up
    to the clamp of the exponent (`SmallPowers`, `LargePowers`), and above it
    there is no power to take.

Only model-checked: liveness (`EveryJobSettles`, `ShutdownReturns`,
`AnsweredIsQueued`, `TakenIsSettled`, `SignalEnds`), which is out of the prover's
reach.

`AnsweredIsQueued` and `TakenIsSettled` hold for payloads whose issue keys agree
whenever their idempotency keys do, as in the runs: whoever shares a key is the
same webhook. `Webhook_reopen` shows what happens otherwise. `AnsweredIsQueued`
holds as long as nothing fails; `TakenIsSettled` through crashes, shutdowns and
failures, unless a job was lost.

## Not modelled

- What the regular expression finds in a text, and the upper case of a find: the
  constants `Matches` and `Upper`.
- Health and admin endpoints, request logging: no state that changes.
- The rate limiter's counter and the connection pool after `NewPool`: libraries. A
  refused delivery is `Refuse`, a statement that gets no connection is one that
  fails.
- The parsing of durations and of the YAML file; settings other than the
  required ones are one of each kind in `Main`, and constants elsewhere. `Validate`
  does not look at `jira.base_url`, at any interval, or at `worker.concurrency`.
- What plugins do, and their registration.
- `ListFailed`, `ListStale`, `GetByID`, `ListRecent`: they only read.
  `GetIssueStatus`, `GetTransitions`, `UpdateIssueFields` and `BackoffForAttempt`
  are called by nothing in the program.
- In `Webhook` alone, handlers cut off by the shutdown timeout are a `Crash`; in
  `System` they are part of `End`.
- That a client which disconnects cancels the context of its request, and with it its
  statement, is one way for `Answer` to happen in `Main`; nothing makes it happen.
- The order in which several jobs of one issue reach Jira. No document promises
  one, and a concurrency above 1, a second instance or a retry gives none.

## Order of work, and what is left

The modules were written in the order `JobTable`, `Executor`, `Worker`,
`JobLifecycle`, `GitLab`, `Webhook`, `Main`, `Schedule`, `Inbox`, `System`,
`Service`, each with its proofs after its runs.

Left: a `System` in which jobs are reset under their workers, and one with several
issues, both too large for these bounds; and the part
of `ServiceIsAsPromised` that survives without `WellProvisioned`, which needs an
abstract service whose final rows may move.
