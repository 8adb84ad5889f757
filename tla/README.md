# Imbi: a verification development

TLA+ models of the parts of Imbi that decide *when* something happens, *how often* it happens, and
*who may still stop it*: the scheduler, the workflow engine, agent tasks and the runners that work on
them, the secret broker, maintenance runs, and the queues of the API. The models are written from the
code; the docs, comments and tests say what the code means to promise, and where they and the code
part, a run or section 7 says so.

## 1. Inventory

Imbi is a set of Python (asyncio) processes around three stores. Postgres, with the AGE graph
extension, keeps what must not be lost; ClickHouse keeps history, which reaches it through the Iggy
log some seconds later; Valkey keeps queues and short-lived state. Any process may have several
replicas. No replica talks to another: they meet in rows, row locks, advisory locks, streams and
`NOTIFY`.

| Component | State it keeps | Operations | What is hard | What makes it correct |
| --- | --- | --- | --- | --- |
| Scheduler: leases (`engine.py`, `store/tasks.py`) | `run_leases`, `_in_flight`, a semaphore, run history | acquire, release, expire, `request_cancel`, `delete`, shutdown | a firing spans a dozen awaits; cancel, delete, crash and teardown come between any two | limit respected across replicas; no lease outlives its task; a cancel that was accepted is enforced; slots come back |
| Scheduler: claims (`engine.py`, `store/tasks.py`, `endpoints/tasks.py`) | `scheduled_tasks` rows: `enabled`, `next_run_at`, counters | `claim_due`, `_advance`, `record_outcome`, pause, resume, patch, run now | ticks overlap on and across replicas; requests read, wait and write back | a due time is fired once; none is passed over; no backlog; disabled only after enough skips |
| Scheduler: loop (`engine.py`, `lifespans.py`) | `_wake`, the ticks in flight, the listener | tick, sleep, notify, shut down | a notification at any moment; a listener that drops out; a failed query | never sleeps past what it could know of; due tasks are claimed; shutdown drains |
| Scheduler: triggers (`triggers.py`) | none | `next_fire_time` | a skip that floors, short months, bounds, a wall clock that shifts | the first firing of the series that is later |
| Scheduler: executor, rendering, identities | none | call, retry | one deadline over several attempts | bounded attempts |
| Workflow engine (`apps/workflows`, `common/workflows/walk.py`) | `workflow_runtime` `runs`, `step_runs`, `leases` | claim, load, one pass, write, release | leases run out during a pass; claims read a snapshot; effects of unknown outcome; joins | steps follow edges; what is over stays over; one run per key; cancels stop steps; runs close |
| Workflow API (`apps/api` `workflows/`) | workflows, versions, archive, the same run rows | save, activate, pause, create, cancel, `once`, archive, sweep | the sweep and the engine look at one run; repeated requests | a repeat returns the first answer; nothing open is archived |
| Trigger bindings (`bindings.py`) | gateway rules and scheduled tasks of each trigger | reconcile | pause, delete and reconcile cross | an inactive workflow has no live trigger |
| Agent tasks (`agent_tasks/`) | tasks, sessions, requests, budget, a numbered log | queue, open, control, request, resolve, close, publish, sweep, archive | control arrives while a runner reports; two sessions of an agent are opened at once; publishes fail half-way | status agrees with what goes on; the limit of an agent; the log is kept |
| Harness (`apps/api` `harness/`, `apps/harness`) | runners, chains, claims, attempts | register, claim, begin, finish, expire, fence, requeue | a runner that is lost or only late; an answer that is lost | one worker per chain; no chain forgotten |
| Secret broker | resolutions, leases at providers | create, materialize, release, close, fence, sweep | the provider is asked between two transactions | nothing is left to a fenced runner; what is recorded is revoked |
| Maintenance | pending set, `in_flight`, run state in Valkey | start, checkout, record, requeue, pause, cancel, finalize | no two calls are a transaction; finalize beside an item in flight; a shutdown at any await | no project is forgotten, save with a worker that was cut off |
| Queues: promotes, resyncs | Valkey streams, pending entries, locks, statuses | enqueue, claim, renew, acknowledge, dead-letter | redelivery beside the first delivery; crash between remote call and record; late reports | a recorded rollout is reused; nothing is shown as going on that is not |
| Scoring queue | stream, debounce key, lock, scores | enqueue, read, claim, recompute | the key lapses and the lock is contended in any order | a stale score has a job; scores do not go back |
| Identity, auth | OAuth state, connections, tokens | start, callback, refresh, sweep | refresh by two requests at once | a valid connection stays valid |
| Gateway, assistant, Slack bot, MCP server, catalog, plugins, UI, charts | little or none | request and response | not concurrent in an interesting way | |

How they interact. The scheduler calls the gateway or the API over HTTP, with an identity of its
own; the API and the bindings of a workflow write `scheduled_tasks`, and a `NOTIFY` in the same
transaction wakes the loops. A trigger makes the API create a workflow run; a `NOTIFY` wakes the
workers of the engine, which take it in turns under a lease. A step of a workflow may make an agent
task. A runner claims a task with its chain through the harness API, opens a session on it, and works
with secrets from the broker; when it is lost, the sweeper expires its lease, asks the fencers (the
broker is one) to take back what it has, and returns the chain to the queue. Maintenance and the
queues are consumers inside the API process.

## 2. Plan

The order was that of what would hurt most if it were wrong; what is left is at the end.

1. `RunLeases`, `TaskClaims`, `SchedulerLoop` — one module for each thing of the scheduler that has a
   lock or a wait of its own. *Done*, with proofs.
2. `WorkflowRuns` — runs, leases and the walk of a workflow — and the abstract `RunWalk` it implements.
   *Done*, with proofs; the refinement is checked and proved.
3. `AgentTasks`, `TaskLog` — control, sessions and requests; the log and its archive. *Done*, with
   proofs.
4. `HarnessChains`, composed with `AgentTasks`, and the abstract `ChainPin` it implements. *Done*; the
   refinement is checked and proved.
5. `SecretLeases` — the broker beside the fencing of 4. *Done*, with proofs.
6. `ConsumerGroup` with `PromoteWatch`, `ScoreQueue`, `SyncQueue`; `MaintenanceRuns`. *Done*, with proofs.
7. `Triggers` — dates as operators against a reference definition. *Done*, with proofs, without cron.
8. Left: `once` and the step that makes an agent task; trigger bindings; the refresh of an identity
   connection.

Modules that theorems are about hold no RECURSIVE operator; every constant has a named assumption;
every invariant is a conjunction whose parts have names.

## 3. What is modelled

A step of a model is what happens between two awaits, or one SQL statement or transaction where
nothing inside can be told apart from outside. Postgres is trusted for row locks, advisory locks and
READ COMMITTED; where a statement reads a snapshot and locks later, the model has two steps. A call
to Valkey, or one pipeline, is a step.

### RunLeases — `apps/scheduler` leases and cancels

One `pc` per firing follows `Engine._fire_under_lease`: `locking`, `checking`, `counting`,
`inserting` are the statements of `Tasks.acquire_lease` under its advisory lock; `leased`, `queued`,
`admitted`, `cleared` the two reads of the cancel flag around the wait for the semaphore; `calling`,
`interrupted`, `returned` the executor; `releasing`, `withdrawn`, `aborting`, `recording` the way
out. `leased`, `lapsed`, `flagged` are the rows and columns of `run_leases`, `lock` the advisory
locks, `notices` the notifications on `CANCEL_CHANNEL`, `history` what the run-history read of the
cancel endpoint returns. The gap between `cleared` and `calling` is real: the second read has
answered, and the run is not in `_in_flight` before the coroutine resumes.

Faults: `crash` (a process dies and its transactions roll back), `deaf` (the listener reconnects),
`delete`, `teardown` (shutdown cancels what did not drain), `lapse` (a firing outlasts its lease).

### TaskClaims — the task rows

`row` has `enabled`, `next_run_at` and the skip counter of each task; `rowLock` says whose claiming
transaction holds it; `tick` and `edit` hold what a tick or a request has read and will act on;
`firings` is the history of the claims of each task. `Pick` and `Advance` are `claim_due` up to its
SELECT FOR UPDATE SKIP LOCKED and from there to its commit. `ResumeRead`/`ResumeWrite` and
`PatchRead`/`PatchWrite` are the two halves of the endpoints, because both compute what they write
before they wait for the row. Of a trigger, "some moment strictly later, or none" is left.

### SchedulerLoop — `run_forever`

`loop` is where the coroutine is: `asking` is the query of `_delay`, `answered` the moment between
its answer and the look at `_wake`, `sleeping` the wait. `ticks` are spawned and not awaited.
`notices` are notifications the listener has not handled; `missed` remembers that one was sent while
nobody listened. Other replicas claim at any moment and tell nobody. Faults: `deaf`, `claim` (a tick
fails, or every due row is locked), `query` (`_delay` raises, which ends the loop).

### Triggers — `triggers.py`

`IntervalFires`, `CalendarFires` with `Seek`, `SkipAhead` and `DateAt`, and the date trigger, over a
calendar of short months, in zones that change their offset once. `FallsOn` says which days a
calendar trigger means without counting steps, and `Series` is the set of its firings; the answer has
to be the first of them that is later.

### WorkflowRuns, RunWalk — `apps/workflows` and the run rows of the API

`run`, `steps`, `lease` are the three tables; `created` the order of `(created_at, id)`; `worker` what
each coroutine of `Engine._worker` has read, as of its claim and its load. `Look` is the snapshot of
the claim's SELECT, `Take` the row lock that follows it, with the rows it looks at anew and those it
does not, and the ON CONFLICT upsert of the lease. A pass (`Decide`) does one thing, on the rows it
read, under `Holds` — the check of `Store.write`, which compares the `worker_id` of the process. The
walk (`Into`, `Active`, `Dead`, `Skipped`, `Ready`) is `walk.advance`. The branches of `_process` are
in the order of the code, each guard with the negations of those before it. `asked` is a history
variable: the steps that had not started when a cancel was accepted.

`RunWalk` is the promise: a run is walked as if one interpreter did it alone, on the rows as they are,
with no claims, no leases and nothing read before it is used. A step starts when nothing else goes on
and an edge leads to it, is called while it is on, and ends by an answer to a call that is out; a run
is closed for a reason it has, with all its steps. `Lose` is all that is left of crashes and leases: an
answer that never comes, or that nobody may record. `Walk` is the refinement mapping: claims, leases and what a
worker has read are hidden, save the call it has out, and a run is there once its row is committed.

Faults: `crash`, `lapse` (a pass outlasts its lease), `raise` (a pass or a release raises),
`overlap` (creates overlap; see section 7).

### AgentTasks — `agent_tasks/store.py`

`status`, `control`, `session` and `request` are the columns of a task; each operation is one
transaction that holds the row of its task. Only the opening of a session is several steps
(`opening`): it holds the row, waits for the advisory lock of the agent, and counts the sessions of
the agent's other tasks before it inserts its own.

### TaskLog — `agent_tasks/log.py` and `sweeper.py`

A write appends to `events` and `ledger` and leaves a batch in `outbox`, which is published after the
commit: to the Operations Log, the events, the usage, in this order, and up to any failure. `topic` is
what Iggy has, `stored` what ClickHouse has by now. `round` is what a sweep has read; it publishes
again what is missing, or archives a closed task whose counts agree.

### HarnessChains, ChainPin — `harness/store.py`, `sweeper.py`, `auth.py`

`runner`, `chain` and `claims` are the rows; `call`, `ending` and `grant` what a runner has sent and
got (an answer may be lost, a token outlives the claim it was made for), `sweep` what a sweeper has
read. It extends `AgentTasks`, whose session keys are the runners, and adds what the chain allows to
each of its actions. A lease expires at any time. `ChainPin` is the promise: free, held, draining,
over; it changes hands only when the holder has not begun or everything it had is revoked. `Pin` is
the refinement mapping.

### SecretLeases — `secret_broker/broker.py`

`resolution` is the row, `lease` what the provider has issued, `given` what the runner has got.
`TakeHandle` is the first transaction of `materialize`, `Issue` the provider, `Finish` the second
transaction with `StillUsable`. `errand` is what a releaser, the close hook, a fencer or the sweep is
at; a fencer holds its row locks from the first statement to its commit. `fencersOk` is what
`HarnessChains` takes as given: the answer True of a fencer. Faults: `crash`, `refuse` (the provider),
`save` (a transaction fails).

### MaintenanceRuns — `maintenance/state.py`, `worker.py`

`lock`, `waiting` and `run` are the keys in Valkey; `worker` and `admin` where each instance and
request is between two calls. `gone` are the projects of the run whose worker was cut off with them in
hand: `CrashInstance` is a killed instance; `CountCutShort`, `ItemCutShort` and `RequeueCutShort` are
the awaits at which a shutdown, or a call to Valkey that raises, ends a tick without handing the
project back. A shutdown during `operation.execute` hands it back (`ItemDeferred`, `Defer`).

### ConsumerGroup, PromoteWatch, ScoreQueue, SyncQueue — the queues

`ConsumerGroup` is a stream with its group as the queues use it (XADD, XREADGROUP, XAUTOCLAIM, XACK,
the dead letters). `PromoteWatch` is the watch over a release build and its rollout, with the
endpoint, the remote, the webhook and the dead-lettering. `Upsert` is the one write of a Deployment
node, by the watch and by the gateway: the first writer is the origin, the last status wins, and
`closed` is a history variable that remembers a status other than in progress. `Webhook` may report a
start late, and so reopen a node. The closing of a node is best effort, and an exception in the
dead-lettering ends the consumer loop (`RetireRaises`). `ScoreQueue` has the debounce key, the lock
of a project and the batch of a worker; `SyncQueue` the same for a resync, with the statuses it shows.

## 4. Runs

`CHECK_DEADLOCK FALSE` everywhere: all clocks, firings and runs are bounded, so every model comes to
an end, and the real system may stop when nothing is due. Small systems that share nothing share a
run: its initial state chooses a `subject`, and the others stay as they are.

| Run | Instance | What it shows |
| --- | --- | --- |
| `leases_safety` | 2 replicas, 3 firings, 1 task, limit 2, one execution slot; crashes, deletes, lost listeners, teardowns | the limit holds in the table and among the firings at work; no orphan lease |
| `leases_end` | 1 replica, 2 firings, one execution slot, crashes, a cancel of each at any time by either kind of caller, fairness | early cancels withdraw the run, late ones are on their way; none is refused while the firing is live; firings end |
| `claims_once` | 2 tasks, 2 ticks, a batch of 1, pauses, crashes, time to 3, fairness; or 1 task with run now, patch and resume | no due time is fired twice, no backlog, no due task is passed over, disabled only after enough skips |
| `claims_patch` (violation) | 1 task, a patch | a patch writes back a due time that was claimed |
| `comes_back` | subject `loop`: 1 task, 2 ticks at once, poll 2, time to 2, one edit, all faults; subject `secrets`: one resolution, releaser, close hook, sweep and fencer, all faults; fairness | no oversleeping, no due task passed over while the loop goes on; nothing is left to a fenced runner, recorded leases are revoked |
| `loop_dies` (violation) | 1 task, `query` | one failed query and the replica claims no more |
| `workflow_steps` | 1 run, 2 processes with a worker each, a rescue branch or an "all" join, crashes, lapses, raises, fairness | steps follow edges, over stays over, a cancel stops the next step, runs close and are settled; the engine implements `RunWalk` |
| `limits` | subjects `keys`: 2 runs with one key, 2 processes; `agents`: 2 tasks of one agent that may work on one; `projects`: 2 maintenance runs of 2 projects on 2 instances, with crashes, shutdowns and failing calls at any of them; `dates`: 25,912 questions to triggers | one run per key; status agrees and the limit of an agent holds; no project is forgotten, save with a worker that was cut off; the first firing that is later |
| `harness_chains` | a chain of 2 tasks, 2 runners, 1 sweeper, 2 attempts, lost answers, late requests, fairness | one worker, one attempt each, no work out of reach, the refinement of `ChainPin`, fenced chains come back |
| `task_log` | 4 events, 1 report, 1 sweep, publishes that fail half-way, fairness | the log is kept, and archived when the task is closed |
| `queues` | subjects `promote` (one; crashes, errors, rate limits, webhooks; fairness), `promotes` (two), `score` (3 saves, 2 workers), `sync` (2 jobs, 2 workers) | a recorded rollout is reused, every watch ends; a stale score has a job and scores do not go back; nothing is shown as going on that is not |
| `promote_twice` (violation) | 1 promote, a crash | a tag that is deployed is deployed again |

**Why the bounds are enough.** Limits, locks and leases are between two parties, and the third makes
one of them wait or be pruned: three firings for two slots give every order of count, insert, prune
and release, with one left outside. Two replicas are the smallest number in which a notification can
reach the wrong one; `leases_end` has one, because its questions are about the replica of the firing
and any other would only not find the run. A batch of one with two tasks is the smallest that leaves a
due row out. Time to 3 with a grace of 1 lets a task be claimed in time, late, and too late. Two
workers and a lease are all there is to a run; two shapes of graph give a skip, a failure with and
without an edge, a retry, and a join whose other branch is open, done and dead. Two runs give every
order of a key. A chain of two tasks has a parent that closes before or after its child, and two
runners are the lost one and the next. The broker's revokers meet on one resolution; TLC has also
checked the inductive invariant of its proof with two fencers. Two workers of a stream are the first
delivery and the redelivery. The dates have months of one to four days, so that every day of an anchor
is clamped in some month, and steps of one and two. Symmetry (replicas, firings, runs, the two
processes each with its worker, instances and projects) is used only in runs without liveness
properties. `MaxDrift` bounds, above and below, how far `in_flight` may leave the number of items at
work by calls that end half-way. Runs are bounded by
their sets (each run id fires once), never by a constraint; the profiles `claims` and `edits` of
`MCTaskClaims` and the two sizes of promotes in `MCQueues` choose which actions are looked at
together.

**Fairness.** `RunLeases`: every firing goes on by itself (the event loop runs what is ready, Postgres
answers), notifications to a listener that is there arrive, expired leases expire; the target owes an
answer only to a call that nobody cancelled (otherwise the timeout of the call ends it).
`TaskClaims`: ticks go on and time passes; strong fairness for the query and the commit of a tick:
the loop starts ticks as long as the process lives, and not every one of them dies before its commit.
`SchedulerLoop`: time, the loop and its ticks go on; not every claim fails; nobody has to reconnect.
`WorkflowRuns`: crashes, overruns and exceptions stop in the end (`<>[][~Fault]_vars`), after which
workers go on and due times, deadlines and abandoned leases pass; nothing is assumed of the target: a
step that is polled for ever is cut off by the deadline. `SecretLeases`: requests, errands and the
clock go on; a sweep runs every interval, so one that finds something to do, and a revocation that the
provider accepts, come in the end (strong). `HarnessChains`: the sweepers go on and a fencer answers
True at some time. `TaskLog`: a sweep runs every interval, the sink reads its topic, and a publish
that is tried again and again succeeds (strong). `PromoteWatch`: workers go on (a process that
died, or whose consumer loop ended, is started again), a pause ends, and a poll has a time limit;
nothing is assumed of the remote.

## 5. What is proved

For all values of the constants that satisfy the named assumptions: any number of replicas, firings,
tasks, ticks, runners, resolutions, any limit, and any subset of the faults unless stated. Each module
proves first that every variable keeps its type.

`RunLeases_proofs`:

- `RowsWithinLimit`: `LeaseRowsWithinLimit`. The count and the insert are two steps, so the limit is
  not inductive. What is: a firing in `checking`, `counting` or `inserting` holds the lock of its
  task, and one in `inserting` still has room (fewer than `Limit` rows), because everything that adds
  a row needs the lock.
- `NoOrphans`: `NoOrphanLease`, from the same fact about the lock and "past the check, the task
  exists", which a delete cannot change without the lock.
- `InstanceLimit`: `InstancesWithinLimit`, provided `lapse` is not among the faults: a live firing
  then has its lease, or its task is gone; so live firings are at most the rows while the task exists,
  and no new one starts afterwards.
- `CancelAlwaysTakesHold`: `CancelTakesHold`, provided `lapse`, `delete` and `deaf` are not among the
  faults: a delete takes the flag with the row, and a listener that is deaf hears nothing. The
  invariant follows one request through the three places it can be in: the flag in the row stands until
  the firing ends, a firing that has passed its check of the flag never comes back to a phase before
  it, and from then on its replica's listener has the interrupt, or the notice is on its way to it.

`TaskClaims_proofs`:

- `ClaimsOnce`: `ConsumedOnce`, provided the activities hold no patch and no resume (for each of them
  the property fails). The invariant orders the firings of a task by their moments, and says that
  `next_run_at` is later than the moment of the last claim, that a claimer with a picked row holds its
  lock, and that its moment is not before the due time it claims.
- `SkipsComeFirst`: `DisablesAfterSkips`, with every activity. Outcomes are written over copies of the
  row that may be old. What is inductive is a count: the streak of the row, the one a firing was
  claimed with, and the one in the copy a patch will write are never more than the firings of the task
  whose skip was written, and a firing that still has its own to write is none of them.

`LoopAndTriggers_proofs`, about `SchedulerLoop` and `Triggers`:

- `NeverOversleeps`: `NoOversleep`. What is inductive is that an answer stands: while the loop has been
  told nothing since it began to ask (no wake, no notice under way, none missed), the due time it was
  answered is not later than that of any task. Claims, its own and those of other replicas, only move
  tasks to later times; an edit leaves a notice or a missed mark in the same step.
- `EndsDrained`: the last step of the loop waits for its ticks.
- `FiresAtTheFirst`: `FirstOfSeries`, for any day length, calendar, steps, bounds, zones and moments, as
  long as the calendar has a date for what comes next (`CalendarGoesOn`, a bound of the model). The
  dates that the code counts out from an anchor are exactly the days that fall on the step, and they
  grow; `_skip_ahead` never lands past the date that is sought, so that the walk from there meets the
  first one that is later; and away from the shift, walls and moments are in the same order.

`WorkflowRuns_proofs`:

- `OvertakenWritesNothing`: `OverStaysOver`, provided that no two workers of one process have the same run
  (`OwnRunsApart`, as a hypothesis on the behaviour; without it the property fails, see section 7). Any
  number of workers may share a process, as by default ten do; `AloneIsApart` says that one in each
  needs no hypothesis, and `OnlyAClaimOfItsOwn` that what is assumed away happens in one way only: a
  worker claims a run while another of its process is at it. The invariant (`FreshInv`) says that
  whoever holds the lease of its run, expired or not, has read the status and the step rows that are
  there, and that the step it calls is running. A lease that is taken over makes the other process
  fail the check of its next write, and nobody else writes to that run. Of the walk the proof needs
  that what is skipped was pending; the recursion of `Skipped` is shown to have a solution for every
  graph.
- `RunsTakeTurns`: `OneRunningPerKey`, under `OwnRunsApart` and without `overlap`. The older runs
  of a run that is running, or that was queued when a worker found or claimed it, are closed
  (`KeyInv`), and closed is for ever. That a snapshot is old when the row is locked does no harm,
  because a run never becomes older than another that was there before it (`OrderInv`); this is where
  creates must not overlap.
- `ClosedRunsAreSettled`: `ClosedIsSettled`; `StepsAlwaysFollowEdges`: `StepsFollowEdges`;
  `CancelStopsTheNext`: `CancelStopsNextStep`, all under `OwnRunsApart`, for any graph and any
  faults. The three rest on one fact (`Effect`): when the worker that writes has read what is there, a
  write moves each step as the walk allows, and a run is closed with all its steps. Closed runs: before
  it is started a run has no steps (`NotStarted`). Edges: what an edge was when its step was decided it
  stays, because its source is over; for a skip this takes the recursive equation of `Skipped`.
  Cancel: a worker that claimed before the cancel still holds the lease when it writes, so that no
  step that had not started has been started by another (`AskedInv`), and it starts and calls a step
  in two passes, the second of which sees the cancel.
- `WalkedAsOneInterpreter`: `WalkSpec`, that the engine implements `RunWalk`, under `OwnRunsApart`, for
  any graph, retries and faults. The inductive invariant is that of the theorems above with `ReadInv`:
  a cancel that a worker has read is there, and while a caller holds the lease its step is marked as
  called and has the attempt that was read before the call; so an answer is recorded over the row it
  belongs to. Each action maps to one step of `RunWalk`, or to a stutter; what a worker does after it
  was overtaken maps to the loss of its answer.

`AgentTasks_proofs`:

- `StatusAlwaysAgrees`: `StatusAgrees`; `LimitHolds`: `WithinMaxTasks`. The limit is counted in one
  step and used in a later one; what is inductive is that an opening that has counted holds the lock of
  its agent and that there is a place left for it.

`HarnessChains_proofs`:

- `SoleWorkerAlways`, `AttemptStaysSole`: `SoleWorker`, `AttemptIsSole`, with every fault. Open work in
  a chain belongs to the runner it is pinned to; claims of a chain have attempts that were current, and
  a chain that is lost gets a new one before it is free again.
- `WorkStaysInReach`: `WorkIsReached`, without `stop`.
- `PoolKeepsItsPromise`: `PinSpec`, that the pool implements `ChainPin`, without `stop`. The initial
  states map to its initial states, and every action to a step of one chain or to a stutter.

`TaskTraces_proofs`, about `TaskLog` and `SecretLeases`:

- `LogIsKeptAlways`: `LogIsKept`. A round that has found the log whole has read a number of events that
  no write takes back; so what is archived is what the sink has, unless a write came in between, which
  changes `last_seq` and makes the archive do nothing.
- `FencedHoldsNothingAlways`: `FencedHoldsNothing`. The invariant says that errands and leases are on
  record in the rows, and that a fencer that goes on to True has every lease that is live and given
  before it, or revoked; only what ends a resolution takes it out of there.

`Queues_proofs`, about `MaintenanceRuns` and the consumer groups:

- `EachProjectIsAccounted`: `ProjectsAccounted`; `InFlightIsAtWork`: the types, with the bound on what is
  in flight. What is inductive is that `in_flight` counts no more than the workers between the count of
  an item and its outcome, as long as none was cut off; each step of a worker gives up its project to
  one of the other places, or keeps it, or is one of the four in which it is cut off with it (`gone`).
  So what can be lost is lost at one of these awaits, and nowhere else.
- `NoScoreGoesBack`: `ScoreNeverGoesBack`; `NoChangeIsSwallowed`: `StaleIsQueued`. Whoever has read the
  project holds the lock until it has written (`InTurn`), so what it read is at least what the score
  has. A key that is set has a job that will read the project after the change (`KeyHasJob`); this is
  what the endpoint relies on when it adds no job.
- `NothingLeftIsSettled`: `Settled`. What is shown as queued or running has a job that no worker is
  done with (`ShownHasJob`), and a request that nobody overtook has one that no worker has begun
  (`AskedHasJob`): this is what makes its late write of "queued" safe.
- `PromoteTyping`, `ScoreTyping`, `SyncTyping`: the types of the three queues.
- `ReusesWhatIsInFlight`: `RecordedIsReused`. A promote has a second Deployment only if each earlier one
  was never recorded by its watch, or has had its node closed; it does not say that no two of them run
  on the remote (section 7). An entry in flight is pending and has one driver (`OneDriver`). A node that
  a watch recorded and nobody has closed is in progress whatever the gateway reports and whenever
  (`OpenInProgress`), so who looks finds it; who dispatches found none (`DispatchesAlone`); and what is
  recorded is the last Deployment of its entry (`RecordsLast`, `OwnIsLast`).
- `ShownIsWatched`: `NoSpinner`. What is about to be acked has its outcome shown, unless a later promote
  shows its own (`AcksMarked`).

Their hypotheses leave out, as the runs do, what the code relies on and does not guard against: no
lock is lost while it is held (`stall` in `ScoreQueue`), no claim lapses while a worker drives its entry
(`stall` in `PromoteWatch`, `wait` in `SyncQueue`); and for `ShownIsWatched`, that the endpoint has
answered before the build has ended and that no worker dies between a dead letter and its status.
Crashes, errors, rate limits, and webhooks at any time and in any order are all in.

The proofs assume what the `ASSUME`s of the modules say: finite sets of firings and of workers,
positive limits, a calendar that goes on, and names that do not clash.

## 6. What is only model-checked, and what is not modelled

Liveness and its fairness (out of the prover's reach): `NoRefusalWhileLive`, `FiringEnds`,
`NoneIsPassedOver`, `LoopClaimsDue`, `LeasesAreRevoked`, `RunsClose`, `FencedReturns`,
`ClosedIsArchived`, `OneWatchEnds`.
Every safety property that a passing run checks is stated by a theorem, if need be under the hypotheses
above; so are the two refinements.

Left out of the modules: what a target, a step, a plugin or a provider computes; the no-effect counter
of a task, which only logs; steps that make and watch an agent task; run history and notices of
workflows; create and delete of a task beside its claims; budgets, owners and dependencies of agent
tasks; grants, bindings and audit of the broker; promotes without a Deployment and runs without an id;
cron expressions. The largest files of the repository are request handlers over the graph, one
transaction each, and adapters of outside services: they keep no protocol for a model to check. The
components marked `not_modelled` in `PROJECT.json` carry their reasons; trigger bindings, `once` and
the refresh of an identity connection are the ones a next stage would take. The hazards of `once` and of
the order of creates are listed in `PROJECT.json` at their lines, without a property.

## 7. What the models showed about the code

Runs that end in a violation on purpose:

- **A due time fired twice** (`claims_patch`). `patch_task` writes back every column it read,
  `next_run_at` included, over a claim that was committed in between.
- **A loop that ends** (`loop_dies`). `_delay` queries outside any `try`; one failed query ends
  `run_forever` while the process stays up.
- **A promote deployed twice** (`promote_twice`). A worker that dies between the end of the rollout
  and the acknowledgement leaves a job that finds no Deployment in flight and triggers another one.

Seen while modelling, at the edge of what the runs and theorems assume:

Scheduler.

- A cancel that commits after the second read of the flag and before the run is in `_in_flight` is
  accepted and lost (`engine.py:183`); the run then ends by itself or by the timeout of its call.
- With `lapse`, `InstancesWithinLimit` fails: the lease is taken before an unbounded wait for a slot,
  and an exponential backoff is not bounded by the timeout (`engine.py:268-278` says otherwise).
- A deleted task takes the leases of its live firings with it; their cancel is then refused, although
  `endpoints/runs.py:130-134` says a run whose task is deleted can be cancelled.
- A resume takes its moment before it waits for the row, so it can bring a claimed due time back.
- The engine counts a streak from the task as claimed; with overlapping firings it may disable a task
  whose stored streak is broken.
- `CalendarTrigger._seek` compares a candidate with the question by the wall clock
  (`triggers.py:221`; both have the same `tzinfo`). On the day a zone falls back, with an `at_time` in
  the repeated hour, the answer to a question of the second pass lies before the question, although
  the docstring says "strictly after"; the task is due again at once until the pass is over. A
  `FirstOfSeries` without the exception `InShift` fails there. One in the gap of spring is passed over
  between the end of the gap and its moment.
- A calendar trigger does not fire at a `start_at` that is itself one of its moments, where an
  interval trigger does; `_as_utc(start_at)` is the floor of a strict comparison.

Workflows.

- All workers of a process share a `worker_id` (`app.py:51`), and a claim can take a lease that is
  still valid because the row it locks was not updated (`store.py:78`, `:177`). The one that was
  overtaken passes the check of `Store.write`: with two workers in one process, `OverStaysOver` fails.
  `OnlyAClaimOfItsOwn` proves that there is no other way to it, and the theorems about the walk assume
  no more than that it does not happen.
- A call of a step that must not act twice and that ends by its time limit is retried with its mark
  taken off (`engine.py:411`, `_error`), while `docs/common/api/workflows.md:38-40` and
  `docs/api/adr/0021-workflow-contract.md:172-176` say that it is not called again and fails with
  `outcome_unknown`. No step type of the registry is declared so today.
- `created_at` is when a transaction began. With `overlap`, the run that commits last may be the first
  of its key, and `OneRunningPerKey` fails.
- `docs/admin/workflows.md:313` says that the timeout of a step does not cancel its agent task;
  `engine.py:464` does cancel it.
- Read, not modelled: two processes that reconcile the bindings of a trigger, one with an old
  snapshot, can leave a scheduled task or gateway rule that no row records.

Agent tasks and the harness.

- A request that is resolved while its task is paused with a session open leaves the task blocked
  (`store.py:1584`), and an expired request still counts as open (`store.py:2013`).
- A `finish` uses the chain that the authentication has read. With a SIGTERM during a poll (fault
  `stop`) a finish that overlaps a claim leaves a chain running on a runner that is offline:
  `WorkIsReached` and the refinement fail, while `SoleWorker` and `AttemptIsSole` are proved even then.
- `release_claim` after the lease has expired moves a chain from fencing to queued and leaves the
  runner `fenced`. A harness outside the pool is checked at one moment and acts at another; it is left
  out.
- The comment of `store.py:39-42` counts the grace from the success of the fencers; `requeue` counts it
  from `fenced_at`.

Secret broker.

- A fencer may return True while a lease that was issued and never given, because its resolution was
  found unusable, is still to be revoked (`_finish` clears the mark before `_revoke_unsaved`).
- Such a lease whose revocation is refused, or whose process dies, is known to no row
  (`broker.py:1104-1117` only logs it).

Maintenance.

- A graceful shutdown can lose a project, although the comment of the handler says "Graceful shutdown:
  hand the project back so nothing is lost" (`worker.py:151`). The handler is around
  `operation.execute` only; `lifespans.py:373-376` cancels the task at whichever await it has reached.
  Between SPOP and HINCRBY (`state.py:197-204`), in `_item_context` and in `record_outcome`
  (`worker.py:144`, `:184-188`, which catch `Exception` and so no cancellation) the project is in no
  set and in no count any more. An HINCRBY or a requeue that raises does the same without a shutdown.
  The model has these steps, and `ProjectsAccounted` counts their projects as `gone`; where the
  HINCRBY was made, `in_flight` stays up and the run does not complete.
- A completed run need not be drained: SPOP and HINCRBY are two calls (`state.py:204`), and another
  instance's `maybe_finalize` in between completes the run. If that project is then requeued, it is in
  a set that nobody works on.
- A late `_finish` of one run completes the next and deletes its lock; a late decrement makes its
  `in_flight` negative; an outcome whose reply is lost is counted and requeued; an item is lost when
  its requeue fails. A run without projects ends at once.

Queues.

- Two Deployments of one promote can run on the remote at once: after a crash, or a failed record,
  between the trigger and the record of the first; when the gateway records it before the watch does
  (its origin is then not `promote`, and a job that runs again does not look at it); and when the watch
  gave up on a rollout that went on and closed its node. `RecordedIsReused` says that there is no other
  way to it.
- A gateway report that comes late writes over the status of a closed node
  (`deployments.py:162` has no guard for statuses that are final): a promote that is over may show a
  Deployment in progress for ever. The watch closes nodes with best effort, so one may stay open even
  without that.
- An exception of the XADD or XACK of `_maybe_dead_letter` (`queue.py:241-242`) leaves the loop of the
  consumer (`:391-395`) and ends it until the process is started again; `OneWatchEnds` assumes that it
  is. The case in which the XACK was applied and only its answer lost leaves the promote shown as going
  on, like fault `abandon`. The consumers of the sibling queues are written the same way.
- What a promote shows: `building` is written after the enqueue without a guard (fault `early`), and a
  crash between the dead-lettering and `_mark_abandoned` leaves it there (fault `abandon`). `set_status`
  gives up at the first exception that is no conflict; that is left out. A rate limit during the
  rollout ends the promote as failed. A worker whose claim was not renewed in time may dead-letter its
  own entry (fault `stall`). The group is created at `$`.
- Resyncs: a rate limit counts as a delivery, so limits alone can dead-letter a job and leave the
  project `queued` or `running`; entries that wait in a batch are not renewed and are handled twice
  (fault `wait`); the status is then written after it was settled. `commit_sync` and `pr_sync` have
  neither `_renew_claim` nor the guard of the queued status.
- Scores: a lock that is lost while it is held (fault `stall`) lets an older job write after a newer
  one, and the exit of the lock then raises, so that the entry is left pending; an XADD that fails after its SET NX leaves the key without a job.

Identity (read, not modelled). Sweeps serialize on a key; requests do not, so two refreshes of one
connection race with a rotating token and the loser marks the connection expired; a refresh in flight
brings a revoked connection back (`upsert` sets it active).

## 8. Layout

`X.tla` is a component, `MCX.tla` its instances for TLC with the `.cfg` files of the runs, and
`X_proofs.tla` its theorems; `MCLimits`, `MCComesBack` and `MCQueues` put several small systems in one
run (those of `MCQueues` take turns with one queue). Definitions with "Mutant" in their comment are
plausible mistakes in the definition that follows them; put in its place, each of them must make TLC
refute one property of one run. `PROJECT.json` maps every definition to the lines it models and lists
components, runs, mutants, hazards, findings and theorems.

    tlc -workers 2 -config leases_safety.cfg MCRunLeases
    tlapm RunLeases_proofs.tla
