# Verification of the job scheduler

TLA+ models of the distributed job scheduler in `src/`, TLC configurations that
check them on small instances, and TLAPS proofs of their most important
invariants. Paths of Go files below are relative to `src/backend/`; `job.go:302`
alone is `internal/repository/postgres/job.go`, line 302.

1. [The system](#1-the-system)
2. [The modules](#2-the-modules)
3. [What is checked](#3-what-is-checked)
4. [Where code and documentation differ](#4-where-code-and-documentation-differ)
5. [Fairness](#5-fairness)
6. [What is proved](#6-what-is-proved)
7. [What is not modelled](#7-what-is-not-modelled)

## 1. The system

An API server (`cmd/api`, Fiber) and any number of worker processes
(`cmd/worker`) share a PostgreSQL database and a Redis server. There is no
message broker: the table `jobs` is the queue. A dashboard (`frontend/`), a proxy
and a seed script are clients of the API.

    client ──HTTP──> API server ──SQL──> PostgreSQL <──SQL── worker processes
           <──WS──      │                                        │ dispatcher, pool,
                        └──rate limits, pub/sub──> Redis <─locks─┘ reaper, scheduler,
                                                                   cron, heartbeat

| Component | State | Operations that change it |
|---|---|---|
| Table `jobs` (`internal/repository/postgres/job.go`) | one row per job: status, attempt_count, max_retries, run_at, claimed_by, claimed_at, idempotency_key | insert, claim (transaction), MarkSucceeded, MarkDead, ScheduleRetry, Cancel, PromoteScheduled, ReclaimStale, cascade from its queue |
| Dispatcher (`internal/worker/dispatcher.go`) | the pass over the active queues, the claimed batch | list queues, claim a batch per queue, submit |
| Pool (`pool.go`) | buffered channel, goroutines, atomic counter `active` | submit (blocks), receive, execute, close, wait |
| Executor (`executor.go`, `registry.go`) | the job in execution | handler with deadline, then one outcome update |
| Reaper, scheduler (`reaper.go`, `scheduler.go`) | none of their own | UPDATE of all stale, of all due rows |
| Cron engine (`cron.go`) and `cron_jobs` | definitions, next_fire_at | list due, lock, insert job, move next_fire_at, switch off; the API deletes definitions and can create none (section 4) |
| Lock (`pkg/lock`) | Redis key with token and time to live | SETNX, GET + DEL |
| Job service (`internal/service/job`) | none of its own | enqueue (look-up, read queue, insert), cancel, manual retry (read, write) |
| Batch service (`internal/service/batch`) | table `batches`, always empty | none: its route refuses every request (section 4) |
| Queue service (`internal/service/queue`) | table `queues` | create, and, each a read and then a write: update, pause, resume, delete |
| Backoff (`pkg/retry`) | none (pure) | delay after the n-th failure |
| Organisations and projects (`internal/service/org`, `project`) | `organizations`, `org_members`, `projects`, `project_members` | create in two inserts with a compensating deletion; members; update and key rotation as a read and a write of the whole project |
| Access control (`internal/middleware/auth.go`) | none | reads the caller's role before the handler runs |
| Sessions (`internal/service/auth`) | `users`, `refresh_tokens`, signed access tokens | register, login, refresh (read, read, sign), logout (read, update) |
| WebSocket hub (`internal/handler/ws`) | map of clients under a RWMutex, bounded channel, subscription | receive, broadcast, register, unregister, answer pings |
| Startup (`cmd/*/main.go`, `platform/cache`, `platform/db`) | connections, schema, row in `workers` | connect with retries, migrate, register |
| Heartbeats, metrics, execution logs | tables | written and never read, or read only |

How they interact: by rows. A dispatcher's claim (`ClaimBatch`, a transaction of
count, `SELECT ... FOR UPDATE SKIP LOCKED`, update, commit) hands a row to a
worker; the executor's outcome update gives it back. The reapers of all
workers, the scheduler loops, and the API requests write the same rows at any
time. Inside a process the dispatcher and the goroutines share the channel and
the counter; the engines of several processes share the Redis locks; the
subscriber, the broadcast loop and the handlers of the hub share its channel
and its map. API requests share nothing but the tables: but for the claim,
no transaction spans two statements.

What is hard:

- **interleaving**: every statement outside the claim is a transaction of its
  own; read-then-write sequences (limit, idempotency key, manual retry, queue
  state, role check, project row, refresh token, due list of the cron engine)
  have no lock around them;
- **leases**: the reaper goes by the age of the claim, the outcome updates by the
  id alone, so all depends on no lease outliving the visibility timeout;
- **failure**: crash of a worker, commit whose answer is lost, outcome update that
  fails and is only logged, crash between the two writes of a cron firing or of
  a creation, a compensating deletion that fails as well;
- **shutdown**: the dispatcher may be blocked in `Submit` when the process is told
  to stop, and the channel it sends on will be closed;
- **slow peers**: the hub writes to its clients one after the other, without a
  deadline, while it holds the lock that joining and leaving need;
- **arithmetic**: backoff in 64-bit nanoseconds, with jitter before the cap.

What makes each component correct:

- jobs: one claim per row, one execution at a time, no lost attempt, terminal
  states final, dead only when exhausted, every job settles; in one sentence,
  the table with all its workers implements the life cycle of a job;
- pool: each claimed job executed once, no send on a closed channel, nothing left
  in the channel at exit, shutdown terminates;
- cron: the engines keep to the protocol of the lock and release no other's,
  next_fire_at moves on only after a job and never past a minute that lies ahead,
  at most one repetition per fault, every due definition gets its turn;
- lock: mutual exclusion, no deletion of another's lock, freed after a crash;
- enqueue: one row per idempotency key, no answer without a job behind it;
- queues and backoff: an update does not undo a pause, a job's retry policy is
  one its queue once had, delays within the cap and near the nominal ones;
- organisations and projects: a refused creation leaves nothing, a live
  organisation has an owner, a replaced key stays dead, nobody acts without a role;
- sessions: one account per address, a session that was revoked ends;
- hub: each client gets every event since it joined, no write to a connection
  whose handler has returned, no event and no handler waits for ever;
- startup: nobody works unconnected, everyone runs in the end.

`PROJECT.json` lists every component with its status, and under `hazards` the lines
where each of these difficulties is met and the properties that cover it.

## 2. The modules

| Module | Models | Composed with |
|---|---|---|
| `JobQueue` | table `jobs`, claim transactions, leases of the workers, reaper, scheduler, job and queue requests, crashes | implements `JobLifecycle` |
| `JobLifecycle` | abstract: what the scheduler promises about one job | refined by `JobQueue` (`ImplementsLifecycle`) |
| `WorkerPool` | the inside of one worker process and its shutdown | stands for the `held`/`running` leases of one worker of `JobQueue` |
| `CronEngine` | cron engines and definitions | one instance of `RedisLock` per lock name |
| `RedisLock` | `pkg/lock` on Redis | refined by `CronEngine` (`UsesLock`) |
| `Enqueue` | concurrent enqueue requests and idempotency keys | its result is `JobQueue!Enqueue` |
| `Backoff` | `NextDelay` | |
| `QueueConfig` | the row of a queue and the retry policy a job inherits | extends `Backoff`; its delays are those of `JobQueue!Fail` |
| `Tenancy` | organisations, projects, members, roles, API keys | |
| `Sessions` | accounts, refresh tokens, access tokens | |
| `WsHub` | the WebSocket hub | |
| `Startup` | start, outage and restart of the processes | |
| `MC...` | constants and symmetries for TLC | extend their module |
| `...Proofs` | theorems | extend their module and TLAPS |

An operator whose comment begins with *mutant* is not part of the model: it is a
plausible wrong version of the definition that follows it, and replacing the
one by the other must break a property (`mutants` in `PROJECT.json`).

### JobQueue

A row is `status`, `attempts` (attempt_count), `claimedBy`, `due` (run_at <= NOW())
and `stale` (claimed_at older than the visibility timeout); `leases` counts the
claims of a job and exists for the properties only. Time is those two flags:
`BecomeDue` and `BecomeStale` set them at any moment, `OutliveTimeout` the latter
while somebody still works on the job. A lease is a claimed job in a
worker's memory with the attempt count the claim has read (`scanJob`): `held` in
the dispatcher's hands or the channel, `running` in a goroutine.

- `ListQueues`, `CountRunning`, `SelectRows`, `CommitClaim`, `EndPass` are
  `dispatchAll`, `dispatchQueue` and `ClaimBatch`, statement by statement. Between
  `SelectRows` and the end of the claim the rows are locked: other claims skip
  them, single-row updates wait, and the whole-table updates of the reaper and
  the scheduler do not meet them, since locked rows are pending.
  `CommitUnacknowledged`, `AbortClaim` and `CancelClaim` are its failures.
- `StartJob`, `Finish` (= `Succeed`, `Fail`, `Die`) and `LoseOutcome` are the goroutine
  and the executor. The handler may return nil or an error; a job whose type is
  not `Known` dies.
- `Crash`, `Restart`, `Shutdown`, `Stopped` are the process.
- `Reclaim`, `Promote` are the two UPDATEs of the loops. Which worker sends them does
  not matter, only that one is up.
- `Enqueue`, `Cancel`, `RetryRead`, `RetryWrite`, `Pause`, `Resume`, `DeleteQueue` are the API.

`LiveReclaim` says whether a lease may grow stale while its worker still works on it.
Nothing in the code prevents it (see section 4), so the properties that need
*safe leases* are checked and proved with `LiveReclaim = FALSE` and at most one
manual retry at a time, and refuted without.

`JobLifecycle` is the specification a user of the scheduler has in mind: a job
moves from pending or scheduled to running and on, `busy` while somebody is in
charge of it, and outcomes are written by whoever is. The mapping (`RowState`)
takes status and count from the row and `busy` from the leases of all workers.
The refinement is where everything of `JobQueue` meets: were two leases of one job
possible, or an outcome written over another's claim, a step would map to
none of `JobLifecycle!Step`.

### WorkerPool

One process in detail: `disp` is where the dispatcher stands (`Tick`, `NextQueue`,
`ClaimBatch`, `Submit`, `Submitted`, `Return`), each goroutine is receiving, has
received, executes, or has executed (`Receive`, `CountUp`, `Execute`, `CountDown`, `Exit`),
so the counter lags behind the channel as it does in the code. The select of Go
chooses at random when both the context and the ticker are ready; a tick taken after
the cancel lists the queues with a cancelled context, which fails, so `Tick` is left out
there: nothing would change. `Cancel`, `LoopReturns`, `StopPool`, `Stop` are the
shutdown of `service.go:103`.

### CronEngine and RedisLock

Time is a clock of minutes, the resolution of the expressions and of the lock
names. An engine lists (`ListDue`), and for each definition acquires the lock
(`Acquire`, `NotAcquired`, `AcquireUnanswered`), switches off a bad expression
(`Disable`, or `DisableFails`: the error is dropped and the definition stays due),
inserts the job (`Spawn`, `SpawnRefused`, `SpawnFails`), updates next_fire_at
(`UpdateFireTimes`, `UpdateFails`), and releases (`ReleaseGet`, `ReleaseDel`, `ReleaseFails`).
`fired[c][s]` counts the jobs inserted by engines that had listed `c` as due at `s`, up to
`Many`, one more than any property tells apart. The property `UsesLock` is the
refinement: for each lock name, with the mapping given at `Lock(k)`, the steps of the
engines are steps of `RedisLock`. A crash maps to `Leave`.

`NextFire` is `schedule.Next(now)`: the next date is computed from the minute of the
evaluation. Minutes of the schedule that went by before it (the engine was down, or
busy) are not made up for; one job stands for all of them. `MovesOnAfterJob` therefore does
not say that no minute is lost. It says that no date is left without a job for it,
and that what is passed over was past already at the evaluation.

`TtlCovers` says that the time to live (55 s) outlasts a firing with its release. Nothing in the code
guarantees it, as its statements have no deadline of that length, and `cron_safe` does
without (`FALSE`). `DelInTime` says that no key expires in the moment between the GET
and the DEL of a release. The code does not guarantee that either: `cron_safe` supposes it, and
`lock_release` shows what happens otherwise.

The run checks several deployments at once: `deployed` is chosen in `Init` and
never changes.

As the code stands the engines never fire anything, for three reasons
(section 4): the API refuses to create a definition, so rows come only from an operator
who writes the table (`Provide`, external); the service's `Create`, were it called, would
leave next_fire_at NULL (`FirstFire = {None}`); and the table refuses each spawned job,
whose tags are NULL (`refused = Crons` in the deployment). A definition deleted after it was
listed has its job refused as well, by the foreign key `cron_job_id` (`Refused`). `cron_safe` has
rows with a date, one deployment in which all jobs are refused, as they are, and two in
which the table takes them, to say something of the rest of the engine: `OncePerSlot`
and `MovesOnAfterJob` are about these, `DueIsTried` about all. `cron_never` has the second
reason, and with `Deployments <- MCAsItStands` and `FirstFire = {0}` the third.

### Enqueue

A request is its own job id; `LookUp`, `ReadQueue`, `Insert` are its three
statements, `Fails` any of them failing, with or without effect. `Empty` is the empty
key that a request may give: `Enqueue` does not look it up, but the table
compares it. `Tagged` are the requests that give tags: the others leave the slice
nil, and the table refuses their row.

### Backoff and QueueConfig

`Backoff`: durations are counted in minutes and wrap at the 64-bit limit in
minutes; a float that does not fit an int64 becomes the least or the largest
integer, as the machine decides; jitter is represented by nothing, a quarter
and just under a half. `QueueConfig` has the requests that `Read` the row of a queue
and `Write` it later: PUT replaces all columns but is_paused, and of those columns
the retry policy stands for all. `ReadQueue` and `Insert` are the enqueueing of one
job, which inherits what its request leaves open; what the request gives is not
validated, so base delays may be negative and the strategy empty. `Retry` computes the
delays of all its attempts. `said` and `inForce` are histories.

### Tenancy

Four tables, and per client one request: `req[c].step` is the statement that
comes next. The first step of a request to an organisation is the role check of the
middleware (`MinRole`); what follows acts on what was read. `CreateOrg`, `AddOwner` and the
deletion `DropOrg` are one creation, `InsertProject`, `AddAdmin` and `DropProject` the other;
`ReadProject`, `UpdateProject` and `RotateAPIKey` are the two requests that read a project
and write all its columns. Deleting an
organisation takes its members and projects with it. API keys are numbered in the order in
which they are generated. A fault is a statement that fails, one that takes effect
and whose answer is lost, or a crash of the server with all its requests.

### Sessions

A refresh token is a row; an access token is no row at all, so `access` has the
refresh tokens through which an unexpired one was issued. `Login`, `Refresh` and
`Logout` read; `CreateToken`, `IssueAccess` and `Revoke` act on what was read, later. `FailLogout` is
the logout whose statement failed: the handler answers 204 all the same.
Deactivation is a column that only an operator writes.

### WsHub

Three kinds of goroutine. The subscriber: `Receive`, `Send` (blocks while the
channel is full), `Relink`. The broadcast loop: `Take`, `RLock`, `StartWrite`, `WriteDone`,
`RUnlock`; a write to a peer that has stopped reading does not return until it
reads on or TCP gives it up. A handler per connection: `Register`, `ReadFails`, `Unregister`,
`Close`, each registration under the write lock, and `Ping`/`Pong`, which writes to the
connection beside the broadcast loop and, like it, waits for a peer that has stopped
reading (`TakesWrites`). When the two writes collide the library may
panic: in the handler, which recovers, or in the loop, which takes the process down.
Pub/Sub keeps nothing: what is published while the link is down is never received.

### Startup

Phases of each process with the attempt counter and `lastErr` of
`cache.New`, which is never cleared. The deadline of the startup context may pass
at any failed attempt.

## 3. What is checked

Run from this directory: `tlc -config <name>.cfg <module>`.

| Run | Module | Distinct states | Shows |
|---|---|---|---|
| `jobqueue_safe` | MCJobQueue | 2.48 M | safe leases: `ClaimExclusive`, `LeaseMatchesRow`, `NoDuplicateExecution`, `DeadOnlyWhenExhausted`, `OvershootBounded`, `AttemptsNeverLost`, `TerminalFinal`, and the refinement `ImplementsLifecycle` |
| `jobqueue_live` | MCJobQueue | 446 k | `Settles`: every job of a queue that stays active ends, whatever the fault, a lease that outlives its timeout included |
| `pool_safe` | MCWorkerPool | 124 k | `EachJobOnce`, `NoSendOnClosed`, `NothingLeftBehind`, `ClaimedExecuted`, `StopsWhenTold` |
| `cron_safe` | MCCronEngine | 183 k | `UsesLock` (refinement), `ReleasesOwnLocks`, `OncePerSlot`, `MovesOnAfterJob`, `DueIsTried` |
| `enqueue_safe` | MCEnqueue | 1.12 M | `OneJobPerKey`, `KeyServed` |
| `queue_safe` | MCQueueConfig | 2.80 M | `PauseHolds`, `PolicyOfOneMoment`, `WithinCap`, `NearNominal` |
| `tenancy_safe` | MCTenancy | 1.35 M | `FailedCreateLeavesNothing`, `OwnedUntilDisowned`, `OldKeyDeadUnlessRaced`, `ActsWithRole` |
| `sessions_safe` | MCSessions | 41 k | `OneAccountPerAddress`, `LoggedOutRevoked`, `SessionEnds`, `DeactivationEnds` |
| `hub_safe` | MCWsHub | 44 k | `NothingSkipped`, `NoWriteAfterReturn`, `EveryEventSent`, `LeaversGo` |
| `startup_safe` | Startup | 40 k | `EveryoneRuns` |
| `jobqueue_duplicate` | MCJobQueue | violation | see section 4 |
| `tenancy_rotate` | MCTenancy | violation | see section 4 |

`jobqueue_safe` takes two minutes, `jobqueue_live` and `cron_safe` about as long, the
others seconds up to half a minute.

**Bounds**, and why they are enough:

- `jobqueue_safe`: two workers give every pairwise race over a row and over the limit of
  a queue; three jobs, two of them of a type nobody knows, in a queue of limit 1 with
  batches of 2 fill a batch and leave one over, so that the overshoot is reached;
  pools of two goroutines can execute two jobs at once. `MaxRetries = 2` has one retry and
  one exhaustion, and a manual retry after it; `MaxAttempts` ends the sequence of
  manual retries. One fault: a crash, a shutdown, a lost commit or a lost
  outcome. `jobqueue_faults` allows two, with two jobs. One queue per run: queues meet
  only in the order of a pass and in the idle workers.
- `jobqueue_live`: two jobs, and one fault (each further one repeats a situation from
  a state reached already); no symmetry, as liveness demands.
- `pool_safe`: four jobs, more than the goroutines and half of the channel, so `Submit`
  blocks in the course of a shutdown; two loops to wait for.
- `cron_safe`: the clock stops at minute 2, so a definition of period 1 is due three times
  and a late engine skips one; two engines on one definition, one engine on two of
  different periods, and one whose jobs are all refused, the expression of one definition
  being bad; locks may run out while they are held; a fault.
- `enqueue_safe`: two requests have one key, for different queues, two the empty one, two
  none, and the row of one of these is refused; a lost or failed statement.
- `queue_safe`: two updates, two pauses and a resume all overlap; the overrides include a base
  equal to the cap, twenty and thirty attempts (past the point where the
  doubling overflows), zero and negative base delays; a statement that fails or
  whose answer is lost.
- `tenancy_safe`: one organisation and one project suffice, as no statement reads
  two; two users, two clients (a race is between two requests), two keys (one
  rotation), two faults (a statement, and the deletion that makes good for it).
- `sessions_safe`: two spellings of one address, two tokens, two clients, two faults.
- `hub_safe`: a channel of one place, so the subscriber blocks; two events, so the second
  waits while the first is being written; three connections for two clients, so one
  comes back.
- `startup_safe`: an API server and a worker, outages and stops at any point.

Beside the runs there are configurations for the sentences of section 4, and
`jobqueue_faults`, which passes.

## 4. Where code and documentation differ

The two violation runs:

- **`jobqueue_duplicate`**: README.md:23 promises no duplicate execution; the reaper
  takes the rows of living workers, going by `claimed_at` alone (job.go:306), not
  by heartbeats as README.md:341 says. Default job timeout and default visibility timeout are both
  five minutes, the request's `timeout_sec` has no limit, the time in the channel counts, and
  `visibility_timeout_sec` of the queue is not used.
- **`tenancy_rotate`**: "old key is immediately invalidated" (internal/handler/project/handler.go:152). `Update` and
  `RotateAPIKey` both read a project and write back all its columns (service/project/service.go:146,
  169): an update that has read before the rotation brings the old key back, and
  the new one, already handed out, is dead.

The other sentences, each with the configuration that puts it to the test
(TLC stops at the first violation: where a configuration has several properties, strike
out the others):

| Configuration | Property | Statement | What the code does |
|---|---|---|---|
| `jobqueue_terminal` | `TerminalFinal` | domain/job/job.go:62-67, terminal states | a late outcome of a reclaimed lease overwrites a terminal row |
| `jobqueue_claims` | `ConcurrencyRespected` | domain/queue/queue.go:20, max parallel running jobs | count and claim are two statements; two workers overshoot |
| `jobqueue_claims` | `PendingIsReady` | domain/job/job.go:18,20; docs/architecture.md:43 | a job that waits for its retry is `pending` with a future run_at |
| `jobqueue_manual` | `RetriesOnlyDead` | service/job/service.go:203 | the second of two manual retries resets a job that runs already |
| `pool_claims` | `AvailableAreIdle` | worker/pool.go:55 | the counter is raised after the receive |
| `lock_release` | `ReleasesOnlyOwn` | pkg/lock/lock.go:66-68, "Lua script for atomic check-and-delete" | GET, then DEL; an expiry in between deletes another's lock. With `DelInTime = TRUE` the property holds, also for a key that expired earlier |
| `cron_never` | `CreatedIsFired` | docs/api.md:54, "Creates a recurring cron job definition" | one that exists has next_fire_at NULL and is never due; with a date, its job has tags NULL, which the table refuses |
| `cron_duplicate` | `Deduplicated` | worker/cron.go:84, the lock deduplicates | the due list is read before the lock is taken: a second engine fires the same slot again |
| `enqueue_claims` | `AnswerIsStored` | service/job/service.go:96, same job returned | of two concurrent requests with one key the second is answered with a job that is not stored |
| `enqueue_claims` | `AnswerInQueue` | service/job/service.go:88, to the specified queue | the key is looked up over all queues |
| `enqueue_untagged` | `OptionalFieldsAccepted` | docs/api.md:33-46 | a request without tags inserts NULL into a NOT NULL column |
| `queue_claims` | `JitterIsAQuarter` | pkg/retry/backoff.go:66, README.md:202,335 | jitter is up to a half |
| `queue_claims` | `DoublesEachAttempt` | pkg/retry/backoff.go:7, README.md:202 | doubling overflows; a delay of the base only, or the cap |
| `tenancy_claims` | `PartialFailureCleanedUp` | service/org/service.go:104-105 | the deletion may fail as well, and its error is dropped |
| `tenancy_claims` | `ActsWithCurrentRole` | middleware/auth.go:55-57 | the role is read before the handler; it may change before the statement |
| `sessions_logout` | `LogoutRevokes` | handler/auth/handler.go:127, "Revoke the current refresh token" | a logout whose statement failed is answered with 204 and revokes nothing |
| `hub_ping` | `OneWriter` | one concurrent writer per connection, which the WebSocket library demands | the read loop answers a ping (ws.go:114) while the broadcast loop writes |
| `hub_stuck` | `LeaversGo`, without `PeersReturn` | handlers unregister when the client has gone | one peer that stops reading keeps the read lock: nobody joins or leaves |
| `startup_claims` | `RetryHelps` | platform/cache/cache.go:59 | `lastErr` is not cleared by success: after one failed ping `New` fails |
| `startup_claims` | `RunningIsRegistered` | cmd/worker/main.go:73 | the error is logged; the worker runs without a row |

No configuration is needed to see that two routes do nothing: `POST /batches` and
`POST /cron` (with `GET /cron`) are registered on `/projects/:projectId/queues` (cmd/api/main.go:173,
182, 185), while their handlers read a parameter `queueId`, which that path does not have
(handler/batch/batch.go:39-43, handler/cron/cron.go:37-40). `uuid.Parse("")` fails, and every request is
refused before the service is called. The path that docs/api.md:53 and README.md:318 give for
a new definition, with the queue in it, is served by nobody.

The same configurations check, and find no violation of, `InFlightBounded` (`pool_claims`: seven
jobs), `KeyHeld` (`tenancy_claims`: the key a project accepts has been shown to
somebody) and `StartedConnected` (`startup_claims`).

## 5. Fairness

Only what the code schedules for ever is assumed to go on, weakly unless said
otherwise:

- the loops run on tickers until the context is cancelled (`service.go:85-101`): `Dispatch`,
  `Reclaim`, `Promote`, `Evaluate`;
- goroutines are scheduled by the Go runtime, and handlers return: they get a
  context with a deadline (`executor.go:32`), and a handler that ignores it is
  outside the program. So `StartJob`, `Finish`, the actions of `WorkerPool`;
- processes are started again (`docker-compose.yml`, `restart: unless-stopped`): `Restart`;
  servers come back: `Recovery`;
- time passes: `BecomeDue`, `BecomeStale`, `Tick`, `Expire`, `ExpireAccess`; expiry of refresh tokens
  (days) is not needed;
- a request that has read goes on to its next statement: `RetryWrite`, `Proceed` of
  `Sessions`;
- the hub's goroutines run. The broadcast loop and `Register`, `Unregister` are assumed
  strongly fair: they are disabled again and again, by a peer that stops reading
  or by the read lock, but a waiting `Lock` of a RWMutex comes before later `RLock`s,
  and a write gets on whenever the peer reads. `PeersReturn`: a peer that has stopped
  reading reads on, or TCP gives it up. That is no promise of the code, and without it
  `LeaversGo` fails (`hub_stuck`).

No fairness is assumed of clients (`Enqueue`, `Cancel`, `Pause`, `DeleteQueue`, `Provide`, `Login`,
`Logout`, `Connect`), of signals (`Cancel` of the pool, `Shutdown`), or of faults, which are
finitely many in a behaviour. `Settles` needs its queue active for good from some time
on, and holds for jobs that crash their worker only because the faults are finitely
many: a reclaim does not count as an attempt, so a job that always kills its
worker never dies.

## 6. What is proved

TLAPS checks, for every value of the constants that satisfies the named
assumptions of the module (finite jobs and goroutines, natural limits, more tokens
than engines, NULL is no id), the following. *Safe leases* is `SafeLeases`: `~LiveReclaim`, and no two
different retriers.

| Module | Theorem | States |
|---|---|---|
| JobQueueProofs | `TypeCorrect` | `Spec => []TypeOK` |
| | `ClaimsExclusive` | `Spec => []ClaimExclusive`, safe leases or not |
| | `OvershootLimited` | `Spec => []OvershootBounded`, safe leases or not |
| | `LeasesMatchRows` | safe leases: `[]LeaseMatchesRow` |
| | `ExecutionExclusive` | safe leases: `[]NoDuplicateExecution` |
| | `DeadExhausted` | safe leases: `[]DeadOnlyWhenExhausted` |
| | `AttemptsKept`, `TerminalKept` | safe leases: `AttemptsNeverLost`, `TerminalFinal` |
| | `LifecycleImplemented` | safe leases: `Spec => ImplementsLifecycle`, the refinement |
| EnqueueProofs | `TypeCorrect` | `Spec => []TypeOK` |
| | `KeysUnique`, `AnsweredServed` | `[]OneJobPerKey`, `[]KeyServed` |
| QueueConfigProofs | `TypeCorrect` | `Spec => []TypeOK` |
| | `PausesHold`, `PolicyIsOne` | `[]PauseHolds`, `[]PolicyOfOneMoment` |
| | `DelaysWithinCap`, `DelaysNearNominal` | `[]WithinCap`, `[]NearNominal` |
| TenancyProofs | `TypeCorrect` | `Spec => []TypeOK` |
| | `ReplacedKeysDead` | `[]OldKeyDeadUnlessRaced` |
| | `RolesRespected` | `ActsWithRole`, of every step |
| | `OrganisationsOwned` | `[]OwnedUntilDisowned` |
| | `RefusedCreationsGone` | `[]FailedCreateLeavesNothing` |
| SessionsProofs | `TypeCorrect`, `OneAccount`, `LogoutHolds` | `[]TypeOK`, `[]OneAccountPerAddress`, `[]LoggedOutRevoked` |
| WsHubProofs | `TypeCorrect`, `WritesToRegistered` | `[]TypeOK`, `[]NoWriteAfterReturn` |
| | `NothingIsSkipped` | `[]NothingSkipped` |
| WorkerPoolProofs | `TypeCorrect` | `Spec => []TypeOK` |
| | `NeverSendsOnClosed` | `[]NoSendOnClosed` |
| | `OncePerJob`, `InFlight` | `[]EachJobOnce`, `[]InFlightBounded` |
| | `StopsEmpty` | `[]NothingLeftBehind` |
| CronEngineProofs | `TypeCorrect` | `Spec => []TypeOK` |
| | `LockMutualExclusion` | of `RedisLock`, if the time to live covers the holders: mutual exclusion |
| | `LockReleasesOnlyOwn` | of `RedisLock`, whatever the time to live covers, if no key expires between a GET and its DEL: no deletion of another's key |
| | `EnginesUseLock` | `Spec => UsesLock`, the refinement, for every lock name |
| | `EnginesFireAlone` | if the time to live covers a firing: `[]FiresAlone` |
| | `EnginesReleaseOwn` | if no key expires between a GET and its DEL: `ReleasesOwnLocks` |
| | `ServedOnce`, `MovesOn` | one engine: `[]OncePerSlot`, `MovesOnAfterJob` |

**`JobQueueProofs`.** Layers, each inductive relative to the ones below:

1. `TypeInv`: the types, and that the leases in execution are finitely many
   (`AvailableWorkers` takes a cardinality; without finiteness the budget of a claim is
   no number).
2. `ClaimInv`: a locked row is pending and unclaimed, and locked by one claim. This
   is what `FOR UPDATE` gives, and it holds because every single-row update has
   the guard `Unlocked` and the whole-table updates touch no pending row. A pending
   row with `claimedBy` would break it, so the layer also says that rows which
   are pending or scheduled have no owner (`WaitingUnclaimed`).
3. `LeaseInv`: `LeaseMatchesRow` with what makes it inductive. A commit creates leases
   for rows that were pending, so for jobs with no lease (else the row would be
   running); an outcome changes the row and removes the lease in one step, and
   no other lease is of that job, as all of them carry the row's claim number;
   the reaper takes only stale rows, which without `LiveReclaim` are of no lease; a
   manual retry writes rows that are still dead, as the only retrier has not
   written in between. That a job has one lease at most is a conjunct of its own:
   after the row was deleted with its queue nothing else tells two leases apart.
   `NoDuplicateExecution` is that conjunct, for the leases in execution.
4. `RequestInv`: a manual retry writes back the attempts the row still has. With it
   `LifeInv` is complete, and `NextImplements` shows, action by action, that each step is for
   each job a step of `JobLifecycle!Step` or none. `DeadOnlyWhenExhausted`, `AttemptsNeverLost` and
   `TerminalFinal` follow from the steps of the life cycle, not from those of the table.

Beside these layers stands `GrantInv`, the argument for `OvershootBounded`. What
counts against a queue's limit is what runs and what has been granted, the budgets of the
claims that have counted and not committed. A count sees what runs but not the
grants of the others; those are one batch each at most, so the sum stays within
the bound when a claim opens. A commit turns grants into running jobs, and the `LIMIT` of
the SELECT keeps it within its own. No other step starts a job.

**`TenancyProofs`.** `TypeInv` adds to the types that a request which has come to a
statement carries what the statement needs (`WellFormed`). On top of it, four
independent arguments. Keys (`KeyInv`): keys are numbered, so a new one was never
replaced; an old one can come back only from a copy that an update has read,
and a rotation that finds such a copy marks the project as raced. Roles
(`RoleInv`): an admitted request keeps its role until a step changes it, and that
step marks the client as outdated; an organisation that is gone has no members.
Owners: `OwnedUntilDisowned` is inductive as it is. Cleanup (`CleanInv`): a
creation turns to its deletion only after a fault or when there is nothing left
to delete, and no other request creates the same row.

**`QueueConfigProofs`.** `PauseInv`: what was said stands only while nobody is about
to write the flag, so whoever writes it finds nothing said. `PolicyInv`: between the read
of the queue and the insertion of the job, the policy read is one of those in force.
The delays: `DelayInv` says that the delay of a job is one of `NextDelay` of its own policy and
number of attempts, so the rest is about operators. `DelayWithin`: whatever integer
`RawDelays` gives, wrapped or not, `CappedDelay` puts it within the cap. `DelayNear`: while the
base times 2^n fits nothing wraps, and jitter takes off or adds a half at most. The
prover knows nothing of 2^n; `PowerDoubles` finds 2^(n+1) = 2 * 2^n by counting the subsets
of 1..n and of 1..n+1. What needs an induction over the number of attempts
(`PowerInv`: n < 2^n, from 30 on 2^n is no duration, and the recursion of the
nominal delay has one solution, the capped powers) is an invariant, which the attempts
of the job carry from n to n + 1. The assumption `MaxInt < 2^30` is true of 64 bits of
nanoseconds counted in minutes; it makes the bound of 30 doublings in `Doubled` no
restriction.

**`SessionsProofs`, `WsHubProofs`.** The token of a logout under way was given out,
so a revocation hits a row. `MapInv`: what the broadcast loop has still to write to is
registered while it holds the read lock, and what is registered has a handler that
has not returned. `DeliveryInv`, on top of it: what a client has agrees, event by event,
with what was broadcast since it joined, and it is short of the event under way
exactly while the loop has still to write it; a client joins only when there is none
under way. `PrefixOfTail` turns this into the statement about sequences.

**`WorkerPoolProofs`.** `CloseInv`: the channel is closed only after the dispatcher
has returned, and it returns with empty hands. `TypeInv` adds to the types that the
counter is the number of goroutines between a receive and its end; `PlaceInv`, that
every job is in one place: in the database, the dispatcher's hands, the channel, with one
goroutine, or done, and that hands and channel repeat nothing. So the jobs waiting
are as many as the two sequences are long, which is `EachJobOnce`, and with the
channel's capacity `InFlightBounded`. `ExitInv`: a goroutine leaves only a channel
that is closed and drained, and nothing is added to a closed one; when all have left,
`PlaceInv` has no place for a job but the database and done.

**`EnqueueProofs`**: an insert with a key happens only if no row has it; a request is
answered with its own job only after that insert or a conflict with the row of
another.

**`CronEngineProofs`.** `TypeInv` adds to the types that an engine has a definition in
hand, and a token, exactly while it fires, and that what it has listed has a date.
A new token exists because there are more tokens than engines (`FreshToken`); of
uuids there are. First the lock by itself, for any name: whoever is inside holds the
token in Redis, while expiry spares holders, and tokens of others differ (`HolderInv`).
That a release deletes its own key only does not need as much: `OwnerInv` says that a
client about to DEL has found its own token, and that no two clients have one
token. A key that expires during the function, and the client that takes the lock then,
break `HolderInv` and leave `OwnerInv` alone; the late release finds another's token at its
GET and turns back (`OwnerMoves`). Only an expiry after the GET would break it.
Then `LockSteps`: with the mapping at `Lock(k)`, each step of the system is for each name k
a step of `RedisLock` or leaves its variables alone. The two together give `FiresAlone`:
the invariant of the lock is carried along the steps it is refined to, no new
argument about engines is needed; so do they `ReleasesOwnLocks`. `FiresAlone` is what the lock is for, and all it gives:
one engine after the other may still fire the same date (`cron_duplicate`).
`OneEngineInv` is the argument for one engine. Its date does not change between the
listing of a definition and its firing (`DateInv`; `next_fire_at` is written by firings only,
and a definition is visited once for each listing). No job has been counted for a
date beyond the present one, and for the present one no more than there were failures,
unless the definition has just been spawned or can not be listed again (`CountInv`): a
job more is inserted only after a crash or a failed update came between the two writes.
`MovesOn` takes from it that the definition an engine has just spawned has a job for its
date; and `NoneBetween`, that the first multiple of the period after t leaves out
no other multiple that is greater than t. TLC has checked `OneEngineInv` on the instance of
`cron_safe` with `FirstFire = {0, 1, None}` (333 k states), and `FiresAlone` there with
`TtlCovers = TRUE` (187 k).

Only model-checked: liveness (`Settles`, `ClaimedExecuted`, `StopsWhenTold`, `DueIsTried`,
`SessionEnds`, `DeactivationEnds`, `EveryEventSent`, `LeaversGo`, `EveryoneRuns`), which rests on
fairness and `ENABLED` and is out of this prover's reach.
Every safety property that a passing run checks is stated by a theorem. What a recursive
definition computes for every argument can be proved here only along the steps of
a specification, as in `DelaysNearNominal`: the induction theorems take an operator
as a parameter, which no installed prover can instantiate.

## 7. What is not modelled

- the order of run_at within one priority, beyond due or not; clock differences
  between processes (times are compared by PostgreSQL, except run_at of a retry
  and the engine's minute, which workers compute);
- payloads, tags, metadata, results, error texts, progress of handlers;
- names and slugs of organisations and projects and the update of an organisation, which
  writes its name and description alone; project roles other than admin, which no
  route grants; passwords and the signature of tokens;
- batches: the service is out of reach (section 4), so the table stays empty; nor is
  the cron service's `Create` ever called;
- whether the queue named in a path belongs to the project named there: the code does not
  compare them, and no model has both;
- what nothing calls: `UpdateStatus`, `MarkFailed`, `Extend`, `IncrementCounters`, `ShouldRetry`, `Publish`
  (events of the hub are what some other program publishes), `CronRepo.Update`,
  `UserRepo.Update`, `DeleteExpired`, `LogoutAll`, and the AI service;
- heartbeats: written, never read; metrics and execution logs: reads of tables;
- parsing of headers, validation of requests (what it refuses is no input of the
  models), rate limits;
- configuration, logging, error wrapping, dashboard, proxy, seed script.
