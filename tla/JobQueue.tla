------------------------------ MODULE JobQueue ------------------------------
(***************************************************************************)
(* The PostgreSQL table "jobs" as a work queue, and everything that writes *)
(* it: the dispatchers, executors, reapers and schedulers of the worker    *)
(* processes, and the job and queue operations of the API server.          *)
(*                                                                         *)
(* A worker's claim is a transaction of several steps (count, select with  *)
(* row locks, update and commit).  Every other write is one UPDATE of one  *)
(* statement, so one action; an UPDATE of a row locked by an open claim    *)
(* waits until the claim ends.  The in-memory side of a worker is the set  *)
(* of leases it holds: one lease per claimed job, "held" while the job is  *)
(* in the dispatcher's hands or in the pool's channel, "running" while a   *)
(* goroutine executes it.                                                  *)
(***************************************************************************)
EXTENDS Integers, FiniteSets

CONSTANTS
    Jobs,          \* ids of the jobs the API may create
    Queues,        \* ids of the queues
    Workers,       \* worker processes
    Retriers,      \* API requests that retry a job manually, one at a time each
    QueueOf,       \* the queue of each job (queue_id)
    Priority,      \* the priority of each job
    QueuePriority, \* the priority of each queue
    Concurrency,   \* the concurrency limit of each queue
    Known,         \* the jobs whose type has a handler in the registry
    MaxRetries,    \* max_retries of the jobs
    BatchSize,     \* cfg.Worker.MaxBatchSize
    PoolSize,      \* cfg.Worker.Concurrency: goroutines and channel capacity
    LiveReclaim,   \* may a lease outlive the visibility timeout while its
                   \* worker still works on it?  Nothing in the code relates
                   \* timeout_sec and the time in the channel to that timeout
    MaxFaults,     \* bound: crashes, shutdowns and failed calls of a behaviour
    MaxAttempts,   \* bound: attempt_count beyond which no manual retry is made
    None           \* SQL NULL

ASSUME ConstantsAssumption ==
    /\ IsFiniteSet(Jobs) /\ IsFiniteSet(Workers)
    /\ QueueOf \in [Jobs -> Queues]
    /\ Priority \in [Jobs -> Int]
    /\ QueuePriority \in [Queues -> Int]
    /\ Concurrency \in [Queues -> Nat]
    /\ MaxRetries \in Nat
    /\ BatchSize \in Nat
    /\ PoolSize \in Nat
    /\ LiveReclaim \in BOOLEAN
    /\ MaxFaults \in Nat
    /\ MaxAttempts \in Nat
    /\ None \notin Workers \cup Queues

VARIABLES
    \* the table jobs
    status, attempts, claimedBy,
    due,       \* run_at <= NOW()
    stale,     \* claimed_at is older than the reaper's visibility timeout
    leases,    \* how many times the job has been claimed
    \* the table queues
    queue,
    \* the worker processes
    up,        \* running, shutting down, or not there
    pc, todo,  \* the dispatcher's loop, and the queues it has still to visit
    cur, budget, rows,  \* its open claim: queue, LIMIT, and the rows it locked
    held, running,      \* its leases
    \* API requests between their read and their write
    retries,
    faults     \* faults so far

jobRow == <<status, attempts, claimedBy, due, stale>>
claim  == <<pc, todo, cur, budget, rows>>
work   == <<held, running>>
vars   == <<jobRow, leases, queue, up, claim, work, retries, faults>>

\* "failed" is never written: MarkFailed has no caller.
Statuses == {"pending", "scheduled", "running", "succeeded", "dead", "cancelled"}
Terminal == {"succeeded", "dead", "cancelled"}
Lease == [job : Jobs, worker : Workers, lease : Nat, attempt : Nat]
Request == [client : Retriers, job : Jobs, attempt : Nat]

TypeOK ==
    /\ status \in [Jobs -> Statuses \cup {"absent", "deleted"}]
    /\ attempts \in [Jobs -> Nat]
    /\ claimedBy \in [Jobs -> Workers \cup {None}]
    /\ due \in [Jobs -> BOOLEAN]
    /\ stale \in [Jobs -> BOOLEAN]
    /\ leases \in [Jobs -> Nat]
    /\ queue \in [Queues -> {"active", "paused", "deleted"}]
    /\ up \in [Workers -> {"up", "draining", "down"}]
    /\ pc \in [Workers -> {"idle", "looping", "counted", "locked"}]
    /\ todo \in [Workers -> SUBSET Queues]
    /\ cur \in [Workers -> Queues \cup {None}]
    /\ budget \in [Workers -> Nat]
    /\ rows \in [Workers -> SUBSET Jobs]
    /\ held \subseteq Lease
    /\ running \subseteq Lease
    /\ retries \subseteq Request
    /\ faults \in Nat

Init ==
    /\ status = [j \in Jobs |-> "absent"]
    /\ attempts = [j \in Jobs |-> 0]
    /\ claimedBy = [j \in Jobs |-> None]
    /\ due = [j \in Jobs |-> FALSE]
    /\ stale = [j \in Jobs |-> FALSE]
    /\ leases = [j \in Jobs |-> 0]
    /\ queue = [q \in Queues |-> "active"]
    /\ up = [w \in Workers |-> "up"]
    /\ pc = [w \in Workers |-> "idle"]
    /\ todo = [w \in Workers |-> {}]
    /\ cur = [w \in Workers |-> None]
    /\ budget = [w \in Workers |-> 0]
    /\ rows = [w \in Workers |-> {}]
    /\ held = {}
    /\ running = {}
    /\ retries = {}
    /\ faults = 0

Fault == faults < MaxFaults /\ faults' = faults + 1

(***************************************************************************)
(* Rows and their locks.                                                   *)
(***************************************************************************)
Live == held \cup running
LeasesOf(w, S) == {l \in S : l.worker = w}
Exists(j) == status[j] \in Statuses
Unlocked(j) == \A w \in Workers : j \notin rows[w]
RunningIn(q) == {j \in Jobs : QueueOf[j] = q /\ status[j] = "running"}

\* An UPDATE whose WHERE clause names only the id: no effect on a deleted row.
Set(f, j, v) == [f EXCEPT ![j] = IF Exists(j) THEN v ELSE @]

MarkSucceeded(j) ==
    /\ status' = Set(status, j, "succeeded")
    /\ UNCHANGED <<attempts, claimedBy, due, stale>>

MarkFailedInstead(j) ==      \* mutant: the unused MarkFailed in place of MarkDead
    /\ status' = Set(status, j, "failed")
    /\ attempts' = Set(attempts, j, attempts[j] + 1)
    /\ UNCHANGED <<claimedBy, due, stale>>

MarkDead(j) ==
    /\ status' = Set(status, j, "dead")
    /\ attempts' = Set(attempts, j, attempts[j] + 1)
    /\ UNCHANGED <<claimedBy, due, stale>>

\* isDue: whether the given run_at has come already.
ScheduleRetry(j, n, isDue) ==
    /\ status' = Set(status, j, "pending")
    /\ attempts' = Set(attempts, j, n)
    /\ claimedBy' = Set(claimedBy, j, None)
    /\ due' = Set(due, j, isDue)
    /\ stale' = Set(stale, j, FALSE)

(***************************************************************************)
(* The dispatcher of worker w: dispatchAll visits the active queues in     *)
(* priority order, dispatchQueue claims a batch from each.                 *)
(***************************************************************************)
AvailableWorkers(w) == PoolSize - Cardinality(LeasesOf(w, running))

\* Submit blocks the dispatcher until the pool's channel has taken every job.
Submitted(w) == Cardinality(LeasesOf(w, held)) <= PoolSize

ListQueues(w) ==
    LET active == {q \in Queues : queue[q] = "active"} IN
    /\ up[w] = "up" /\ pc[w] = "idle" /\ active # {}
    /\ pc' = [pc EXCEPT ![w] = "looping"]
    /\ todo' = [todo EXCEPT ![w] = active]
    /\ UNCHANGED <<jobRow, leases, queue, up, cur, budget, rows, work, retries, faults>>

\* The pass ends after the last queue, when the pool is full, or, every claim
\* failing on the cancelled context, in a shutdown.
EndPass(w) ==
    /\ pc[w] = "looping" /\ Submitted(w)
    /\ todo[w] = {} \/ AvailableWorkers(w) <= 0 \/ up[w] = "draining"
    /\ pc' = [pc EXCEPT ![w] = "idle"]
    /\ todo' = [todo EXCEPT ![w] = {}]
    /\ UNCHANGED <<jobRow, leases, queue, up, cur, budget, rows, work, retries, faults>>

NextQueue(w, q) ==
    q \in todo[w] /\ \A r \in todo[w] : QueuePriority[q] <= QueuePriority[r]

Smaller(a, b) == IF a <= b THEN a ELSE b

BudgetNotCounting(w, q) ==   \* mutant: the running jobs are not subtracted
    Smaller(Concurrency[q], Smaller(BatchSize, AvailableWorkers(w)))

\* How many jobs the worker may claim from q, by the count it has just made.
Budget(w, q) ==
    Smaller(Concurrency[q] - Cardinality(RunningIn(q)),
            Smaller(BatchSize, AvailableWorkers(w)))

CountRunning(w, q) ==
    /\ up[w] = "up" /\ pc[w] = "looping" /\ Submitted(w)
    /\ NextQueue(w, q)
    /\ AvailableWorkers(w) > 0
    /\ todo' = [todo EXCEPT ![w] = @ \ {q}]
    /\ IF Budget(w, q) <= 0
       THEN UNCHANGED <<pc, cur, budget>>
       ELSE /\ pc' = [pc EXCEPT ![w] = "counted"]
            /\ cur' = [cur EXCEPT ![w] = q]
            /\ budget' = [budget EXCEPT ![w] = Budget(w, q)]
    /\ UNCHANGED <<jobRow, leases, queue, up, rows, work, retries, faults>>

ClaimableUnlocked(j, q) ==   \* mutant: the SELECT takes no notice of row locks
    QueueOf[j] = q /\ status[j] = "pending" /\ due[j]

Claimable(j, q) ==
    QueueOf[j] = q /\ status[j] = "pending" /\ due[j] /\ Unlocked(j)

\* ORDER BY priority DESC, run_at ASC LIMIT budget.  Any order among the jobs
\* of one priority: run_at is not modelled beyond due.
Selects(w, S) ==
    LET free == {j \in Jobs : Claimable(j, cur[w])} IN
    /\ S \subseteq free
    /\ Cardinality(S) = Smaller(budget[w], Cardinality(free))
    /\ \A j \in S, k \in free \ S : Priority[j] >= Priority[k]

EndClaim(w) ==
    /\ pc' = [pc EXCEPT ![w] = "looping"]
    /\ cur' = [cur EXCEPT ![w] = None]
    /\ budget' = [budget EXCEPT ![w] = 0]
    /\ rows' = [rows EXCEPT ![w] = {}]

SelectRows(w) ==
    /\ up[w] = "up" /\ pc[w] = "counted"
    /\ \E S \in SUBSET Jobs :
         /\ Selects(w, S)
         /\ IF S = {}
            THEN EndClaim(w)
            ELSE /\ pc' = [pc EXCEPT ![w] = "locked"]
                 /\ rows' = [rows EXCEPT ![w] = S]
                 /\ UNCHANGED <<cur, budget>>
    /\ UNCHANGED <<jobRow, leases, queue, up, todo, work, retries, faults>>

\* UPDATE of the locked rows.
MarkRunning(w) ==
    /\ status' = [j \in Jobs |-> IF j \in rows[w] THEN "running" ELSE status[j]]
    /\ claimedBy' = [j \in Jobs |-> IF j \in rows[w] THEN w ELSE claimedBy[j]]
    /\ stale' = [j \in Jobs |-> IF j \in rows[w] THEN FALSE ELSE stale[j]]
    /\ leases' = [j \in Jobs |-> IF j \in rows[w] THEN leases[j] + 1 ELSE leases[j]]
    /\ UNCHANGED <<attempts, due>>

NewLease(w, j) ==
    [job |-> j, worker |-> w, lease |-> leases[j] + 1, attempt |-> attempts[j]]

\* UPDATE and COMMIT.  Both may be under way when a shutdown begins.
CommitClaim(w) ==
    /\ pc[w] = "locked"
    /\ MarkRunning(w)
    /\ held' = held \cup {NewLease(w, j) : j \in rows[w]}
    /\ EndClaim(w)
    /\ UNCHANGED <<queue, up, todo, running, retries, faults>>

\* COMMIT took effect but its answer was lost (the connection broke, or the
\* context was cancelled meanwhile): ClaimBatch returns an error, no job.
CommitUnacknowledged(w) ==
    /\ pc[w] = "locked" /\ Fault
    /\ MarkRunning(w)
    /\ EndClaim(w)
    /\ UNCHANGED <<queue, up, todo, work, retries>>

\* A statement of the transaction failed: it is rolled back, the rows unlocked.
AbortClaim(w) ==
    /\ pc[w] \in {"counted", "locked"} /\ Fault
    /\ EndClaim(w)
    /\ UNCHANGED <<jobRow, leases, queue, up, todo, work, retries>>

\* In a shutdown the context of the claim is cancelled: its next statement fails.
CancelClaim(w) ==
    /\ up[w] = "draining" /\ pc[w] \in {"counted", "locked"}
    /\ EndClaim(w)
    /\ UNCHANGED <<jobRow, leases, queue, up, todo, work, retries, faults>>

(***************************************************************************)
(* The pool and the executor of worker w.                                  *)
(***************************************************************************)
\* An idle goroutine receives a job from the channel.
StartJob(w) ==
    /\ AvailableWorkers(w) > 0
    /\ \E l \in LeasesOf(w, held) :
         /\ held' = held \ {l}
         /\ running' = running \cup {l}
    /\ UNCHANGED <<jobRow, leases, queue, up, claim, retries, faults>>

Finished(l) ==
    /\ running' = running \ {l}
    /\ UNCHANGED <<leases, queue, up, claim, held, retries>>

Succeed(l) ==
    /\ l.job \in Known /\ Unlocked(l.job)
    /\ MarkSucceeded(l.job)
    /\ Finished(l) /\ UNCHANGED faults

ExhaustedEarly(l) == l.attempt + 2 >= MaxRetries   \* mutant: off by one

Exhausted(l) == l.attempt + 1 >= MaxRetries

\* The handler failed or timed out with attempts left.
Fail(l) ==
    /\ l.job \in Known /\ Unlocked(l.job) /\ ~Exhausted(l)
    /\ ScheduleRetry(l.job, l.attempt + 1, FALSE)
    /\ Finished(l) /\ UNCHANGED faults

\* The handler failed for the last time, or there is no handler.
Die(l) ==
    /\ Unlocked(l.job)
    /\ l.job \in Known => Exhausted(l)
    /\ MarkDead(l.job)
    /\ Finished(l) /\ UNCHANGED faults

\* The UPDATE of the outcome failed; the error is logged and the job forgotten.
LoseOutcome(l) ==
    /\ Fault /\ Finished(l)
    /\ UNCHANGED jobRow

Finish(w, j) ==
    \E l \in LeasesOf(w, running) : l.job = j /\ (Succeed(l) \/ Fail(l) \/ Die(l))

(***************************************************************************)
(* A worker process dies (with its claim rolled back), is restarted, or is *)
(* told to stop: it claims no more and ends when the pool is drained.      *)
(***************************************************************************)
Crash(w) ==
    /\ up[w] # "down" /\ Fault
    /\ up' = [up EXCEPT ![w] = "down"]
    /\ pc' = [pc EXCEPT ![w] = "idle"]
    /\ todo' = [todo EXCEPT ![w] = {}]
    /\ cur' = [cur EXCEPT ![w] = None]
    /\ budget' = [budget EXCEPT ![w] = 0]
    /\ rows' = [rows EXCEPT ![w] = {}]
    /\ held' = held \ LeasesOf(w, held)
    /\ running' = running \ LeasesOf(w, running)
    /\ UNCHANGED <<jobRow, leases, queue, retries>>

Restart(w) ==
    /\ up[w] = "down"
    /\ up' = [up EXCEPT ![w] = "up"]
    /\ UNCHANGED <<jobRow, leases, queue, claim, work, retries, faults>>

Shutdown(w) ==
    /\ up[w] = "up" /\ Fault
    /\ up' = [up EXCEPT ![w] = "draining"]
    /\ UNCHANGED <<jobRow, leases, queue, claim, work, retries>>

Stopped(w) ==
    /\ up[w] = "draining" /\ pc[w] = "idle" /\ LeasesOf(w, Live) = {}
    /\ up' = [up EXCEPT ![w] = "down"]
    /\ UNCHANGED <<jobRow, leases, queue, claim, work, retries, faults>>

(***************************************************************************)
(* The loops of every worker over the whole table: reaper and scheduler.   *)
(***************************************************************************)
ReclaimableIfDown(j) ==      \* mutant: only the jobs of workers that are gone
    status[j] = "running" /\ stale[j] /\ up[claimedBy[j]] = "down"

ReclaimableFresh(j) ==       \* mutant: claimed_at is not compared
    status[j] = "running"

Reclaimable(j) == status[j] = "running" /\ stale[j]

Reclaim ==
    /\ \E w \in Workers : up[w] = "up"
    /\ \E j \in Jobs : Reclaimable(j)
    /\ status' = [j \in Jobs |-> IF Reclaimable(j) THEN "pending" ELSE status[j]]
    /\ claimedBy' = [j \in Jobs |-> IF Reclaimable(j) THEN None ELSE claimedBy[j]]
    /\ stale' = [j \in Jobs |-> IF Reclaimable(j) THEN FALSE ELSE stale[j]]
    /\ UNCHANGED <<attempts, due, leases, queue, up, claim, work, retries, faults>>

Promotable(j) == status[j] = "scheduled" /\ due[j]

Promote ==
    /\ \E w \in Workers : up[w] = "up"
    /\ \E j \in Jobs : Promotable(j)
    /\ status' = [j \in Jobs |-> IF Promotable(j) THEN "pending" ELSE status[j]]
    /\ UNCHANGED <<attempts, claimedBy, due, stale, leases, queue, up, claim, work,
                   retries, faults>>

(***************************************************************************)
(* The API server.  Enqueue reads the queue before it inserts the row, so  *)
(* a pause in between does not stop the insert; a deletion does (the       *)
(* foreign key).                                                           *)
(***************************************************************************)
Enqueue(j, future) ==
    /\ status[j] = "absent" /\ queue[QueueOf[j]] # "deleted"
    /\ status' = [status EXCEPT ![j] = IF future THEN "scheduled" ELSE "pending"]
    /\ due' = [due EXCEPT ![j] = ~future]
    /\ UNCHANGED <<attempts, claimedBy, stale, leases, queue, up, claim, work, retries,
                   faults>>

CancellableRunning(j) ==     \* mutant: running jobs can be cancelled too
    status[j] \in {"pending", "scheduled", "running"}

Cancellable(j) == status[j] \in {"pending", "scheduled"}

Cancel(j) ==
    /\ Unlocked(j) /\ Cancellable(j)
    /\ status' = [status EXCEPT ![j] = "cancelled"]
    /\ UNCHANGED <<attempts, claimedBy, due, stale, leases, queue, up, claim, work,
                   retries, faults>>

\* Manual retry: the status is read and checked first ...
RetryRead(c, j) ==
    /\ status[j] \in {"failed", "dead"}
    /\ attempts[j] < MaxAttempts
    /\ \A r \in retries : r.client # c
    /\ retries' = retries \cup {[client |-> c, job |-> j, attempt |-> attempts[j]]}
    /\ UNCHANGED <<jobRow, leases, queue, up, claim, work, faults>>

RetryCountReset(r) == 0      \* mutant: a manual retry starts counting afresh

RetryCount(r) == r.attempt

\* ... and the row written afterwards, whatever its status is by then.
RetryWrite(r) ==
    /\ Unlocked(r.job)
    /\ ScheduleRetry(r.job, RetryCount(r), TRUE)
    /\ retries' = retries \ {r}
    /\ UNCHANGED <<leases, queue, up, claim, work, faults>>

Pause(q) ==
    /\ queue[q] = "active"
    /\ queue' = [queue EXCEPT ![q] = "paused"]
    /\ UNCHANGED <<jobRow, leases, up, claim, work, retries, faults>>

Resume(q) ==
    /\ queue[q] = "paused"
    /\ queue' = [queue EXCEPT ![q] = "active"]
    /\ UNCHANGED <<jobRow, leases, up, claim, work, retries, faults>>

\* The deletion cascades to the jobs, whatever their status.
DeleteQueue(q) ==
    LET gone == {j \in Jobs : QueueOf[j] = q /\ Exists(j)} IN
    /\ queue[q] # "deleted"
    /\ \A j \in gone : Unlocked(j)
    /\ queue' = [queue EXCEPT ![q] = "deleted"]
    /\ status' = [j \in Jobs |-> IF j \in gone THEN "deleted" ELSE status[j]]
    /\ UNCHANGED <<attempts, claimedBy, due, stale, leases, up, claim, work, retries,
                   faults>>

(***************************************************************************)
(* Time passes: a run_at comes, a claim grows older than the visibility    *)
(* timeout.                                                                *)
(***************************************************************************)
BecomeDue(j) ==
    /\ status[j] \in {"pending", "scheduled"} /\ ~due[j]
    /\ due' = [due EXCEPT ![j] = TRUE]
    /\ UNCHANGED <<status, attempts, claimedBy, stale, leases, queue, up, claim, work,
                   retries, faults>>

InProgress(j) == \E l \in Live : l.job = j

GrowStale(j) ==
    /\ status[j] = "running" /\ ~stale[j]
    /\ stale' = [stale EXCEPT ![j] = TRUE]
    /\ UNCHANGED <<status, attempts, claimedBy, due, leases, queue, up, claim, work,
                   retries>>

BecomeStale(j) == ~InProgress(j) /\ GrowStale(j) /\ UNCHANGED faults

OutliveTimeout(j) == LiveReclaim /\ InProgress(j) /\ GrowStale(j) /\ Fault

(***************************************************************************)
Dispatch(w) ==
    \/ ListQueues(w)
    \/ EndPass(w)
    \/ \E q \in Queues : CountRunning(w, q)
    \/ SelectRows(w)
    \/ CommitClaim(w)
    \/ CancelClaim(w)

WorkerFault(w) ==
    \/ CommitUnacknowledged(w)
    \/ AbortClaim(w)
    \/ \E l \in LeasesOf(w, running) : LoseOutcome(l)
    \/ Crash(w)
    \/ Shutdown(w)

Worker(w) ==
    \/ Dispatch(w)
    \/ StartJob(w)
    \/ \E j \in Jobs : Finish(w, j)
    \/ Restart(w)
    \/ Stopped(w)
    \/ WorkerFault(w)

JobRequest ==
    \/ \E j \in Jobs, future \in BOOLEAN : Enqueue(j, future)
    \/ \E j \in Jobs : Cancel(j)
    \/ \E c \in Retriers, j \in Jobs : RetryRead(c, j)
    \/ \E r \in retries : RetryWrite(r)

QueueRequest ==
    \E q \in Queues : Pause(q) \/ Resume(q) \/ DeleteQueue(q)

Time == \E j \in Jobs : BecomeDue(j) \/ BecomeStale(j) \/ OutliveTimeout(j)

Next ==
    \/ \E w \in Workers : Worker(w)
    \/ Reclaim
    \/ Promote
    \/ JobRequest
    \/ QueueRequest
    \/ Time

Spec == Init /\ [][Next]_vars

\* The tickers of every loop keep ticking, handlers return (their context has a
\* deadline), a stopped process is started again, a request that has read goes
\* on to write, and time passes.
Fairness ==
    /\ \A w \in Workers :
         /\ WF_vars(Dispatch(w)) /\ WF_vars(StartJob(w))
         /\ \A j \in Jobs : WF_vars(Finish(w, j))
         /\ WF_vars(Stopped(w)) /\ WF_vars(Restart(w))
    /\ WF_vars(Reclaim) /\ WF_vars(Promote)
    /\ WF_vars(\E r \in retries : RetryWrite(r))
    /\ \A j \in Jobs : WF_vars(BecomeDue(j)) /\ WF_vars(BecomeStale(j))

FairSpec == Spec /\ Fairness

(***************************************************************************)
(* Properties.  The first two hold whatever the constants; those under     *)
(* "safe leases" need ~LiveReclaim and at most one manual retry at a time, *)
(* and jobqueue_duplicate shows what happens without.                      *)
(***************************************************************************)
\* A row locked by a claim stays pending and unclaimed until that claim ends,
\* and no other claim holds it (ClaimBatch: FOR UPDATE SKIP LOCKED).
ClaimExclusive ==
    \A w \in Workers : \A j \in rows[w] :
        /\ status[j] = "pending" /\ claimedBy[j] = None
        /\ \A v \in Workers \ {w} : j \notin rows[v]

\* The count and the claim are two statements: n workers may overshoot the
\* queue's limit, but by no more than one batch for each of the others.
OvershootBounded ==
    \A q \in Queues :
        Cardinality(RunningIn(q)) <=
            Concurrency[q] + (Cardinality(Workers) - 1) * Smaller(Concurrency[q], BatchSize)

\* Safe leases.  The count of attempts is never lost: a retry does not write an
\* older one.
AttemptsNeverLost ==
    [][\A j \in Jobs : status'[j] # "deleted" => attempts'[j] >= attempts[j]]_vars

\* Safe leases.  A job in progress is running in the table, under the name of
\* the worker that works on it, with the attempt it has read, and by its last
\* claim; no retry request is about to overwrite it.  A deleted row excepted.
LeaseMatchesRow ==
    /\ \A l \in Live : status[l.job] # "deleted" =>
         /\ status[l.job] = "running"
         /\ claimedBy[l.job] = l.worker
         /\ attempts[l.job] = l.attempt
         /\ leases[l.job] = l.lease
    /\ \A r \in retries : status[r.job] \in {"dead", "deleted"}

\* Safe leases.  No job is executed twice at the same time, be it by two
\* workers or by two goroutines of one.
NoDuplicateExecution ==
    \A k, l \in running : k.job = l.job => k = l

\* Safe leases.  A job goes to the dead letter state only after its attempts
\* are used up, or because no handler knows its type.
DeadOnlyWhenExhausted ==
    \A j \in Jobs : status[j] = "dead" => j \notin Known \/ attempts[j] >= MaxRetries

\* Safe leases.  Terminal states are final (Job.IsTerminal); only a manual
\* retry takes a job out of dead.
TerminalFinal ==
    [][\A j \in Jobs : status[j] \in Terminal =>
         \/ status'[j] \in {status[j], "deleted"}
         \/ status[j] = "dead" /\ \E r \in retries \ retries' : r.job = j]_vars

\* Every job of a queue that is active for good comes to an end, faults being
\* finitely many: a job whose worker is gone, whose commit or outcome was lost,
\* or whose run_at is in the future included.
Settles ==
    \A j \in Jobs :
        <>[](queue[QueueOf[j]] = "active") =>
            [](status[j] # "absent" => <>(status[j] \in Terminal))

\* Safe leases.  The whole table and all its workers implement the life cycle
\* of a job: one execution at a time, each outcome written by its own execution.
RowState(j) == [status |-> status[j], attempts |-> attempts[j], busy |-> InProgress(j)]
Lifecycle == INSTANCE JobLifecycle WITH job <- [j \in Jobs |-> RowState(j)]

ImplementsLifecycle == Lifecycle!Spec

(***************************************************************************)
(* What the documentation says and the code does not keep.                 *)
(***************************************************************************)
\* "max parallel running jobs" (Queue.Concurrency).
ConcurrencyRespected ==
    \A q \in Queues : Cardinality(RunningIn(q)) <= Concurrency[q]

\* StatusPending is "ready to be claimed by a worker"; a job that waits for a
\* future run_at is scheduled.
PendingIsReady ==
    \A j \in Jobs : status[j] = "pending" => due[j]

\* "only failed or dead jobs can be manually retried".
RetriesOnlyDead ==
    [][\A r \in retries \ retries' : status[r.job] \in {"failed", "dead", "deleted"}]_vars
=============================================================================
