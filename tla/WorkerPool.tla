----------------------------- MODULE WorkerPool -----------------------------
(***************************************************************************)
(* The inside of one worker process: the dispatcher that claims jobs and   *)
(* submits them, the pool's buffered channel and goroutines, the counter   *)
(* of active goroutines, the other background loops, and the shutdown of   *)
(* the process (Service.Start, Pool.Stop).                                 *)
(*                                                                         *)
(* The database is the set of jobs that are still to be claimed; what the  *)
(* claims of several workers do to each other is in JobQueue.              *)
(***************************************************************************)
EXTENDS Integers, Sequences, SequencesExt, FiniteSets

CONSTANTS
    Jobs,        \* the jobs there are to claim
    Goroutines,  \* the goroutines of the pool: cfg.Worker.Concurrency many
    Loops,       \* the loops beside the dispatcher: reaper, scheduler, cron, heartbeat
    BatchSize,   \* cfg.Worker.MaxBatchSize
    Passes       \* bound: the queues one pass of dispatchAll visits

ASSUME PoolAssumption ==
    /\ IsFiniteSet(Jobs) /\ IsFiniteSet(Goroutines) /\ Goroutines # {}
    /\ BatchSize \in Nat \ {0} /\ Passes \in Nat \ {0}

VARIABLES
    backlog,    \* jobs pending in the database
    ctx,        \* the context of the process
    loop,       \* the other background loops
    main,       \* Service.Start after the context is cancelled
    disp,       \* the dispatcher: where it is
    queuesLeft, \* queues left in this pass
    claimSize,  \* what it has read from AvailableWorkers, cut to the batch size
    hand,       \* jobs claimed and not yet submitted
    jobsChan,   \* the buffered channel
    closed,     \* the channel is closed
    active,     \* the atomic counter
    gor,        \* each goroutine: where it is, and its job
    executed    \* jobs whose execution has ended

dispatcher == <<disp, queuesLeft, claimSize, hand>>
pool == <<jobsChan, closed, active, gor, executed>>
vars == <<backlog, ctx, loop, main, dispatcher, pool>>

concurrency == Cardinality(Goroutines)
Receiving == [at : {"receiving"}]
Working == [at : {"received", "executing", "executed"}, job : Jobs]
Exited == [at : {"exited"}]

TypeOK ==
    /\ backlog \subseteq Jobs
    /\ ctx \in {"live", "cancelled"}
    /\ loop \in [Loops -> {"running", "returned"}]
    /\ main \in {"waiting", "draining", "stopped"}
    /\ disp \in {"select", "pass", "claim", "submit", "returned"}
    /\ queuesLeft \in 0..Passes
    /\ claimSize \in 0..BatchSize
    /\ hand \in Seq(Jobs) /\ jobsChan \in Seq(Jobs)
    /\ Len(jobsChan) <= concurrency
    /\ closed \in BOOLEAN
    /\ active \in 0..concurrency
    /\ gor \in [Goroutines -> Receiving \cup Working \cup Exited]
    /\ executed \subseteq Jobs

Init ==
    /\ backlog = Jobs /\ ctx = "live"
    /\ loop = [l \in Loops |-> "running"] /\ main = "waiting"
    /\ disp = "select" /\ queuesLeft = 0 /\ claimSize = 0
    /\ hand = <<>> /\ jobsChan = <<>> /\ closed = FALSE
    /\ active = 0 /\ gor = [g \in Goroutines |-> [at |-> "receiving"]]
    /\ executed = {}

(***************************************************************************)
(* The dispatcher.                                                         *)
(***************************************************************************)
AvailableWorkers == concurrency - active

\* A tick: list the active queues and begin a pass.  After the context is
\* cancelled select may still choose the tick, but the listing fails.
Tick ==
    /\ disp = "select" /\ ctx = "live"
    /\ disp' = "pass" /\ \E n \in 1..Passes : queuesLeft' = n
    /\ UNCHANGED <<backlog, ctx, loop, main, claimSize, hand, pool>>

ReturnsDrained ==               \* mutant: go on while there is something to claim
    ctx = "cancelled" /\ backlog = {}

Returns == ctx = "cancelled"

Return ==
    /\ disp = "select" /\ Returns
    /\ disp' = "returned"
    /\ UNCHANGED <<backlog, ctx, loop, main, queuesLeft, claimSize, hand, pool>>

\* The head of the loop over the queues, and dispatchQueue up to ClaimBatch: the
\* counter is read, the claim is made later.
NextQueue ==
    /\ disp = "pass"
    /\ IF queuesLeft = 0 \/ AvailableWorkers <= 0
       THEN /\ disp' = "select" /\ queuesLeft' = 0
            /\ UNCHANGED claimSize
       ELSE /\ disp' = "claim" /\ queuesLeft' = queuesLeft - 1
            /\ claimSize' = IF AvailableWorkers < BatchSize THEN AvailableWorkers
                                                            ELSE BatchSize
    /\ UNCHANGED <<backlog, ctx, loop, main, hand, pool>>

\* ClaimBatch: any jobs of the queue, up to the limit; none if it fails, as it
\* may after the context is cancelled.
ClaimBatch ==
    /\ disp = "claim"
    /\ \E S \in SUBSET backlog :
         /\ Cardinality(S) <= claimSize
         /\ backlog' = backlog \ S
         /\ hand' = SetToSeq(S)
    /\ disp' = "submit" /\ claimSize' = 0
    /\ UNCHANGED <<ctx, loop, main, queuesLeft, pool>>

Full == Len(jobsChan) >= concurrency

HandKept == hand                \* mutant: the loop over the batch does not advance

HandAfterSubmit == Tail(hand)

\* Submit blocks while the channel is full; on a closed channel it would panic.
Submit ==
    /\ disp = "submit" /\ hand # <<>>
    /\ ~Full
    /\ jobsChan' = Append(jobsChan, Head(hand))
    /\ hand' = HandAfterSubmit
    /\ UNCHANGED <<backlog, ctx, loop, main, disp, queuesLeft, claimSize, closed,
                   active, gor, executed>>

Submitted ==
    /\ disp = "submit" /\ hand = <<>>
    /\ disp' = "pass"
    /\ UNCHANGED <<backlog, ctx, loop, main, queuesLeft, claimSize, hand, pool>>

(***************************************************************************)
(* The goroutines of the pool.                                             *)
(***************************************************************************)
Move(g, from, to) ==
    /\ gor[g].at = from
    /\ gor' = [gor EXCEPT ![g].at = to]

Receive(g) ==
    /\ gor[g].at = "receiving" /\ jobsChan # <<>>
    /\ gor' = [gor EXCEPT ![g] = [at |-> "received", job |-> Head(jobsChan)]]
    /\ jobsChan' = Tail(jobsChan)
    /\ UNCHANGED <<backlog, ctx, loop, main, dispatcher, closed, active, executed>>

CountUp(g) ==
    /\ Move(g, "received", "executing")
    /\ active' = active + 1
    /\ UNCHANGED <<backlog, ctx, loop, main, dispatcher, jobsChan, closed, executed>>

\* The executor runs the job under a context of its own.
Execute(g) ==
    /\ Move(g, "executing", "executed")
    /\ executed' = executed \cup {gor[g].job}
    /\ UNCHANGED <<backlog, ctx, loop, main, dispatcher, jobsChan, closed, active>>

CountDown(g) ==
    /\ gor[g].at = "executed"
    /\ gor' = [gor EXCEPT ![g] = [at |-> "receiving"]]
    /\ active' = active - 1
    /\ UNCHANGED <<backlog, ctx, loop, main, dispatcher, jobsChan, closed, executed>>

ExitsOnClose == closed                    \* mutant: the buffer is not drained

Exits == closed /\ jobsChan = <<>>

Exit(g) ==
    /\ gor[g].at = "receiving" /\ Exits
    /\ gor' = [gor EXCEPT ![g] = [at |-> "exited"]]
    /\ UNCHANGED <<backlog, ctx, loop, main, dispatcher, jobsChan, closed, active,
                   executed>>

(***************************************************************************)
(* The process: the signal cancels the context, every loop returns, then   *)
(* the pool is closed and drained.                                         *)
(***************************************************************************)
Cancel ==
    /\ ctx = "live"
    /\ ctx' = "cancelled"
    /\ UNCHANGED <<backlog, loop, main, dispatcher, pool>>

LoopReturns(l) ==
    /\ ctx = "cancelled" /\ loop[l] = "running"
    /\ loop' = [loop EXCEPT ![l] = "returned"]
    /\ UNCHANGED <<backlog, ctx, main, dispatcher, pool>>

NoWaitForLoops == ctx = "cancelled"       \* mutant: wg.Wait() left out

LoopsDone == disp = "returned" /\ \A l \in Loops : loop[l] = "returned"

\* <-ctx.Done(), wg.Wait(), and close(p.jobsChan).
StopPool ==
    /\ main = "waiting" /\ ctx = "cancelled" /\ LoopsDone
    /\ closed' = TRUE /\ main' = "draining"
    /\ UNCHANGED <<backlog, ctx, loop, dispatcher, jobsChan, active, gor, executed>>

Stop ==
    /\ main = "draining" /\ \A g \in Goroutines : gor[g].at = "exited"
    /\ main' = "stopped"
    /\ UNCHANGED <<backlog, ctx, loop, dispatcher, pool>>

Dispatcher == Tick \/ Return \/ NextQueue \/ ClaimBatch \/ Submit \/ Submitted
Worker(g) == Receive(g) \/ CountUp(g) \/ Execute(g) \/ CountDown(g) \/ Exit(g)

Next ==
    \/ Dispatcher
    \/ \E g \in Goroutines : Worker(g)
    \/ \E l \in Loops : LoopReturns(l)
    \/ Cancel \/ StopPool \/ Stop

Spec == Init /\ [][Next]_vars

\* Every goroutine of the process is scheduled, and handlers return.  Nothing is
\* assumed of the signal that cancels the context.
FairSpec ==
    /\ Spec
    /\ WF_vars(Dispatcher)
    /\ \A g \in Goroutines : WF_vars(Worker(g))
    /\ \A l \in Loops : WF_vars(LoopReturns(l))
    /\ WF_vars(StopPool) /\ WF_vars(Stop)

(***************************************************************************)
(* Properties.                                                             *)
(***************************************************************************)
Busy == {g \in Goroutines : gor[g].at \notin {"receiving", "exited"}}
Waiting == Range(hand) \cup Range(jobsChan)
InWork == {gor[g].job : g \in Busy}

\* A claimed job is in exactly one place until it has been executed once: the
\* dispatcher's hand, the channel, or one goroutine.
EachJobOnce ==
    /\ Cardinality(Waiting) = Len(hand) + Len(jobsChan)
    /\ Cardinality(InWork) = Cardinality(Busy)
    /\ Waiting \cap InWork = {}
    /\ Waiting \cap executed = {}
    /\ \A g \in Busy : gor[g].at # "executed" => gor[g].job \notin executed

\* The channel is never closed under a dispatcher that has jobs to submit:
\* Submit would panic, and the process die with every job it holds.
NoSendOnClosed == closed => disp = "returned" /\ hand = <<>>

\* A stopped process leaves no job that it has claimed behind.
NothingLeftBehind == main = "stopped" => executed = Jobs \ backlog /\ active = 0

\* A worker never has more jobs in its hands than three times its concurrency:
\* a batch just claimed, a full channel, and one job for each goroutine.
InFlightBounded == Cardinality(Waiting) + Cardinality(Busy) <= 3 * concurrency

\* Every job that is claimed is executed, and a process told to stop does stop,
\* the dispatcher blocked in Submit or not.
ClaimedExecuted == \A j \in Jobs : (j \notin backlog) ~> (j \in executed)
StopsWhenTold == (ctx = "cancelled") ~> (main = "stopped")

\* "AvailableWorkers returns the number of idle worker goroutines": what the
\* dispatcher acts on, that many are idle.
AvailableAreIdle ==
    AvailableWorkers <= Cardinality({g \in Goroutines : gor[g].at = "receiving"})
=============================================================================
