--------------------------- MODULE JobQueueProofs ---------------------------
(***************************************************************************)
(* Theorems about JobQueue, for every value of its constants.              *)
(***************************************************************************)
EXTENDS JobQueue, FiniteSetTheorems, TLAPS

(***************************************************************************)
(* Type correctness.  The budget of a claim is a number only because the   *)
(* sets that are counted are finite.                                       *)
(***************************************************************************)
TypeInv == TypeOK /\ IsFiniteSet(running)

\* Any part of a finite set of leases can be counted.
LEMMA CountLeases ==
    ASSUME NEW S, IsFiniteSet(S), NEW w
    PROVE  IsFiniteSet(LeasesOf(w, S)) /\ Cardinality(LeasesOf(w, S)) \in Nat
BY FS_Subset, FS_CardinalityType DEF LeasesOf

\* What may be claimed from a queue is a number, negative when the queue is
\* over its limit.
LEMMA BudgetType ==
    ASSUME TypeInv, NEW w \in Workers, NEW q \in Queues
    PROVE  Budget(w, q) \in Int
<1>1. IsFiniteSet(RunningIn(q)) /\ Cardinality(RunningIn(q)) \in Nat
  BY ConstantsAssumption, FS_Subset, FS_CardinalityType DEF RunningIn
<1>2. AvailableWorkers(w) \in Int
  BY CountLeases, ConstantsAssumption DEF TypeInv, AvailableWorkers
<1> QED
  BY <1>1, <1>2, ConstantsAssumption DEF Budget, Smaller

LEMMA InitType == Init => TypeInv
BY FS_EmptySet, ConstantsAssumption DEF Init, TypeInv, TypeOK

\* Taking leases out of running, or one into it, leaves it finite.
LEMMA RunningFinite ==
    ASSUME TypeInv, NEW l,
           \/ running' = running
           \/ running' = running \ {l}
           \/ running' = running \cup {l}
           \/ running' \subseteq running
    PROVE  IsFiniteSet(running')
BY FS_Subset, FS_AddElement DEF TypeInv

\* The part of TypeOK that speaks of the table, and the steps that write all of it.
RowsOK ==
    /\ status \in [Jobs -> Statuses \cup {"absent", "deleted"}]
    /\ attempts \in [Jobs -> Nat]
    /\ claimedBy \in [Jobs -> Workers \cup {None}]
    /\ due \in [Jobs -> BOOLEAN]
    /\ stale \in [Jobs -> BOOLEAN]

LEMMA MarkRunningType ==
    ASSUME RowsOK, leases \in [Jobs -> Nat], NEW w \in Workers, MarkRunning(w)
    PROVE  RowsOK' /\ leases' \in [Jobs -> Nat]
<1>1. status' \in [Jobs -> Statuses \cup {"absent", "deleted"}]
  BY DEF RowsOK, MarkRunning, Statuses
<1>2. claimedBy' \in [Jobs -> Workers \cup {None}] /\ stale' \in [Jobs -> BOOLEAN]
  BY DEF RowsOK, MarkRunning
<1>3. leases' \in [Jobs -> Nat]
  BY DEF RowsOK, MarkRunning
<1> QED
  BY <1>1, <1>2, <1>3 DEF RowsOK, MarkRunning

LEMMA ScheduleRetryType ==
    ASSUME RowsOK, NEW j \in Jobs, NEW n \in Nat, NEW isDue \in BOOLEAN,
           ScheduleRetry(j, n, isDue)
    PROVE  RowsOK'
<1>1. status' \in [Jobs -> Statuses \cup {"absent", "deleted"}]
  BY DEF RowsOK, ScheduleRetry, Set, Statuses
<1>2. attempts' \in [Jobs -> Nat]
  BY DEF RowsOK, ScheduleRetry, Set
<1>3. claimedBy' \in [Jobs -> Workers \cup {None}]
  BY DEF RowsOK, ScheduleRetry, Set
<1>4. due' \in [Jobs -> BOOLEAN] /\ stale' \in [Jobs -> BOOLEAN]
  BY DEF RowsOK, ScheduleRetry, Set
<1> QED
  BY <1>1, <1>2, <1>3, <1>4 DEF RowsOK

\* The steps of the dispatcher keep the types.
LEMMA DispatchType ==
    ASSUME TypeInv, NEW w \in Workers, Dispatch(w)
    PROVE  TypeInv'
<1> USE DEF TypeInv, TypeOK, jobRow, claim, work
<1>1. CASE ListQueues(w)
  BY <1>1 DEF ListQueues
<1>2. CASE EndPass(w)
  BY <1>2 DEF EndPass
<1>3. ASSUME NEW q \in Queues, CountRunning(w, q)
      PROVE  TypeInv'
  <2>1. Budget(w, q) \in Int
    BY BudgetType
  <2>2. CASE Budget(w, q) <= 0
    BY <1>3, <2>2 DEF CountRunning
  <2>3. CASE ~(Budget(w, q) <= 0)
    <3>1. Budget(w, q) \in Nat
      BY <2>1, <2>3
    <3> QED
      BY <1>3, <2>3, <3>1 DEF CountRunning
  <2> QED
    BY <2>2, <2>3
<1>4. CASE SelectRows(w)
  BY <1>4, ConstantsAssumption DEF SelectRows, EndClaim
<1>5. CASE CommitClaim(w)
  <2>1. \A j \in rows[w] : NewLease(w, j) \in Lease
    BY DEF NewLease, Lease
  <2>2. held' \subseteq Lease
    BY <1>5, <2>1 DEF CommitClaim
  <2>3. RowsOK' /\ leases' \in [Jobs -> Nat]
    BY <1>5, MarkRunningType DEF CommitClaim, RowsOK
  <2> QED
    BY <1>5, <2>2, <2>3 DEF CommitClaim, EndClaim, RowsOK
<1>6. CASE CancelClaim(w)
  BY <1>6 DEF CancelClaim, EndClaim
<1> QED
  BY <1>1, <1>2, <1>3, <1>4, <1>5, <1>6 DEF Dispatch

\* The steps of the pool, the executor and the process keep the types.
LEMMA ExecutionType ==
    ASSUME TypeInv, NEW w \in Workers,
           \/ StartJob(w)
           \/ \E j \in Jobs : Finish(w, j)
           \/ Restart(w)
           \/ Stopped(w)
           \/ WorkerFault(w)
    PROVE  TypeInv'
<1> USE DEF TypeInv, TypeOK, jobRow, claim, work
<1>1. CASE StartJob(w)
  <2>1. PICK l \in LeasesOf(w, held) :
          held' = held \ {l} /\ running' = running \cup {l}
    BY <1>1 DEF StartJob
  <2>2. l \in Lease /\ IsFiniteSet(running')
    BY <2>1, RunningFinite DEF LeasesOf
  <2> QED
    BY <1>1, <2>1, <2>2 DEF StartJob
<1>2. ASSUME NEW l \in LeasesOf(w, running), Succeed(l) \/ Fail(l) \/ Die(l)
      PROVE  TypeInv'
  <2>1. l \in Lease /\ l.job \in Jobs /\ l.attempt \in Nat
    BY DEF LeasesOf, Lease
  <2>2. IsFiniteSet(running') /\ running' \subseteq Lease
    BY <1>2, RunningFinite DEF Succeed, Fail, Die, Finished
  <2>3. CASE Succeed(l)
    BY <2>1, <2>2, <2>3 DEF Succeed, Finished, MarkSucceeded, Set, Statuses
  <2>4. CASE Fail(l)
    <3>1. l.attempt + 1 \in Nat
      BY <2>1
    <3>2. RowsOK'
      BY <2>1, <2>4, <3>1, ScheduleRetryType DEF Fail, RowsOK
    <3> QED
      BY <2>2, <2>4, <3>2 DEF Fail, Finished, RowsOK
  <2>5. CASE Die(l)
    BY <2>1, <2>2, <2>5 DEF Die, Finished, MarkDead, Set, Statuses
  <2> QED
    BY <1>2, <2>3, <2>4, <2>5
<1>3. CASE Restart(w)
  BY <1>3 DEF Restart
<1>4. CASE Stopped(w)
  BY <1>4 DEF Stopped
<1>5. CASE CommitUnacknowledged(w)
  <2>1. RowsOK' /\ leases' \in [Jobs -> Nat]
    BY <1>5, MarkRunningType DEF CommitUnacknowledged, RowsOK
  <2> QED
    BY <1>5, <2>1 DEF CommitUnacknowledged, EndClaim, Fault, RowsOK
<1>6. CASE AbortClaim(w)
  BY <1>6 DEF AbortClaim, EndClaim, Fault
<1>7. ASSUME NEW l \in LeasesOf(w, running), LoseOutcome(l)
      PROVE  TypeInv'
  <2>1. IsFiniteSet(running') /\ running' \subseteq Lease
    BY <1>7, RunningFinite DEF LoseOutcome, Finished
  <2> QED
    BY <1>7, <2>1 DEF LoseOutcome, Finished, Fault
<1>8. CASE Crash(w)
  <2>1. running' \subseteq running /\ IsFiniteSet(running')
    BY <1>8, RunningFinite DEF Crash
  <2> QED
    BY <1>8, <2>1 DEF Crash, Fault
<1>9. CASE Shutdown(w)
  BY <1>9 DEF Shutdown, Fault
<1> QED
  BY <1>1, <1>2, <1>3, <1>4, <1>5, <1>6, <1>7, <1>8, <1>9 DEF Finish, WorkerFault

\* The loops over the table, the API requests and the clock keep the types.
LEMMA TableType ==
    ASSUME TypeInv, Reclaim \/ Promote \/ JobRequest \/ QueueRequest \/ Time
    PROVE  TypeInv'
<1> USE DEF TypeInv, TypeOK, jobRow, claim, work
<1>1. CASE Reclaim
  BY <1>1 DEF Reclaim, Statuses
<1>2. CASE Promote
  BY <1>2 DEF Promote, Statuses
<1>3. ASSUME NEW j \in Jobs, NEW future \in BOOLEAN, Enqueue(j, future)
      PROVE  TypeInv'
  BY <1>3 DEF Enqueue, Statuses
<1>4. ASSUME NEW j \in Jobs, Cancel(j)
      PROVE  TypeInv'
  BY <1>4 DEF Cancel, Statuses
<1>5. ASSUME NEW c \in Retriers, NEW j \in Jobs, RetryRead(c, j)
      PROVE  TypeInv'
  BY <1>5 DEF RetryRead, Request
<1>6. ASSUME NEW r \in retries, RetryWrite(r)
      PROVE  TypeInv'
  <2>1. r.job \in Jobs /\ r.attempt \in Nat
    BY DEF Request
  <2> QED
    <3>1. RowsOK'
      BY <1>6, <2>1, ScheduleRetryType DEF RetryWrite, RetryCount, RowsOK
    <3> QED
      BY <1>6, <3>1 DEF RetryWrite, RowsOK
<1>7. CASE QueueRequest
  BY <1>7 DEF QueueRequest, Pause, Resume, DeleteQueue
<1>8. ASSUME NEW j \in Jobs, BecomeDue(j)
      PROVE  TypeInv'
  BY <1>8 DEF BecomeDue
<1>9. ASSUME NEW j \in Jobs, GrowStale(j), UNCHANGED faults \/ Fault
      PROVE  TypeInv'
  BY <1>9 DEF GrowStale, Fault
<1> QED
  BY <1>1, <1>2, <1>3, <1>4, <1>5, <1>6, <1>7, <1>8, <1>9
     DEF JobRequest, Time, BecomeStale, OutliveTimeout

LEMMA NextType == TypeInv /\ [Next]_vars => TypeInv'
<1> SUFFICES ASSUME TypeInv, [Next]_vars
             PROVE  TypeInv'
  OBVIOUS
<1>1. CASE Next
  BY <1>1, DispatchType, ExecutionType, TableType DEF Next, Worker
<1>2. CASE UNCHANGED vars
  BY <1>2 DEF vars, jobRow, claim, work, TypeInv, TypeOK
<1> QED
  BY <1>1, <1>2

\* Every variable keeps its type: in particular no worker ever writes "failed",
\* and the number of jobs a claim may take is never negative.
THEOREM TypeCorrect == Spec => []TypeOK
<1>1. Spec => []TypeInv
  BY InitType, NextType, PTL DEF Spec
<1>2. TypeInv => TypeOK
  BY DEF TypeInv
<1> QED
  BY <1>1, <1>2, PTL

(***************************************************************************)
(* Exclusive claims.  Inductive only together with the fact that no        *)
(* pending row names a claimer: otherwise a row selected by a claim could  *)
(* already be somebody's.                                                  *)
(***************************************************************************)
WaitingUnclaimed ==
    \A j \in Jobs : status[j] \in {"absent", "pending", "scheduled"} => claimedBy[j] = None

ClaimInv == WaitingUnclaimed /\ ClaimExclusive

\* A step keeps the claims that it leaves open if it leaves their rows alone.
LEMMA ClaimsKept ==
    ASSUME TypeInv, ClaimExclusive,
           \A w \in Workers : rows'[w] \in {rows[w], {}},
           \A j \in Jobs : ~Unlocked(j) =>
               \/ status'[j] = status[j] /\ claimedBy'[j] = claimedBy[j]
               \/ Unlocked(j)'
    PROVE  ClaimExclusive'
<1> SUFFICES ASSUME NEW w \in Workers, NEW j \in rows'[w]
             PROVE  /\ status'[j] = "pending" /\ claimedBy'[j] = None
                    /\ \A v \in Workers \ {w} : j \notin rows'[v]
  BY DEF ClaimExclusive
<1>1. j \in Jobs /\ j \in rows[w]
  BY DEF TypeInv, TypeOK
<1>2. ~Unlocked(j) /\ ~Unlocked(j)'
  BY <1>1 DEF Unlocked
<1>3. status[j] = "pending" /\ claimedBy[j] = None
  BY <1>1 DEF ClaimExclusive
<1>4. \A v \in Workers \ {w} : j \notin rows[v]
  BY <1>1 DEF ClaimExclusive
<1> QED
  BY <1>1, <1>2, <1>3, <1>4

\* The end of a claim by COMMIT: its rows are running, and no longer locked.
LEMMA MarkRunningClaims ==
    ASSUME TypeInv, ClaimInv, NEW w \in Workers, MarkRunning(w), EndClaim(w)
    PROVE  ClaimInv'
<1>1. rows'[w] = {} /\ \A v \in Workers \ {w} : rows'[v] = rows[v]
  BY DEF EndClaim, TypeInv, TypeOK
<1>2. \A j \in Jobs \ rows[w] : status'[j] = status[j] /\ claimedBy'[j] = claimedBy[j]
  BY DEF MarkRunning
<1>3. \A j \in rows[w] : j \in Jobs /\ status'[j] = "running"
  BY DEF MarkRunning, TypeInv, TypeOK
<1>4. \A j \in rows[w] : Unlocked(j)'
  BY <1>1 DEF ClaimInv, ClaimExclusive, Unlocked
<1>5. ClaimExclusive'
  BY <1>1, <1>2, <1>4, ClaimsKept DEF ClaimInv
<1> QED
  BY <1>2, <1>3, <1>5 DEF ClaimInv, WaitingUnclaimed

LEMMA DispatchClaims ==
    ASSUME TypeInv, ClaimInv, NEW w \in Workers, Dispatch(w)
    PROVE  ClaimInv'
<1> USE DEF ClaimInv
<1>1. CASE \/ ListQueues(w) \/ EndPass(w)
           \/ \E q \in Queues : CountRunning(w, q)
  <2>1. UNCHANGED <<status, claimedBy, rows>>
    BY <1>1 DEF ListQueues, EndPass, CountRunning, jobRow
  <2> QED
    BY <2>1 DEF WaitingUnclaimed, ClaimExclusive
<1>2. CASE SelectRows(w)
  <2>1. UNCHANGED <<status, claimedBy>>
    BY <1>2 DEF SelectRows, jobRow
  <2>2. PICK S \in SUBSET Jobs : Selects(w, S) /\ rows' = [rows EXCEPT ![w] = S]
    BY <1>2 DEF SelectRows, EndClaim
  <2>3. \A j \in S : status[j] = "pending" /\ claimedBy[j] = None /\ Unlocked(j)
    BY <2>2 DEF Selects, Claimable, WaitingUnclaimed
  <2>4. rows'[w] = S /\ \A v \in Workers \ {w} : rows'[v] = rows[v]
    BY <2>2 DEF TypeInv, TypeOK
  <2>5. ClaimExclusive'
    BY <2>1, <2>3, <2>4 DEF ClaimExclusive, Unlocked
  <2> QED
    BY <2>1, <2>5 DEF WaitingUnclaimed
<1>3. CASE CommitClaim(w)
  BY <1>3, MarkRunningClaims DEF CommitClaim
<1>4. CASE CancelClaim(w)
  <2>1. UNCHANGED <<status, claimedBy>>
    BY <1>4 DEF CancelClaim, jobRow
  <2>2. \A v \in Workers : rows'[v] \in {rows[v], {}}
    BY <1>4 DEF CancelClaim, EndClaim, TypeInv, TypeOK
  <2> QED
    BY <2>1, <2>2, ClaimsKept DEF WaitingUnclaimed
<1> QED
  BY <1>1, <1>2, <1>3, <1>4 DEF Dispatch

\* An UPDATE by id of an unlocked row disturbs no claim; what it must not do is
\* leave a waiting row with a claimer.
LEMMA UpdateClaims ==
    ASSUME TypeInv, ClaimInv, NEW j \in Jobs, Unlocked(j), UNCHANGED rows,
           \/ MarkSucceeded(j)
           \/ MarkDead(j)
           \/ \E n \in Nat, isDue \in BOOLEAN : ScheduleRetry(j, n, isDue)
    PROVE  ClaimInv'
<1>1. \A k \in Jobs \ {j} : status'[k] = status[k] /\ claimedBy'[k] = claimedBy[k]
  BY DEF MarkSucceeded, MarkDead, ScheduleRetry, Set, TypeInv, TypeOK
<1>2. status'[j] \in {"absent", "pending", "scheduled"} => claimedBy'[j] = None
  <2>1. CASE ~Exists(j)
    BY <2>1 DEF MarkSucceeded, MarkDead, ScheduleRetry, Set, TypeInv, TypeOK,
                ClaimInv, WaitingUnclaimed
  <2>2. CASE Exists(j)
    BY <2>2 DEF MarkSucceeded, MarkDead, ScheduleRetry, Set, TypeInv, TypeOK
  <2> QED
    BY <2>1, <2>2
<1>3. ClaimExclusive'
  BY <1>1, ClaimsKept DEF ClaimInv
<1> QED
  BY <1>1, <1>2, <1>3 DEF ClaimInv, WaitingUnclaimed

LEMMA ExecutionClaims ==
    ASSUME TypeInv, ClaimInv, NEW w \in Workers,
           \/ StartJob(w)
           \/ \E j \in Jobs : Finish(w, j)
           \/ Restart(w)
           \/ Stopped(w)
           \/ WorkerFault(w)
    PROVE  ClaimInv'
<1>1. ASSUME NEW l \in LeasesOf(w, running), Succeed(l) \/ Fail(l) \/ Die(l)
      PROVE  ClaimInv'
  <2>1. l.job \in Jobs /\ l.attempt + 1 \in Nat
    BY DEF LeasesOf, Lease, TypeInv, TypeOK
  <2>2. Unlocked(l.job) /\ UNCHANGED rows
    BY <1>1 DEF Succeed, Fail, Die, Finished, claim
  <2> QED
    BY <1>1, <2>1, <2>2, UpdateClaims DEF Succeed, Fail, Die
<1>2. CASE CommitUnacknowledged(w)
  BY <1>2, MarkRunningClaims DEF CommitUnacknowledged
<1>3. ASSUME UNCHANGED <<status, claimedBy>>,
             \A v \in Workers : rows'[v] \in {rows[v], {}}
      PROVE  ClaimInv'
  BY <1>3, ClaimsKept DEF ClaimInv, WaitingUnclaimed
<1>4. CASE AbortClaim(w) \/ Crash(w)
  <2>1. \A v \in Workers : rows'[v] \in {rows[v], {}}
    BY <1>4 DEF AbortClaim, Crash, EndClaim, TypeInv, TypeOK
  <2> QED
    BY <1>3, <1>4, <2>1 DEF AbortClaim, Crash, jobRow
<1>5. CASE \/ StartJob(w) \/ Restart(w) \/ Stopped(w) \/ Shutdown(w)
           \/ \E l \in LeasesOf(w, running) : LoseOutcome(l)
  <2>1. UNCHANGED <<status, claimedBy, rows>>
    BY <1>5 DEF StartJob, Restart, Stopped, Shutdown, LoseOutcome, Finished,
                jobRow, claim
  <2> QED
    BY <1>3, <2>1
<1> QED
  BY <1>1, <1>2, <1>4, <1>5 DEF Finish, WorkerFault

LEMMA TableClaims ==
    ASSUME TypeInv, ClaimInv, Reclaim \/ Promote \/ JobRequest \/ QueueRequest \/ Time
    PROVE  ClaimInv'
<1>1. ASSUME UNCHANGED rows,
             \A j \in Jobs : ~Unlocked(j) =>
                 status'[j] = status[j] /\ claimedBy'[j] = claimedBy[j],
             WaitingUnclaimed'
      PROVE  ClaimInv'
  BY <1>1, ClaimsKept DEF ClaimInv
<1>2. \A j \in Jobs : ~Unlocked(j) => status[j] = "pending"
  BY DEF ClaimInv, ClaimExclusive, Unlocked
<1>3. CASE Reclaim
  <2>1. \A j \in Jobs : ~Unlocked(j) =>
          status'[j] = status[j] /\ claimedBy'[j] = claimedBy[j]
    BY <1>2, <1>3 DEF Reclaim, Reclaimable
  <2>2. WaitingUnclaimed'
    BY <1>3 DEF Reclaim, Reclaimable, ClaimInv, WaitingUnclaimed
  <2> QED
    BY <1>1, <1>3, <2>1, <2>2 DEF Reclaim, claim
<1>4. CASE Promote
  <2>1. \A j \in Jobs : ~Unlocked(j) =>
          status'[j] = status[j] /\ claimedBy'[j] = claimedBy[j]
    BY <1>2, <1>4 DEF Promote, Promotable
  <2>2. WaitingUnclaimed'
    BY <1>4 DEF Promote, Promotable, ClaimInv, WaitingUnclaimed
  <2> QED
    BY <1>1, <1>4, <2>1, <2>2 DEF Promote, claim
<1>5. ASSUME NEW j \in Jobs, NEW future \in BOOLEAN, Enqueue(j, future)
      PROVE  ClaimInv'
  <2>1. \A k \in Jobs \ {j} : status'[k] = status[k]
    BY <1>5 DEF Enqueue
  <2>2. Unlocked(j) /\ UNCHANGED <<rows, claimedBy>>
    BY <1>2, <1>5 DEF Enqueue, claim
  <2>3. WaitingUnclaimed'
    BY <1>5, <2>1, <2>2 DEF Enqueue, ClaimInv, WaitingUnclaimed
  <2> QED
    BY <1>1, <2>1, <2>2, <2>3
<1>6. ASSUME NEW j \in Jobs, Cancel(j)
      PROVE  ClaimInv'
  <2>1. \A k \in Jobs \ {j} : status'[k] = status[k]
    BY <1>6 DEF Cancel
  <2>2. Unlocked(j) /\ UNCHANGED <<rows, claimedBy>>
    BY <1>6 DEF Cancel, claim
  <2>3. WaitingUnclaimed'
    BY <1>6, <2>1, <2>2 DEF Cancel, ClaimInv, WaitingUnclaimed, TypeInv, TypeOK
  <2> QED
    BY <1>1, <2>1, <2>2, <2>3
<1>7. ASSUME NEW r \in retries, RetryWrite(r)
      PROVE  ClaimInv'
  <2>1. r.job \in Jobs /\ r.attempt \in Nat
    BY DEF Request, TypeInv, TypeOK
  <2> QED
    BY <1>7, <2>1, UpdateClaims DEF RetryWrite, RetryCount, claim
<1>8. ASSUME NEW q \in Queues, DeleteQueue(q)
      PROVE  ClaimInv'
  <2>1. \A j \in Jobs : ~Unlocked(j) =>
          status'[j] = status[j] /\ claimedBy'[j] = claimedBy[j]
    BY <1>8 DEF DeleteQueue
  <2>2. WaitingUnclaimed'
    BY <1>8 DEF DeleteQueue, ClaimInv, WaitingUnclaimed
  <2> QED
    BY <1>1, <1>8, <2>1, <2>2 DEF DeleteQueue, claim
<1>9. ASSUME UNCHANGED <<status, claimedBy, rows>>
      PROVE  ClaimInv'
  BY <1>9 DEF ClaimInv, WaitingUnclaimed, ClaimExclusive
<1>10. CASE \/ \E c \in Retriers, j \in Jobs : RetryRead(c, j)
            \/ \E q \in Queues : Pause(q) \/ Resume(q)
            \/ Time
  BY <1>9, <1>10 DEF RetryRead, Pause, Resume, Time, BecomeDue, BecomeStale,
                     OutliveTimeout, GrowStale, jobRow, claim
<1> QED
  BY <1>3, <1>4, <1>5, <1>6, <1>7, <1>8, <1>10 DEF JobRequest, QueueRequest

LEMMA NextClaims == TypeInv /\ ClaimInv /\ [Next]_vars => ClaimInv'
<1> SUFFICES ASSUME TypeInv, ClaimInv, [Next]_vars
             PROVE  ClaimInv'
  OBVIOUS
<1>1. CASE Next
  BY <1>1, DispatchClaims, ExecutionClaims, TableClaims DEF Next, Worker
<1>2. CASE UNCHANGED vars
  BY <1>2 DEF vars, jobRow, claim, ClaimInv, WaitingUnclaimed, ClaimExclusive
<1> QED
  BY <1>1, <1>2

\* No two claims ever hold the same row, and nothing but the claim that holds a
\* row changes its status: ClaimBatch needs no other guard than its row locks,
\* whatever crashes, reclaims and API calls happen meanwhile.
THEOREM ClaimsExclusive == Spec => []ClaimExclusive
<1>1. Init => ClaimInv
  BY DEF Init, ClaimInv, WaitingUnclaimed, ClaimExclusive
<1>2. Spec => []TypeInv
  BY InitType, NextType, PTL DEF Spec
<1>3. Spec => []ClaimInv
  BY <1>1, <1>2, NextClaims, PTL DEF Spec
<1>4. ClaimInv => ClaimExclusive
  BY DEF ClaimInv
<1> QED
  BY <1>3, <1>4, PTL

(***************************************************************************)
(* Safe leases: exclusive execution, if no lease outlives the visibility   *)
(* timeout while its worker lives and manual retries come one at a time.   *)
(* A job's outcome is written by its id alone, so the invariant has to say *)
(* that whoever is about to write finds the row as it was read.            *)
(***************************************************************************)
SafeLeases == ~LiveReclaim /\ \A c, d \in Retriers : c = d

RequestsAlone == \A r, s \in retries : r.client = s.client => r = s

LeaseInv ==
    /\ LeaseMatchesRow
    /\ \A l \in Live : status[l.job] # "deleted" => ~stale[l.job]
    /\ \A k, l \in Live : k.job = l.job => k = l
    /\ held \cap running = {}
    /\ RequestsAlone

SameRow(j) ==
    /\ status'[j] = status[j] /\ attempts'[j] = attempts[j]
    /\ claimedBy'[j] = claimedBy[j] /\ stale'[j] = stale[j]
    /\ leases'[j] = leases[j]

\* A step that hands out no lease keeps the invariant if it leaves alone the
\* rows of the leases and requests that remain, or deletes them.
LEMMA LeasesKept ==
    ASSUME TypeInv, LeaseInv,
           Live' \subseteq Live, held' \cap running' = {}, retries' \subseteq retries,
           \A l \in Live' : status'[l.job] = "deleted" \/ SameRow(l.job),
           \A r \in retries' : status'[r.job] \in {status[r.job], "deleted"}
    PROVE  LeaseInv'
<1>1. \A l \in Live' : status'[l.job] # "deleted" =>
        /\ status'[l.job] = "running" /\ claimedBy'[l.job] = l.worker
        /\ attempts'[l.job] = l.attempt /\ leases'[l.job] = l.lease
        /\ ~stale'[l.job]
  BY DEF LeaseInv, LeaseMatchesRow, SameRow
<1>2. \A r \in retries' : status'[r.job] \in {"dead", "deleted"}
  BY DEF LeaseInv, LeaseMatchesRow
<1>3. \A k, l \in Live' : k.job = l.job => k = l
  BY DEF LeaseInv
<1>4. RequestsAlone'
  BY DEF LeaseInv, RequestsAlone
<1> QED
  BY <1>1, <1>2, <1>3, <1>4 DEF LeaseInv, LeaseMatchesRow

\* A lease's job is running or deleted, a request's dead or deleted.
LEMMA LeaseStatus ==
    ASSUME TypeInv, LeaseInv
    PROVE  /\ \A l \in Live : l.job \in Jobs /\ status[l.job] \in {"running", "deleted"}
           /\ \A r \in retries : r.job \in Jobs /\ status[r.job] \in {"dead", "deleted"}
BY DEF TypeInv, TypeOK, Live, Lease, Request, LeaseInv, LeaseMatchesRow

\* A claim's rows belong to no lease and to no request.
LEMMA ClaimedRowsFree ==
    ASSUME TypeInv, ClaimInv, LeaseInv, NEW w \in Workers, NEW j \in rows[w]
    PROVE  /\ j \in Jobs
           /\ \A l \in Live : l.job # j
           /\ \A r \in retries : r.job # j
<1>1. j \in Jobs /\ status[j] = "pending"
  BY DEF TypeInv, TypeOK, ClaimInv, ClaimExclusive
<1> QED
  BY <1>1, LeaseStatus

LEMMA MarkRunningOthers ==
    ASSUME NEW w \in Workers, MarkRunning(w), TypeInv
    PROVE  \A k \in Jobs \ rows[w] : SameRow(k)
BY DEF MarkRunning, SameRow, TypeInv, TypeOK

LEMMA CommitLeases ==
    ASSUME TypeInv, ClaimInv, LeaseInv, NEW w \in Workers, CommitClaim(w)
    PROVE  LeaseInv'
<1> DEFINE New == {NewLease(w, j) : j \in rows[w]}
<1>1. held' = held \cup New /\ running' = running /\ Live' = Live \cup New
  BY DEF CommitClaim, Live
<1>2. retries' = retries /\ MarkRunning(w)
  BY DEF CommitClaim
<1>3. \A l \in Live : l.job \in Jobs \ rows[w] /\ SameRow(l.job)
  BY <1>2, ClaimedRowsFree, LeaseStatus, MarkRunningOthers
<1>4. \A r \in retries : SameRow(r.job)
  BY <1>2, ClaimedRowsFree, LeaseStatus, MarkRunningOthers
<1>5. \A l \in New :
        /\ l.job \in rows[w]
        /\ status'[l.job] = "running" /\ claimedBy'[l.job] = l.worker
        /\ attempts'[l.job] = l.attempt /\ leases'[l.job] = l.lease
        /\ ~stale'[l.job]
  BY <1>2 DEF MarkRunning, NewLease, TypeInv, TypeOK
<1>6. \A k, l \in New : k.job = l.job => k = l
  BY DEF NewLease
<1>7. \A l \in Live' : status'[l.job] # "deleted" =>
        /\ status'[l.job] = "running" /\ claimedBy'[l.job] = l.worker
        /\ attempts'[l.job] = l.attempt /\ leases'[l.job] = l.lease
        /\ ~stale'[l.job]
  BY <1>1, <1>3, <1>5 DEF LeaseInv, LeaseMatchesRow, SameRow
<1>8. \A k, l \in Live' : k.job = l.job => k = l
  BY <1>1, <1>3, <1>5, <1>6 DEF LeaseInv
<1>9. held' \cap running' = {}
  BY <1>1, <1>3, <1>5 DEF LeaseInv, Live
<1>10. \A r \in retries' : status'[r.job] \in {"dead", "deleted"}
  BY <1>2, <1>4 DEF LeaseInv, LeaseMatchesRow, SameRow
<1>11. RequestsAlone'
  BY <1>2 DEF LeaseInv, RequestsAlone
<1> QED
  BY <1>7, <1>8, <1>9, <1>10, <1>11 DEF LeaseInv, LeaseMatchesRow

\* An UPDATE by id touches one row, and none that is deleted.
LEMMA UpdateOthers ==
    ASSUME TypeInv, NEW j \in Jobs, UNCHANGED leases,
           \/ MarkSucceeded(j)
           \/ MarkDead(j)
           \/ \E n \in Nat, isDue \in BOOLEAN : ScheduleRetry(j, n, isDue)
    PROVE  /\ \A k \in Jobs \ {j} : SameRow(k)
           /\ status[j] = "deleted" => status'[j] = "deleted"
<1>1. \A k \in Jobs \ {j} : SameRow(k)
  BY DEF MarkSucceeded, MarkDead, ScheduleRetry, Set, SameRow, TypeInv, TypeOK
<1>2. status[j] = "deleted" => status'[j] = "deleted"
  BY DEF MarkSucceeded, MarkDead, ScheduleRetry, Set, Exists, Statuses, TypeInv, TypeOK
<1> QED
  BY <1>1, <1>2

\* An outcome: the lease is given up, and it was the only one of its job.
LEMMA OutcomeLeases ==
    ASSUME TypeInv, LeaseInv, NEW w \in Workers, NEW l \in LeasesOf(w, running),
           Succeed(l) \/ Fail(l) \/ Die(l)
    PROVE  LeaseInv'
<1>1. /\ l.job \in Jobs /\ l.attempt + 1 \in Nat
      /\ l \in running /\ l \in Live
  BY DEF LeasesOf, Lease, Live, TypeInv, TypeOK
<1>2. running' = running \ {l} /\ UNCHANGED <<held, retries, leases>>
  BY DEF Succeed, Fail, Die, Finished
<1>3. /\ \A k \in Jobs \ {l.job} : SameRow(k)
      /\ status[l.job] = "deleted" => status'[l.job] = "deleted"
  BY <1>1, <1>2, UpdateOthers DEF Succeed, Fail, Die
<1>4. Live' = Live \ {l} /\ held' \cap running' = {}
  BY <1>1, <1>2 DEF Live, LeaseInv
<1>5. \A k \in Live' : SameRow(k.job)
  <2>1. \A k \in Live' : k.job # l.job /\ k.job \in Jobs
    BY <1>1, <1>4, LeaseStatus DEF LeaseInv
  <2> QED
    BY <1>3, <2>1
<1>6. \A r \in retries : status'[r.job] \in {status[r.job], "deleted"}
  <2> SUFFICES ASSUME NEW r \in retries
               PROVE  status'[r.job] \in {status[r.job], "deleted"}
    OBVIOUS
  <2>1. r.job \in Jobs /\ (r.job = l.job => status[l.job] = "deleted")
    BY <1>1, LeaseStatus
  <2> QED
    BY <1>3, <2>1 DEF SameRow
<1> QED
  BY <1>2, <1>4, <1>5, <1>6, LeasesKept

\* The other steps of a worker give up leases or move them, but write no row,
\* except for the commit whose answer is lost.
LEMMA WorkerLeases ==
    ASSUME TypeInv, ClaimInv, LeaseInv, NEW w \in Workers, Worker(w)
    PROVE  LeaseInv'
<1>1. ASSUME UNCHANGED <<jobRow, leases, retries>>,
             Live' \subseteq Live, held' \cap running' = {}
      PROVE  LeaseInv'
  BY <1>1, LeasesKept DEF jobRow, SameRow
<1>2. ASSUME UNCHANGED <<jobRow, leases, retries, held, running>>
      PROVE  LeaseInv'
  BY <1>1, <1>2 DEF Live, LeaseInv
<1>3. CASE \/ ListQueues(w) \/ EndPass(w) \/ SelectRows(w)
           \/ \E q \in Queues : CountRunning(w, q)
           \/ CancelClaim(w) \/ AbortClaim(w)
           \/ Restart(w) \/ Stopped(w) \/ Shutdown(w)
  BY <1>2, <1>3 DEF ListQueues, EndPass, SelectRows, CountRunning, CancelClaim,
                    AbortClaim, Restart, Stopped, Shutdown, work
<1>4. CASE CommitClaim(w)
  BY <1>4, CommitLeases
<1>5. CASE StartJob(w)
  <2>1. PICK l \in LeasesOf(w, held) :
          held' = held \ {l} /\ running' = running \cup {l}
    BY <1>5 DEF StartJob
  <2>2. Live' \subseteq Live /\ held' \cap running' = {}
    BY <2>1 DEF Live, LeasesOf, LeaseInv
  <2> QED
    BY <1>1, <1>5, <2>2 DEF StartJob
<1>6. ASSUME NEW j \in Jobs, Finish(w, j)
      PROVE  LeaseInv'
  BY <1>6, OutcomeLeases DEF Finish
<1>7. ASSUME NEW l \in LeasesOf(w, running), LoseOutcome(l)
      PROVE  LeaseInv'
  BY <1>1, <1>7 DEF LoseOutcome, Finished, Live, LeaseInv
<1>8. CASE Crash(w)
  BY <1>1, <1>8 DEF Crash, Live, LeaseInv
<1>9. CASE CommitUnacknowledged(w)
  <2>1. MarkRunning(w) /\ UNCHANGED <<held, running, retries>>
    BY <1>9 DEF CommitUnacknowledged, work
  <2>2. /\ \A l \in Live : SameRow(l.job)
        /\ \A r \in retries : SameRow(r.job)
    BY <2>1, ClaimedRowsFree, LeaseStatus, MarkRunningOthers
  <2>3. Live' = Live /\ held' \cap running' = {}
    BY <2>1 DEF Live, LeaseInv
  <2> QED
    BY <2>1, <2>2, <2>3, LeasesKept DEF SameRow
<1> QED
  BY <1>3, <1>4, <1>5, <1>6, <1>7, <1>8, <1>9 DEF Worker, Dispatch, WorkerFault

\* The requests: a retry is read from a dead job only, and written back while
\* the job is still dead, because no other request can have retried it.
LEMMA RequestLeases ==
    ASSUME SafeLeases, TypeInv, LeaseInv, JobRequest
    PROVE  LeaseInv'
<1>1. ASSUME NEW j \in Jobs, status[j] \in {"absent", "pending", "scheduled"},
             \A k \in Jobs \ {j} : SameRow(k),
             UNCHANGED <<held, running, retries>>
      PROVE  LeaseInv'
  <2>1. \A l \in Live : SameRow(l.job)
    BY <1>1, LeaseStatus
  <2>2. \A r \in retries : SameRow(r.job)
    BY <1>1, LeaseStatus
  <2>3. Live' = Live /\ held' \cap running' = {}
    BY <1>1 DEF Live, LeaseInv
  <2> QED
    BY <1>1, <2>1, <2>2, <2>3, LeasesKept DEF SameRow
<1>2. ASSUME NEW j \in Jobs, NEW future \in BOOLEAN, Enqueue(j, future)
      PROVE  LeaseInv'
  BY <1>1, <1>2 DEF Enqueue, SameRow, work
<1>3. ASSUME NEW j \in Jobs, Cancel(j)
      PROVE  LeaseInv'
  BY <1>1, <1>3 DEF Cancel, Cancellable, SameRow, work
<1>4. ASSUME NEW c \in Retriers, NEW j \in Jobs, RetryRead(c, j)
      PROVE  LeaseInv'
  <2> DEFINE r == [client |-> c, job |-> j, attempt |-> attempts[j]]
  <2>1. retries' = retries \cup {r} /\ UNCHANGED <<jobRow, leases, held, running>>
    BY <1>4 DEF RetryRead, work
  <2>2. status[j] = "dead"
    BY <1>4 DEF RetryRead, TypeInv, TypeOK, Statuses
  <2>3. RequestsAlone'
    BY <1>4, <2>1 DEF RetryRead, LeaseInv, RequestsAlone
  <2>4. LeaseMatchesRow'
    BY <2>1, <2>2 DEF LeaseInv, LeaseMatchesRow, jobRow, Live
  <2> QED
    BY <2>1, <2>3, <2>4 DEF LeaseInv, jobRow, Live
<1>5. ASSUME NEW r \in retries, RetryWrite(r)
      PROVE  LeaseInv'
  <2>1. r.job \in Jobs /\ r.attempt \in Nat /\ r.client \in Retriers
    BY DEF Request, TypeInv, TypeOK
  <2>2. retries' = retries \ {r} /\ UNCHANGED <<leases, held, running>>
    BY <1>5 DEF RetryWrite, work
  <2>3. retries' = {}
    BY <2>1, <2>2 DEF SafeLeases, LeaseInv, RequestsAlone, Request, TypeInv, TypeOK
  <2>4. /\ \A k \in Jobs \ {r.job} : SameRow(k)
        /\ status[r.job] = "deleted" => status'[r.job] = "deleted"
    BY <1>5, <2>1, <2>2, UpdateOthers DEF RetryWrite, RetryCount
  <2>5. \A l \in Live : status'[l.job] = "deleted" \/ SameRow(l.job)
    <3> SUFFICES ASSUME NEW l \in Live
                 PROVE  status'[l.job] = "deleted" \/ SameRow(l.job)
      OBVIOUS
    <3>1. l.job \in Jobs /\ (l.job = r.job => status[r.job] = "deleted")
      BY LeaseStatus
    <3> QED
      BY <2>4, <3>1
  <2>6. Live' = Live /\ held' \cap running' = {}
    BY <2>2 DEF Live, LeaseInv
  <2> QED
    BY <2>3, <2>5, <2>6, LeasesKept
<1> QED
  BY <1>2, <1>3, <1>4, <1>5 DEF JobRequest

LEMMA TableLeases ==
    ASSUME SafeLeases, TypeInv, LeaseInv, Reclaim \/ Promote \/ QueueRequest \/ Time
    PROVE  LeaseInv'
<1>1. Live' = Live /\ held' \cap running' = {} /\ retries' = retries
  BY DEF Reclaim, Promote, QueueRequest, Pause, Resume, DeleteQueue, Time, BecomeDue,
         BecomeStale, OutliveTimeout, GrowStale, work, Live, LeaseInv
<1>2. ASSUME \A j \in Jobs : status[j] = "running" /\ ~stale[j]
                               => status'[j] = "deleted" \/ SameRow(j),
             \A j \in Jobs : status[j] = "deleted" => status'[j] = "deleted",
             \A j \in Jobs : status[j] = "dead" => status'[j] \in {"dead", "deleted"}
      PROVE  LeaseInv'
  <2>1. \A l \in Live : status'[l.job] = "deleted" \/ SameRow(l.job)
    BY <1>2, LeaseStatus DEF LeaseInv
  <2>2. \A r \in retries : status'[r.job] \in {status[r.job], "deleted"}
    BY <1>2, LeaseStatus
  <2> QED
    BY <1>1, <2>1, <2>2, LeasesKept
<1>3. CASE Reclaim
  BY <1>2, <1>3 DEF Reclaim, Reclaimable, SameRow
<1>4. CASE Promote
  BY <1>2, <1>4 DEF Promote, Promotable, SameRow
<1>5. ASSUME NEW q \in Queues, DeleteQueue(q)
      PROVE  LeaseInv'
  BY <1>2, <1>5 DEF DeleteQueue, SameRow
<1>6. ASSUME NEW q \in Queues, Pause(q) \/ Resume(q)
      PROVE  LeaseInv'
  BY <1>2, <1>6 DEF Pause, Resume, SameRow, jobRow
<1>7. ASSUME NEW j \in Jobs, BecomeDue(j)
      PROVE  LeaseInv'
  BY <1>2, <1>7 DEF BecomeDue, SameRow
<1>8. ASSUME NEW j \in Jobs, BecomeStale(j)
      PROVE  LeaseInv'
  <2>1. \A l \in Live : l.job # j /\ l.job \in Jobs
    BY <1>8, LeaseStatus DEF BecomeStale, InProgress
  <2>2. \A k \in Jobs \ {j} : SameRow(k)
    BY <1>8 DEF BecomeStale, GrowStale, SameRow
  <2>3. status' = status
    BY <1>8 DEF BecomeStale, GrowStale
  <2> QED
    BY <1>1, <2>1, <2>2, <2>3, LeasesKept
<1> QED
  BY <1>3, <1>4, <1>5, <1>6, <1>7, <1>8
     DEF QueueRequest, Time, OutliveTimeout, SafeLeases

LEMMA NextLeases ==
    SafeLeases /\ TypeInv /\ ClaimInv /\ LeaseInv /\ [Next]_vars => LeaseInv'
<1> SUFFICES ASSUME SafeLeases, TypeInv, ClaimInv, LeaseInv, [Next]_vars
             PROVE  LeaseInv'
  OBVIOUS
<1>1. CASE Next
  BY <1>1, WorkerLeases, RequestLeases, TableLeases DEF Next
<1>2. CASE UNCHANGED vars
  BY <1>2 DEF vars, jobRow, work, Live, LeaseInv, LeaseMatchesRow, RequestsAlone
<1> QED
  BY <1>1, <1>2

LEMMA LeaseInvariant == SafeLeases => (Spec => []LeaseInv)
<1> SUFFICES ASSUME SafeLeases
             PROVE  Spec => []LeaseInv
  OBVIOUS
<1>1. Init => TypeInv /\ ClaimInv /\ LeaseInv
  BY InitType DEF Init, ClaimInv, WaitingUnclaimed, ClaimExclusive,
                  LeaseInv, LeaseMatchesRow, RequestsAlone, Live
<1>2. TypeInv /\ ClaimInv /\ LeaseInv /\ [Next]_vars
        => (TypeInv /\ ClaimInv /\ LeaseInv)'
  BY NextType, NextClaims, NextLeases
<1> QED
  BY <1>1, <1>2, PTL DEF Spec

\* If no lease outlives the visibility timeout and manual retries are not made
\* concurrently, a job in progress is running in the table under the name of
\* its worker, by its last claim and with the attempt its executor has read.
THEOREM LeasesMatchRows == SafeLeases => (Spec => []LeaseMatchesRow)
<1> SUFFICES ASSUME SafeLeases
             PROVE  Spec => []LeaseMatchesRow
  OBVIOUS
<1>1. LeaseInv => LeaseMatchesRow
  BY DEF LeaseInv
<1> QED
  BY <1>1, LeaseInvariant, PTL

\* Under the same two conditions no job is ever executed twice at a time, for
\* any number of workers, jobs, queues, crashes and lost calls.
THEOREM ExecutionExclusive == SafeLeases => (Spec => []NoDuplicateExecution)
<1> SUFFICES ASSUME SafeLeases
             PROVE  Spec => []NoDuplicateExecution
  OBVIOUS
<1>1. LeaseInv => NoDuplicateExecution
  BY DEF LeaseInv, NoDuplicateExecution, Live
<1> QED
  BY <1>1, LeaseInvariant, PTL

(***************************************************************************)
(* The life cycle.  A retry writes back the attempts it has read, so the   *)
(* invariant must say that they are still those of the row.                *)
(***************************************************************************)
RequestInv ==
    \A r \in retries : status[r.job] # "deleted" => attempts[r.job] = r.attempt

Implements(j) ==
    RowState(j)' = RowState(j) \/ Lifecycle!Step(j, RowState(j), RowState(j)')

\* The state of a row that nobody is in charge of.
LEMMA NotBusy ==
    ASSUME NEW j \in Jobs, ~InProgress(j)'
    PROVE  RowState(j)' = [status |-> status'[j], attempts |-> attempts'[j], busy |-> FALSE]
<1>1. InProgress(j)' = FALSE
  BY Zenon DEF InProgress
<1> QED
  BY <1>1, Zenon DEF RowState

\* Leases may be given up, whatever the row is.
LEMMA SameImplements ==
    ASSUME NEW j \in Jobs, status'[j] = status[j], attempts'[j] = attempts[j],
           InProgress(j)' => InProgress(j)
    PROVE  Implements(j)
<1>1. CASE InProgress(j)' = InProgress(j)
  BY <1>1 DEF Implements, RowState
<1>2. CASE InProgress(j) /\ ~InProgress(j)'
  <2>1. RowState(j)' = [status |-> status[j], attempts |-> attempts[j], busy |-> FALSE]
    BY <1>2, NotBusy
  <2>2. RowState(j).status = status[j] /\ RowState(j).attempts = attempts[j]
        /\ RowState(j).busy
    BY <1>2 DEF RowState
  <2> QED
    BY <2>1, <2>2 DEF Implements, Lifecycle!Step, Lifecycle!Abandoned, Lifecycle!Ended
<1> QED
  BY <1>1, <1>2 DEF InProgress

\* A step that changes the status of a row and nothing else of it.
LEMMA BecomesImplements ==
    ASSUME NEW j \in Jobs, attempts'[j] = attempts[j], InProgress(j)' = InProgress(j),
           \/ status[j] = "absent" /\ status'[j] \in {"pending", "scheduled"}
           \/ status[j] = "scheduled" /\ status'[j] = "pending"
           \/ status[j] = "running" /\ ~InProgress(j) /\ status'[j] = "pending"
           \/ status[j] \in {"pending", "scheduled"} /\ status'[j] = "cancelled"
           \/ status[j] = "dead" /\ status'[j] = "pending"
           \/ status[j] \notin {"absent", "deleted"} /\ status'[j] = "deleted"
    PROVE  Implements(j)
<1>1. RowState(j)' = [RowState(j) EXCEPT !.status = status'[j]]
  BY DEF RowState
<1> QED
  BY <1>1 DEF Implements, Lifecycle!Step, Lifecycle!Becomes, Lifecycle!Created, RowState

\* A claim that is committed takes its rows.
LEMMA ClaimImplements ==
    ASSUME TypeInv, ClaimInv, LeaseInv, NEW w \in Workers, MarkRunning(w),
           \/ held' = held \cup {NewLease(w, j) : j \in rows[w]}
           \/ held' = held,
           running' = running, NEW j \in Jobs
    PROVE  Implements(j)
<1>1. CASE j \in rows[w]
  <2>1. status[j] = "pending" /\ status'[j] = "running" /\ attempts'[j] = attempts[j]
    BY <1>1 DEF ClaimInv, ClaimExclusive, MarkRunning
  <2>2. InProgress(j)' \in BOOLEAN
    BY DEF InProgress
  <2> QED
    BY <2>1, <2>2 DEF Implements, Lifecycle!Step, Lifecycle!Taken, RowState
<1>2. CASE j \notin rows[w]
  <2>1. status'[j] = status[j] /\ attempts'[j] = attempts[j]
    BY <1>2 DEF MarkRunning
  <2>2. InProgress(j)' = InProgress(j)
    BY <1>2 DEF InProgress, Live, NewLease
  <2> QED
    BY <2>1, <2>2, SameImplements
<1> QED
  BY <1>1, <1>2

\* An outcome is that of the execution in progress, with its own attempts.
LEMMA OutcomeImplements ==
    ASSUME TypeInv, LeaseInv, NEW w \in Workers, NEW l \in LeasesOf(w, running),
           Succeed(l) \/ Fail(l) \/ Die(l), NEW j \in Jobs
    PROVE  Implements(j)
<1>1. l \in running /\ l \in Live /\ l.job \in Jobs /\ l.attempt + 1 \in Nat
  BY DEF LeasesOf, Lease, Live, TypeInv, TypeOK
<1>2. running' = running \ {l} /\ UNCHANGED <<held, leases>>
  BY DEF Succeed, Fail, Die, Finished
<1>3. Live' = Live \ {l}
  BY <1>1, <1>2 DEF Live, LeaseInv
<1>4. InProgress(j)' => InProgress(j)
  BY <1>3 DEF InProgress
<1>5. CASE j # l.job \/ status[j] = "deleted"
  <2>1. CASE j # l.job
    <3>1. SameRow(j)
      BY <1>1, <1>2, <2>1, UpdateOthers DEF Succeed, Fail, Die
    <3> QED
      BY <1>4, <3>1, SameImplements DEF SameRow
  <2>2. CASE j = l.job /\ status[j] = "deleted"
    <3>1. status'[j] = status[j] /\ attempts'[j] = attempts[j]
      BY <2>2 DEF Succeed, Fail, Die, MarkSucceeded, MarkDead, ScheduleRetry, Set, Exists,
                  Statuses, TypeInv, TypeOK
    <3> QED
      BY <1>4, <3>1, SameImplements
  <2> QED
    BY <1>5, <2>1, <2>2
<1>6. CASE j = l.job /\ status[j] # "deleted"
  <2>1. status[j] = "running" /\ attempts[j] = l.attempt /\ InProgress(j)
    BY <1>1, <1>6 DEF LeaseInv, LeaseMatchesRow, InProgress
  <2>2. ~InProgress(j)'
    BY <1>1, <1>3, <1>6 DEF InProgress, LeaseInv
  <2>3. Exists(j)
    BY <2>1 DEF Exists, Statuses
  <2>4. CASE Succeed(l)
    <3>1. status'[j] = "succeeded" /\ attempts'[j] = attempts[j] /\ j \in Known
      BY <1>6, <2>3, <2>4 DEF Succeed, MarkSucceeded, Set, TypeInv, TypeOK
    <3>2. RowState(j)' = Lifecycle!Ended(RowState(j), "succeeded", attempts[j])
      BY <2>2, <3>1, NotBusy DEF Lifecycle!Ended
    <3> QED
      BY <2>1, <3>1, <3>2 DEF Implements, Lifecycle!Step, Lifecycle!Outcomes, RowState
  <2>5. CASE Fail(l)
    <3>1. status'[j] = "pending" /\ attempts'[j] = attempts[j] + 1
      BY <1>6, <2>1, <2>3, <2>5 DEF Fail, ScheduleRetry, Set, TypeInv, TypeOK
    <3>2. ~Lifecycle!LastTry(j, RowState(j))
      BY <1>6, <2>1, <2>5 DEF Fail, Exhausted, Lifecycle!LastTry, RowState
    <3>3. RowState(j)' = Lifecycle!Ended(RowState(j), "pending", attempts[j] + 1)
      BY <2>2, <3>1, NotBusy DEF Lifecycle!Ended
    <3> QED
      BY <2>1, <3>2, <3>3 DEF Implements, Lifecycle!Step, Lifecycle!Outcomes, RowState
  <2>6. CASE Die(l)
    <3>1. status'[j] = "dead" /\ attempts'[j] = attempts[j] + 1
      BY <1>6, <2>1, <2>3, <2>6 DEF Die, MarkDead, Set, TypeInv, TypeOK
    <3>2. Lifecycle!LastTry(j, RowState(j))
      BY <1>6, <2>1, <2>6 DEF Die, Exhausted, Lifecycle!LastTry, RowState
    <3>3. RowState(j)' = Lifecycle!Ended(RowState(j), "dead", attempts[j] + 1)
      BY <2>2, <3>1, NotBusy DEF Lifecycle!Ended
    <3> QED
      BY <2>1, <3>2, <3>3 DEF Implements, Lifecycle!Step, Lifecycle!Outcomes, RowState
  <2> QED
    BY <2>4, <2>5, <2>6
<1> QED
  BY <1>5, <1>6

LEMMA WorkerImplements ==
    ASSUME TypeInv, ClaimInv, LeaseInv, NEW w \in Workers, Worker(w), NEW j \in Jobs
    PROVE  Implements(j)
<1>1. ASSUME UNCHANGED jobRow, Live' \subseteq Live
      PROVE  Implements(j)
  BY <1>1, SameImplements DEF jobRow, InProgress
<1>2. CASE \/ ListQueues(w) \/ EndPass(w) \/ SelectRows(w)
           \/ \E q \in Queues : CountRunning(w, q)
           \/ CancelClaim(w) \/ AbortClaim(w)
           \/ Restart(w) \/ Stopped(w) \/ Shutdown(w)
  BY <1>1, <1>2 DEF ListQueues, EndPass, SelectRows, CountRunning, CancelClaim, AbortClaim,
                    Restart, Stopped, Shutdown, work, Live
<1>3. CASE CommitClaim(w)
  BY <1>3, ClaimImplements DEF CommitClaim
<1>4. CASE CommitUnacknowledged(w)
  BY <1>4, ClaimImplements DEF CommitUnacknowledged, work
<1>5. CASE StartJob(w)
  BY <1>1, <1>5 DEF StartJob, Live, LeasesOf
<1>6. ASSUME NEW k \in Jobs, Finish(w, k)
      PROVE  Implements(j)
  BY <1>6, OutcomeImplements DEF Finish
<1>7. ASSUME NEW l \in LeasesOf(w, running), LoseOutcome(l)
      PROVE  Implements(j)
  BY <1>1, <1>7 DEF LoseOutcome, Finished, Live
<1>8. CASE Crash(w)
  BY <1>1, <1>8 DEF Crash, Live
<1> QED
  BY <1>2, <1>3, <1>4, <1>5, <1>6, <1>7, <1>8 DEF Worker, Dispatch, WorkerFault

LEMMA TableImplements ==
    ASSUME SafeLeases, TypeInv, LeaseInv, RequestInv,
           Reclaim \/ Promote \/ JobRequest \/ QueueRequest \/ Time, NEW j \in Jobs
    PROVE  Implements(j)
<1>1. InProgress(j)' = InProgress(j)
  BY DEF Reclaim, Promote, JobRequest, Enqueue, Cancel, RetryRead, RetryWrite, QueueRequest,
         Pause, Resume, DeleteQueue, Time, BecomeDue, BecomeStale, OutliveTimeout, GrowStale,
         work, InProgress, Live
<1>2. ASSUME status'[j] = status[j], attempts'[j] = attempts[j]
      PROVE  Implements(j)
  BY <1>1, <1>2, SameImplements
<1>3. CASE Reclaim
  <2>1. Reclaimable(j) => ~InProgress(j)
    BY DEF LeaseInv, Reclaimable, InProgress
  <2> QED
    BY <1>1, <1>2, <1>3, <2>1, BecomesImplements DEF Reclaim, Reclaimable
<1>4. CASE Promote
  BY <1>1, <1>2, <1>4, BecomesImplements DEF Promote, Promotable
<1>5. ASSUME NEW k \in Jobs, NEW future \in BOOLEAN, Enqueue(k, future)
      PROVE  Implements(j)
  <2>1. attempts' = attempts /\ (k # j => status'[j] = status[j])
    BY <1>5 DEF Enqueue
  <2>2. k = j => status[j] = "absent" /\ status'[j] \in {"pending", "scheduled"}
    BY <1>5 DEF Enqueue, TypeInv, TypeOK
  <2> QED
    BY <1>1, <1>2, <2>1, <2>2, BecomesImplements
<1>6. ASSUME NEW k \in Jobs, Cancel(k)
      PROVE  Implements(j)
  <2>1. attempts' = attempts /\ (k # j => status'[j] = status[j])
    BY <1>6 DEF Cancel
  <2>2. k = j => status[j] \in {"pending", "scheduled"} /\ status'[j] = "cancelled"
    BY <1>6 DEF Cancel, Cancellable, TypeInv, TypeOK
  <2> QED
    BY <1>1, <1>2, <2>1, <2>2, BecomesImplements
<1>7. ASSUME NEW c \in Retriers, NEW k \in Jobs, RetryRead(c, k)
      PROVE  Implements(j)
  BY <1>2, <1>7 DEF RetryRead, jobRow
<1>8. ASSUME NEW r \in retries, RetryWrite(r)
      PROVE  Implements(j)
  <2>1. r.job \in Jobs /\ status[r.job] \in {"dead", "deleted"}
    BY LeaseStatus
  <2>2. CASE r.job # j \/ status[j] = "deleted"
    <3>1. status'[j] = status[j] /\ attempts'[j] = attempts[j]
      BY <1>8, <2>1, <2>2 DEF RetryWrite, ScheduleRetry, Set, Exists, Statuses, TypeInv, TypeOK
    <3> QED
      BY <1>2, <3>1
  <2>3. CASE r.job = j /\ status[j] = "dead"
    <3>1. Exists(j) /\ attempts[j] = r.attempt
      BY <2>3 DEF Exists, Statuses, RequestInv
    <3>2. status'[j] = "pending" /\ attempts'[j] = attempts[j]
      BY <1>8, <2>3, <3>1 DEF RetryWrite, RetryCount, ScheduleRetry, Set, TypeInv, TypeOK
    <3> QED
      BY <1>1, <2>3, <3>2, BecomesImplements
  <2> QED
    BY <2>1, <2>2, <2>3
<1>9. ASSUME NEW q \in Queues, DeleteQueue(q)
      PROVE  Implements(j)
  <2>1. attempts' = attempts
    BY <1>9 DEF DeleteQueue
  <2>2. \/ status'[j] = status[j]
        \/ status[j] \notin {"absent", "deleted"} /\ status'[j] = "deleted"
    BY <1>9 DEF DeleteQueue, Exists, Statuses
  <2> QED
    BY <1>1, <1>2, <2>1, <2>2, BecomesImplements
<1>10. ASSUME NEW q \in Queues, Pause(q) \/ Resume(q)
       PROVE  Implements(j)
  BY <1>2, <1>10 DEF Pause, Resume, jobRow
<1>11. CASE Time
  BY <1>2, <1>11 DEF Time, BecomeDue, BecomeStale, OutliveTimeout, GrowStale
<1> QED
  BY <1>3, <1>4, <1>5, <1>6, <1>7, <1>8, <1>9, <1>10, <1>11 DEF JobRequest, QueueRequest

LifeInv == TypeInv /\ ClaimInv /\ LeaseInv /\ RequestInv

LEMMA NextImplements ==
    ASSUME SafeLeases, LifeInv, [Next]_vars
    PROVE  \A j \in Jobs : Implements(j)
<1> SUFFICES ASSUME NEW j \in Jobs
             PROVE  Implements(j)
  OBVIOUS
<1>1. CASE Next
  BY <1>1, WorkerImplements, TableImplements DEF Next, LifeInv
<1>2. CASE UNCHANGED vars
  BY <1>2, SameImplements DEF vars, jobRow, work, InProgress, Live
<1> QED
  BY <1>1, <1>2

\* What a step of the life cycle says of the row, field by field.
LEMMA ImplementsRow ==
    ASSUME TypeInv, NEW j \in Jobs, Implements(j)
    PROVE  /\ \/ status'[j] = status[j] /\ attempts'[j] = attempts[j]
              \/ /\ status[j] # "dead" /\ attempts'[j] = attempts[j] + 1
                 /\ status'[j] = "dead" => j \notin Known \/ attempts'[j] >= MaxRetries
                 /\ status[j] = "running"
              \/ status'[j] # status[j] /\ status'[j] # "dead" /\ attempts'[j] = attempts[j]
           /\ status[j] \in Terminal =>
                 \/ status'[j] \in {status[j], "deleted"}
                 \/ status[j] = "dead" /\ status'[j] = "pending"
           /\ status[j] = "deleted" => status'[j] = "deleted"
<1> DEFINE x == RowState(j)
           y == RowState(j)'
<1>1. /\ x.status = status[j] /\ x.attempts = attempts[j]
      /\ y.status = status'[j] /\ y.attempts = attempts'[j]
  BY DEF RowState
<1>2. attempts[j] \in Nat
  BY DEF TypeInv, TypeOK
<1>3. CASE y = x
  BY <1>1, <1>3
<1>4. CASE x.status = "running" /\ y \in Lifecycle!Outcomes(j, x)
  <2>1. CASE y = Lifecycle!Ended(x, "succeeded", x.attempts)
    BY <1>1, <1>4, <2>1 DEF Lifecycle!Ended, Terminal
  <2>2. CASE y = Lifecycle!Ended(x, IF Lifecycle!LastTry(j, x) THEN "dead" ELSE "pending",
                                 x.attempts + 1)
    BY <1>1, <1>2, <1>4, <2>2 DEF Lifecycle!Ended, Lifecycle!LastTry, Terminal
  <2> QED
    BY <1>4, <2>1, <2>2 DEF Lifecycle!Outcomes
<1>5. ASSUME y = Lifecycle!Abandoned(x)
      PROVE  status'[j] = status[j] /\ attempts'[j] = attempts[j]
  BY <1>1, <1>5 DEF Lifecycle!Abandoned, Lifecycle!Ended
<1>6. ASSUME NEW s, y = Lifecycle!Becomes(x, s)
      PROVE  status'[j] = s /\ attempts'[j] = attempts[j]
  BY <1>1, <1>6 DEF Lifecycle!Becomes, RowState
<1>7. ASSUME y \in Lifecycle!Taken(x)
      PROVE  status'[j] = "running" /\ attempts'[j] = attempts[j]
  BY <1>1, <1>7 DEF Lifecycle!Taken
<1> HIDE DEF x, y
<1>8. CASE Lifecycle!Step(j, x, y)
  BY <1>1, <1>4, <1>5, <1>6, <1>7, <1>8 DEF Lifecycle!Step, Lifecycle!Created, Terminal
<1> QED
  BY <1>3, <1>8 DEF Implements, x, y

LEMMA NextRequests ==
    SafeLeases /\ LifeInv /\ [Next]_vars => RequestInv'
<1> SUFFICES ASSUME SafeLeases, LifeInv, [Next]_vars,
                    NEW r \in retries', status'[r.job] # "deleted"
             PROVE  attempts'[r.job] = r.attempt
  BY DEF RequestInv
<1>1. CASE r \in retries
  <2>1. r.job \in Jobs /\ status[r.job] \in {"dead", "deleted"}
    BY <1>1, LeaseStatus DEF LifeInv
  <2>2. attempts'[r.job] = attempts[r.job] /\ status[r.job] # "deleted"
    BY <2>1, NextImplements, ImplementsRow DEF LifeInv
  <2> QED
    BY <1>1, <2>2 DEF LifeInv, RequestInv
<1>2. CASE r \notin retries
  <2>1. PICK c \in Retriers, j \in Jobs : RetryRead(c, j)
    BY <1>2 DEF Next, vars, Worker, Dispatch, ListQueues, EndPass, CountRunning, SelectRows,
                CommitClaim, CancelClaim, StartJob, Finish, Succeed, Fail, Die, Finished,
                Restart, Stopped, WorkerFault, CommitUnacknowledged, AbortClaim, LoseOutcome,
                Crash, Shutdown, Reclaim, Promote, JobRequest, Enqueue, Cancel, RetryWrite,
                QueueRequest, Pause, Resume, DeleteQueue, Time, BecomeDue, BecomeStale,
                OutliveTimeout, GrowStale
  <2>2. r.job = j /\ r.attempt = attempts[j] /\ attempts' = attempts
    BY <1>2, <2>1 DEF RetryRead, jobRow
  <2> QED
    BY <2>2
<1> QED
  BY <1>1, <1>2

LEMMA LifeInvariant == SafeLeases => (Spec => []LifeInv)
<1> SUFFICES ASSUME SafeLeases
             PROVE  Spec => []LifeInv
  OBVIOUS
<1>1. Init => LifeInv
  BY InitType DEF Init, ClaimInv, WaitingUnclaimed, ClaimExclusive, LeaseInv,
                  LeaseMatchesRow, RequestsAlone, Live, LifeInv, RequestInv
<1>2. LifeInv /\ [Next]_vars => LifeInv'
  BY NextType, NextClaims, NextLeases, NextRequests DEF LifeInv
<1> QED
  BY <1>1, <1>2, PTL DEF Spec

\* The table, the workers, the API and the clock together implement the life
\* cycle of a job that module JobLifecycle states, under safe leases.
THEOREM LifecycleImplemented == SafeLeases => (Spec => ImplementsLifecycle)
<1> SUFFICES ASSUME SafeLeases
             PROVE  Spec => ImplementsLifecycle
  OBVIOUS
<1>1. Init => Lifecycle!Init
  BY DEF Init, Lifecycle!Init, Lifecycle!New, RowState, InProgress, Live
<1>2. LifeInv /\ [Next]_vars
        => [Lifecycle!Next]_[j \in Jobs |-> RowState(j)]
  <2> SUFFICES ASSUME LifeInv, [Next]_vars
               PROVE  Lifecycle!Next
    OBVIOUS
  <2>1. \A j \in Jobs : Implements(j)
    BY NextImplements
  <2> QED
    BY <2>1 DEF Lifecycle!Next, Implements
<1> QED
  BY <1>1, <1>2, LifeInvariant, PTL DEF Spec, ImplementsLifecycle, Lifecycle!Spec

\* Under safe leases the count of attempts never goes back (ScheduleRetry writes
\* the number its caller has read some time before).
THEOREM AttemptsKept == SafeLeases => (Spec => AttemptsNeverLost)
<1> SUFFICES ASSUME SafeLeases
             PROVE  Spec => AttemptsNeverLost
  OBVIOUS
<1>1. LifeInv /\ [Next]_vars =>
        [\A j \in Jobs : status'[j] # "deleted" => attempts'[j] >= attempts[j]]_vars
  <2> SUFFICES ASSUME LifeInv, [Next]_vars, NEW j \in Jobs
               PROVE  attempts'[j] >= attempts[j]
    OBVIOUS
  <2>1. attempts[j] \in Nat /\ attempts'[j] \in {attempts[j], attempts[j] + 1}
    BY NextImplements, ImplementsRow DEF LifeInv, TypeInv, TypeOK
  <2> QED
    BY <2>1
<1> QED
  BY <1>1, LifeInvariant, PTL DEF Spec, AttemptsNeverLost

\* Under safe leases a job is dead only after its attempts are used up, or for
\* want of a handler (the executor decides by the attempts it read at the claim).
THEOREM DeadExhausted == SafeLeases => (Spec => []DeadOnlyWhenExhausted)
<1> SUFFICES ASSUME SafeLeases
             PROVE  Spec => []DeadOnlyWhenExhausted
  OBVIOUS
<1>1. Init => DeadOnlyWhenExhausted
  BY DEF Init, DeadOnlyWhenExhausted
<1>2. LifeInv /\ DeadOnlyWhenExhausted /\ [Next]_vars => DeadOnlyWhenExhausted'
  <2> SUFFICES ASSUME LifeInv, DeadOnlyWhenExhausted, [Next]_vars,
                      NEW j \in Jobs, status'[j] = "dead"
               PROVE  j \notin Known \/ attempts'[j] >= MaxRetries
    BY DEF DeadOnlyWhenExhausted
  <2> QED
    BY NextImplements, ImplementsRow DEF LifeInv, DeadOnlyWhenExhausted
<1> QED
  BY <1>1, <1>2, LifeInvariant, PTL DEF Spec

\* Only a manual retry brings a dead job back.
LEMMA DeadRevived ==
    ASSUME LifeInv, [Next]_vars, NEW j \in Jobs, status[j] = "dead", status'[j] = "pending"
    PROVE  \E r \in retries \ retries' : r.job = j
<1>1. ASSUME NEW w \in Workers, Worker(w)
      PROVE  FALSE
  <2>1. ASSUME NEW l \in LeasesOf(w, running), Succeed(l) \/ Fail(l) \/ Die(l)
        PROVE  status'[j] = status[j]
    <3>1. l \in Live /\ l.job \in Jobs /\ l.attempt + 1 \in Nat
      BY DEF LifeInv, LeasesOf, Lease, Live, TypeInv, TypeOK
    <3>2. l.job # j
      BY <3>1, LeaseStatus DEF LifeInv
    <3>3. UNCHANGED leases
      BY <2>1 DEF Succeed, Fail, Die, Finished
    <3> QED
      BY <2>1, <3>1, <3>2, <3>3, UpdateOthers DEF Succeed, Fail, Die, SameRow, LifeInv
  <2>2. MarkRunning(w) => status'[j] = status[j] \/ status'[j] = "running"
    BY DEF MarkRunning
  <2> QED
    BY <1>1, <2>1, <2>2 DEF Worker, Dispatch, ListQueues, EndPass, CountRunning, SelectRows,
         CommitClaim, CancelClaim, StartJob, Finish, Restart, Stopped, WorkerFault,
         CommitUnacknowledged, AbortClaim, LoseOutcome, Crash, Shutdown, jobRow
<1>2. CASE Reclaim \/ Promote \/ QueueRequest \/ Time \/ UNCHANGED vars
  BY <1>2 DEF Reclaim, Reclaimable, Promote, Promotable, QueueRequest, Pause, Resume,
       DeleteQueue, Time, BecomeDue, BecomeStale, OutliveTimeout, GrowStale, vars, jobRow
<1>3. ASSUME NEW r \in retries, RetryWrite(r)
      PROVE  r \in retries \ retries' /\ r.job = j
  BY <1>3 DEF RetryWrite, ScheduleRetry, Set, LifeInv, TypeInv, TypeOK
<1>4. CASE \/ \E k \in Jobs : Cancel(k) \/ \E future \in BOOLEAN : Enqueue(k, future)
           \/ \E c \in Retriers, k \in Jobs : RetryRead(c, k)
  BY <1>4 DEF Cancel, Enqueue, RetryRead, jobRow, LifeInv, TypeInv, TypeOK
<1> QED
  BY <1>1, <1>2, <1>3, <1>4 DEF Next, JobRequest

\* Under safe leases terminal states are final: whatever an executor, a reaper, a
\* cancellation or a retry had read before, it does not overwrite one.
THEOREM TerminalKept == SafeLeases => (Spec => TerminalFinal)
<1> SUFFICES ASSUME SafeLeases
             PROVE  Spec => TerminalFinal
  OBVIOUS
<1>1. LifeInv /\ [Next]_vars =>
        [\A j \in Jobs : status[j] \in Terminal =>
           \/ status'[j] \in {status[j], "deleted"}
           \/ status[j] = "dead" /\ \E r \in retries \ retries' : r.job = j]_vars
  <2> SUFFICES ASSUME LifeInv, [Next]_vars, NEW j \in Jobs, status[j] \in Terminal
               PROVE  \/ status'[j] \in {status[j], "deleted"}
                      \/ status[j] = "dead" /\ \E r \in retries \ retries' : r.job = j
    OBVIOUS
  <2>1. \/ status'[j] \in {status[j], "deleted"}
        \/ status[j] = "dead" /\ status'[j] = "pending"
    BY NextImplements, ImplementsRow DEF LifeInv
  <2> QED
    BY <2>1, DeadRevived
<1> QED
  BY <1>1, LifeInvariant, PTL DEF Spec, TerminalFinal

(***************************************************************************)
(* The limit of a queue.  What counts against it is not only what runs but *)
(* also what has been granted: the budgets of the claims that have counted *)
(* and not committed yet.  A count sees the running jobs but not the other *)
(* grants, so what is running and granted together is bounded by the limit *)
(* and one batch for each of the other workers.  The grants are counted as *)
(* a set of pairs: the i-th job that w may claim.                          *)
(***************************************************************************)
Batch(q) == Smaller(Concurrency[q], BatchSize)

Grants(c, b, q) ==
    {p \in Workers \X (1..Batch(q)) : c[p[1]] = q /\ p[2] <= b[p[1]]}

Running(s, q) == {j \in Jobs : QueueOf[j] = q /\ s[j] = "running"}

\* What a claim has locked.
LocksOK(at, c, b, locked) ==
    /\ at # "locked" => locked = {}
    /\ \A j \in locked : QueueOf[j] = c
    /\ Cardinality(locked) <= b

GrantInv ==
    /\ \A w \in Workers : LocksOK(pc[w], cur[w], budget[w], rows[w])
    /\ \A w \in Workers, q \in Queues : cur[w] = q => budget[w] <= Batch(q)
    /\ \A q \in Queues :
         Cardinality(Running(status, q)) + Cardinality(Grants(cur, budget, q)) <=
             Concurrency[q] + (Cardinality(Workers) - 1) * Batch(q)

LEMMA BatchType ==
    ASSUME NEW q \in Queues
    PROVE  Batch(q) \in Nat /\ Batch(q) <= Concurrency[q] /\ Concurrency[q] \in Nat
BY ConstantsAssumption DEF Batch, Smaller

LEMMA RunningCount ==
    ASSUME NEW s, NEW q
    PROVE  IsFiniteSet(Running(s, q)) /\ Cardinality(Running(s, q)) \in Nat
BY ConstantsAssumption, FS_Subset, FS_CardinalityType DEF Running

LEMMA IntervalCount ==
    ASSUME NEW n \in Nat
    PROVE  IsFiniteSet(1..n) /\ Cardinality(1..n) = n
<1>1. IsFiniteSet(1..n) /\ Cardinality(1..n) = IF 1 > n THEN 0 ELSE n - 1 + 1
  BY FS_Interval
<1>2. (IF 1 > n THEN 0 ELSE n - 1 + 1) = n
  OBVIOUS
<1> QED
  BY <1>1, <1>2

LEMMA GrantCount ==
    ASSUME NEW c, NEW b, NEW q \in Queues
    PROVE  IsFiniteSet(Grants(c, b, q)) /\ Cardinality(Grants(c, b, q)) \in Nat
<1>1. IsFiniteSet(1..Batch(q)) /\ IsFiniteSet(Workers)
  BY BatchType, FS_Interval, ConstantsAssumption
<1>2. IsFiniteSet(Workers \X (1..Batch(q)))
  BY <1>1, FS_Product
<1>3. Grants(c, b, q) \subseteq Workers \X (1..Batch(q))
  BY DEF Grants
<1> QED
  BY <1>2, <1>3, FS_Subset, FS_CardinalityType

\* The grants of one worker, and those of all the others.
OwnGrants(c, b, q, w) == {p \in Grants(c, b, q) : p[1] = w}
OtherGrants(c, b, q, w) == {p \in Grants(c, b, q) : p[1] # w}

LEMMA GrantsSplit ==
    ASSUME NEW c, NEW b, NEW q \in Queues, NEW w
    PROVE  /\ Cardinality(OwnGrants(c, b, q, w)) \in Nat
           /\ Cardinality(OtherGrants(c, b, q, w)) \in Nat
           /\ Cardinality(Grants(c, b, q)) =
                Cardinality(OwnGrants(c, b, q, w)) + Cardinality(OtherGrants(c, b, q, w))
<1> DEFINE own == OwnGrants(c, b, q, w)
           other == OtherGrants(c, b, q, w)
<1>1. own \subseteq Grants(c, b, q) /\ other \subseteq Grants(c, b, q)
  BY DEF OwnGrants, OtherGrants
<1>2. /\ IsFiniteSet(own) /\ Cardinality(own) \in Nat
      /\ IsFiniteSet(other) /\ Cardinality(other) \in Nat
  BY <1>1, GrantCount, FS_Subset, FS_CardinalityType
<1>3. own \cap other = {} /\ Grants(c, b, q) = own \cup other
  BY DEF OwnGrants, OtherGrants
<1>4. Cardinality(own \cap other) = 0
  BY <1>3, FS_EmptySet
<1>5. Cardinality(own \cup other) =
        Cardinality(own) + Cardinality(other) - Cardinality(own \cap other)
  BY <1>2, FS_Union
<1> QED
  BY <1>2, <1>3, <1>4, <1>5

LEMMA OwnCount ==
    ASSUME NEW c, NEW b, NEW q \in Queues, NEW w \in Workers,
           c[w] = q, b[w] \in Nat, b[w] <= Batch(q)
    PROVE  Cardinality(OwnGrants(c, b, q, w)) = b[w]
<1>1. OwnGrants(c, b, q, w) = {w} \X (1..b[w])
  <2>1. ASSUME NEW p \in OwnGrants(c, b, q, w)
        PROVE  p \in {w} \X (1..b[w])
    BY <2>1, BatchType DEF OwnGrants, Grants
  <2>2. ASSUME NEW p \in {w} \X (1..b[w])
        PROVE  p \in OwnGrants(c, b, q, w)
    BY <2>2, BatchType DEF OwnGrants, Grants
  <2> QED
    BY <2>1, <2>2
<1>2. IsFiniteSet({w}) /\ Cardinality({w}) = 1
  BY FS_Singleton
<1>3. IsFiniteSet(1..b[w]) /\ Cardinality(1..b[w]) = b[w]
  BY IntervalCount
<1>4. Cardinality({w} \X (1..b[w])) = Cardinality({w}) * Cardinality(1..b[w])
  BY <1>2, <1>3, FS_Product
<1> QED
  BY <1>1, <1>2, <1>3, <1>4

LEMMA OthersCount ==
    ASSUME NEW c, NEW b, NEW q \in Queues, NEW w \in Workers
    PROVE  Cardinality(OtherGrants(c, b, q, w)) <= (Cardinality(Workers) - 1) * Batch(q)
<1> DEFINE others == Workers \ {w}
           batch == 1..Batch(q)
<1>1. IsFiniteSet(others) /\ Cardinality(others) = Cardinality(Workers) - 1
  BY ConstantsAssumption, FS_RemoveElement
<1>2. IsFiniteSet(batch) /\ Cardinality(batch) = Batch(q)
  BY IntervalCount, BatchType
<1>3. OtherGrants(c, b, q, w) \subseteq others \X batch
  BY DEF OtherGrants, Grants
<1> HIDE DEF others, batch
<1>4. /\ IsFiniteSet(others \X batch)
      /\ Cardinality(others \X batch) = Cardinality(others) * Cardinality(batch)
  BY <1>1, <1>2, FS_Product
<1>5. Cardinality(OtherGrants(c, b, q, w)) <= Cardinality(others \X batch)
  BY <1>3, <1>4, FS_Subset
<1> QED
  BY <1>1, <1>2, <1>4, <1>5

LEMMA NoLocks ==
    ASSUME NEW at, NEW c, NEW b \in Nat
    PROVE  LocksOK(at, c, b, {})
BY FS_EmptySet DEF LocksOK

LEMMA InitGrants == Init => GrantInv
<1> SUFFICES ASSUME Init
             PROVE  GrantInv
  OBVIOUS
<1>1. \A w \in Workers : rows[w] = {} /\ budget[w] = 0 /\ cur[w] = None
  BY DEF Init
<1>2. \A q \in Queues : budget \in [Workers -> Nat] /\ cur \in [Workers -> {None}] /\ q # None
  BY ConstantsAssumption DEF Init
<1>3. ASSUME NEW q \in Queues
      PROVE  Cardinality(Running(status, q)) + Cardinality(Grants(cur, budget, q)) <=
                 Concurrency[q] + (Cardinality(Workers) - 1) * Batch(q)
  <2>1. Running(status, q) = {} /\ Grants(cur, budget, q) = {}
    BY <1>1, <1>2 DEF Running, Grants, Init
  <2>2. Cardinality(Running(status, q)) = 0 /\ Cardinality(Grants(cur, budget, q)) = 0
    BY <2>1, FS_EmptySet
  <2>3. Cardinality(Workers) \in Nat
    BY ConstantsAssumption, FS_CardinalityType
  <2>4. CASE Cardinality(Workers) = 0
    <3>1. (Cardinality(Workers) - 1) * Batch(q) = -Batch(q)
      BY <2>4, BatchType
    <3> QED
      BY <2>2, <3>1, BatchType
  <2>5. CASE Cardinality(Workers) # 0
    <3>1. Cardinality(Workers) - 1 \in Nat
      BY <2>3, <2>5
    <3>2. (Cardinality(Workers) - 1) * Batch(q) \in Nat
      BY <3>1, BatchType
    <3> QED
      BY <2>2, <3>2, BatchType
  <2> QED
    BY <2>4, <2>5
<1>4. \A w \in Workers : LocksOK(pc[w], cur[w], budget[w], rows[w])
  BY <1>1, NoLocks
<1> QED
  BY <1>1, <1>2, <1>3, <1>4 DEF GrantInv

\* A step that starts no job in a queue and grants nothing keeps the bound.
LEMMA LimitKept ==
    ASSUME GrantInv, NEW q \in Queues,
           Running(status', q) \subseteq Running(status, q),
           Grants(cur', budget', q) \subseteq Grants(cur, budget, q)
    PROVE  Cardinality(Running(status', q)) + Cardinality(Grants(cur', budget', q)) <=
               Concurrency[q] + (Cardinality(Workers) - 1) * Batch(q)
<1> DEFINE limit == Concurrency[q] + (Cardinality(Workers) - 1) * Batch(q)
<1>1. Cardinality(Running(status', q)) <= Cardinality(Running(status, q))
  BY RunningCount, FS_Subset
<1>2. Cardinality(Grants(cur', budget', q)) <= Cardinality(Grants(cur, budget, q))
  BY GrantCount, FS_Subset
<1>3. Cardinality(Running(status, q)) + Cardinality(Grants(cur, budget, q)) <= limit
  BY DEF GrantInv
<1>4. limit \in Int
  BY BatchType, ConstantsAssumption, FS_CardinalityType
<1>5. /\ Cardinality(Running(status', q)) \in Nat /\ Cardinality(Running(status, q)) \in Nat
      /\ Cardinality(Grants(cur', budget', q)) \in Nat
      /\ Cardinality(Grants(cur, budget, q)) \in Nat
  BY RunningCount, GrantCount
<1> HIDE DEF limit
<1>6. Cardinality(Running(status', q)) + Cardinality(Grants(cur', budget', q)) <= limit
  BY <1>1, <1>2, <1>3, <1>4, <1>5
<1> QED
  BY <1>6 DEF limit

\* The steps that neither open a claim nor commit one.
LEMMA GrantsKept ==
    ASSUME TypeInv, TypeInv', GrantInv,
           \A j \in Jobs : status'[j] = "running" => status[j] = "running",
           \A w \in Workers :
               \/ /\ cur'[w] = cur[w] /\ budget'[w] = budget[w] /\ rows'[w] = rows[w]
                  /\ pc'[w] # "locked" => pc[w] # "locked"
               \/ cur'[w] = None /\ rows'[w] = {}
    PROVE  GrantInv'
<1>1. \A w \in Workers : budget'[w] \in Nat
  BY DEF TypeInv, TypeOK
<1>2. \A w \in Workers :
        LocksOK(pc'[w], cur'[w], budget'[w], rows'[w])
  <2> SUFFICES ASSUME NEW w \in Workers
               PROVE  LocksOK(pc'[w], cur'[w], budget'[w], rows'[w])
    OBVIOUS
  <2>1. CASE rows'[w] = {}
    BY <1>1, <2>1, NoLocks
  <2>2. CASE rows'[w] # {}
    <3>1. /\ cur'[w] = cur[w] /\ budget'[w] = budget[w] /\ rows'[w] = rows[w]
          /\ pc'[w] # "locked" => pc[w] # "locked"
      BY <2>2
    <3>2. LocksOK(pc[w], cur[w], budget[w], rows[w])
      BY DEF GrantInv
    <3> QED
      BY <3>1, <3>2 DEF LocksOK
  <2> QED
    BY <2>1, <2>2
<1>3. \A w \in Workers, q \in Queues : cur'[w] = q => cur[w] = q /\ budget'[w] = budget[w]
  BY ConstantsAssumption
<1>4. ASSUME NEW q \in Queues
      PROVE  Cardinality(Running(status', q)) + Cardinality(Grants(cur', budget', q)) <=
                 Concurrency[q] + (Cardinality(Workers) - 1) * Batch(q)
  <2>1. Running(status', q) \subseteq Running(status, q)
    BY DEF Running
  <2>2. Grants(cur', budget', q) \subseteq Grants(cur, budget, q)
    <3> SUFFICES ASSUME NEW p \in Grants(cur', budget', q)
                 PROVE  p \in Grants(cur, budget, q)
      OBVIOUS
    <3>1. /\ p[1] \in Workers /\ cur'[p[1]] = q /\ p[2] <= budget'[p[1]]
          /\ p \in Workers \X (1..Batch(q))
      BY DEF Grants
    <3> QED
      BY <3>1, <1>3 DEF Grants
  <2> QED
    BY <2>1, <2>2, LimitKept
<1>5. \A w \in Workers, q \in Queues : cur'[w] = q => budget'[w] <= Batch(q)
  BY <1>3 DEF GrantInv
<1> QED
  BY <1>2, <1>4, <1>5 DEF GrantInv

\* A worker counts and is granted what the limit leaves over the running jobs.
LEMMA CountGrants ==
    ASSUME TypeInv, TypeInv', GrantInv, NEW w \in Workers, NEW r \in Queues,
           CountRunning(w, r)
    PROVE  GrantInv'
<1>1. CASE Budget(w, r) <= 0
  BY <1>1, GrantsKept DEF CountRunning, jobRow
<1>2. CASE ~(Budget(w, r) <= 0)
  <2>1. /\ status' = status /\ rows' = rows /\ rows[w] = {}
        /\ \A v \in Workers \ {w} :
             pc'[v] = pc[v] /\ cur'[v] = cur[v] /\ budget'[v] = budget[v]
        /\ cur'[w] = r /\ budget'[w] = Budget(w, r) /\ budget'[w] \in Nat
    BY <1>2 DEF CountRunning, jobRow, TypeInv, TypeOK, GrantInv, LocksOK
  <2>2. /\ AvailableWorkers(w) \in Int
        /\ Cardinality(Running(status, r)) \in Nat
        /\ Running(status, r) = RunningIn(r)
    <3>1. AvailableWorkers(w) \in Int
      BY CountLeases, ConstantsAssumption DEF TypeInv, AvailableWorkers
    <3>2. Cardinality(Running(status, r)) \in Nat
      BY RunningCount
    <3>3. Running(status, r) = RunningIn(r)
      BY DEF Running, RunningIn
    <3> QED
      BY <3>1, <3>2, <3>3
  <2>3. /\ budget'[w] <= Batch(r)
        /\ budget'[w] + Cardinality(Running(status, r)) <= Concurrency[r]
    BY <2>1, <2>2, ConstantsAssumption DEF Budget, Smaller, Batch
  <2>4. ASSUME NEW q \in Queues
        PROVE  Cardinality(Running(status', q)) + Cardinality(Grants(cur', budget', q)) <=
                   Concurrency[q] + (Cardinality(Workers) - 1) * Batch(q)
    <3>1. CASE q = r
      <4> DEFINE more == (Cardinality(Workers) - 1) * Batch(r)
      <4>1. Cardinality(OwnGrants(cur', budget', r, w)) = budget'[w]
        BY <2>1, <2>3, OwnCount
      <4>2. Cardinality(OtherGrants(cur', budget', r, w)) <= more
        BY OthersCount
      <4>3. /\ Cardinality(OtherGrants(cur', budget', r, w)) \in Nat
            /\ Cardinality(Grants(cur', budget', r)) =
                 Cardinality(OwnGrants(cur', budget', r, w))
                   + Cardinality(OtherGrants(cur', budget', r, w))
        BY GrantsSplit
      <4>4. more \in Int /\ Concurrency[r] \in Nat
        BY BatchType, ConstantsAssumption, FS_CardinalityType
      <4> HIDE DEF more
      <4>5. Cardinality(Running(status, r)) + Cardinality(Grants(cur', budget', r))
              <= Concurrency[r] + more
        BY <2>1, <2>2, <2>3, <4>1, <4>2, <4>3, <4>4
      <4> QED
        BY <2>1, <3>1, <4>5 DEF more
    <3>2. CASE q # r
      <4>1. Grants(cur', budget', q) \subseteq Grants(cur, budget, q)
        <5> SUFFICES ASSUME NEW p \in Grants(cur', budget', q)
                     PROVE  p \in Grants(cur, budget, q)
          OBVIOUS
        <5>1. /\ p[1] \in Workers /\ cur'[p[1]] = q /\ p[2] <= budget'[p[1]]
              /\ p \in Workers \X (1..Batch(q))
          BY DEF Grants
        <5> QED
          BY <5>1, <2>1, <3>2 DEF Grants
      <4> QED
        BY <2>1, <4>1, LimitKept
    <3> QED
      BY <3>1, <3>2
  <2>5. \A v \in Workers :
          LocksOK(pc'[v], cur'[v], budget'[v], rows'[v])
    BY <2>1, NoLocks DEF GrantInv
  <2>6. \A v \in Workers, q \in Queues : cur'[v] = q => budget'[v] <= Batch(q)
    BY <2>1, <2>3 DEF GrantInv
  <2> QED
    BY <2>4, <2>5, <2>6 DEF GrantInv
<1> QED
  BY <1>1, <1>2

\* The SELECT locks no more rows than were granted.
LEMMA SelectGrants ==
    ASSUME TypeInv, TypeInv', GrantInv, NEW w \in Workers, SelectRows(w)
    PROVE  GrantInv'
<1>0. PICK S \in SUBSET Jobs :
        /\ Selects(w, S)
        /\ IF S = {}
           THEN EndClaim(w)
           ELSE /\ pc' = [pc EXCEPT ![w] = "locked"]
                /\ rows' = [rows EXCEPT ![w] = S]
                /\ UNCHANGED <<cur, budget>>
  BY DEF SelectRows
<1>1. status' = status
  BY DEF SelectRows, jobRow
<1>2. CASE S = {}
  <2>1. \A v \in Workers :
          \/ /\ cur'[v] = cur[v] /\ budget'[v] = budget[v] /\ rows'[v] = rows[v]
             /\ pc'[v] = pc[v]
          \/ cur'[v] = None /\ rows'[v] = {}
    BY <1>0, <1>2 DEF EndClaim, TypeInv, TypeOK
  <2> QED
    BY <1>1, <2>1, GrantsKept
<1>3. CASE S # {}
  <2>1. /\ cur' = cur /\ budget' = budget /\ pc'[w] = "locked" /\ rows'[w] = S
        /\ \A v \in Workers \ {w} : pc'[v] = pc[v] /\ rows'[v] = rows[v]
    BY <1>0, <1>3 DEF TypeInv, TypeOK
  <2>2. \A j \in S : QueueOf[j] = cur[w]
    BY <1>0 DEF Selects, Claimable
  <2>3. Cardinality(S) <= budget[w]
    <3> DEFINE free == {j \in Jobs : Claimable(j, cur[w])}
    <3>1. Cardinality(free) \in Nat /\ budget[w] \in Nat
      BY ConstantsAssumption, FS_Subset, FS_CardinalityType DEF TypeInv, TypeOK
    <3>2. Cardinality(S) = Smaller(budget[w], Cardinality(free))
      BY <1>0 DEF Selects
    <3> QED
      BY <3>1, <3>2 DEF Smaller
  <2>4. \A v \in Workers :
          LocksOK(pc'[v], cur'[v], budget'[v], rows'[v])
    BY <2>1, <2>2, <2>3 DEF GrantInv, LocksOK
  <2> QED
    BY <1>1, <2>1, <2>4 DEF GrantInv
<1> QED
  BY <1>2, <1>3

\* A commit turns grants into running jobs, no more than it had.
LEMMA CommitGrants ==
    ASSUME TypeInv, TypeInv', GrantInv, NEW w \in Workers, MarkRunning(w), EndClaim(w)
    PROVE  GrantInv'
<1>1. /\ \A v \in Workers \ {w} : /\ pc'[v] = pc[v] /\ cur'[v] = cur[v]
                                  /\ budget'[v] = budget[v] /\ rows'[v] = rows[v]
      /\ cur'[w] = None /\ budget'[w] = 0 /\ rows'[w] = {}
  BY DEF EndClaim, TypeInv, TypeOK
<1>2. ASSUME NEW v \in Workers
      PROVE  LocksOK(pc'[v], cur'[v], budget'[v], rows'[v])
  <2>1. CASE v = w
    <3>1. LocksOK(pc'[w], None, 0, {})
      BY NoLocks
    <3> QED
      BY <1>1, <2>1, <3>1
  <2>2. CASE v # w
    BY <1>1, <2>2 DEF GrantInv
  <2> QED
    BY <2>1, <2>2
<1>3. \A v \in Workers, q \in Queues :
        cur'[v] = q => v # w /\ cur[v] = q /\ budget'[v] = budget[v]
  BY <1>1, ConstantsAssumption
<1>4. ASSUME NEW q \in Queues
      PROVE  Cardinality(Running(status', q)) + Cardinality(Grants(cur', budget', q)) <=
                 Concurrency[q] + (Cardinality(Workers) - 1) * Batch(q)
  <2>1. Grants(cur', budget', q) \subseteq OtherGrants(cur, budget, q, w)
    <3> SUFFICES ASSUME NEW p \in Grants(cur', budget', q)
                 PROVE  p \in OtherGrants(cur, budget, q, w)
      OBVIOUS
    <3>1. /\ p[1] \in Workers /\ cur'[p[1]] = q /\ p[2] <= budget'[p[1]]
          /\ p \in Workers \X (1..Batch(q))
      BY DEF Grants
    <3> QED
      BY <3>1, <1>3 DEF Grants, OtherGrants
  <2>2. CASE cur[w] # q
    <3>1. Running(status', q) \subseteq Running(status, q)
      BY <2>2 DEF Running, MarkRunning, GrantInv, LocksOK
    <3>2. Grants(cur', budget', q) \subseteq Grants(cur, budget, q)
      BY <2>1 DEF OtherGrants
    <3> QED
      BY <3>1, <3>2, LimitKept
  <2>3. CASE cur[w] = q
    <3> DEFINE limit == Concurrency[q] + (Cardinality(Workers) - 1) * Batch(q)
               own == Cardinality(OwnGrants(cur, budget, q, w))
               other == Cardinality(OtherGrants(cur, budget, q, w))
               run == Cardinality(Running(status, q))
               locked == Cardinality(rows[w])
    <3>1. own = budget[w] /\ own \in Nat
      BY <2>3, OwnCount DEF GrantInv, TypeInv, TypeOK
    <3>2. other \in Nat /\ Cardinality(Grants(cur, budget, q)) = own + other
      BY GrantsSplit
    <3>3. IsFiniteSet(rows[w]) /\ locked \in Nat /\ locked <= own
      <4>1. IsFiniteSet(rows[w])
        BY ConstantsAssumption, FS_Subset DEF TypeInv, TypeOK
      <4> QED
        BY <3>1, <4>1, FS_CardinalityType DEF GrantInv, LocksOK
    <3>4. run \in Nat /\ IsFiniteSet(Running(status, q))
      BY RunningCount
    <3>5. run + own + other <= limit
      BY <3>1, <3>2, <3>4 DEF GrantInv
    <3>6. Cardinality(Running(status', q)) <= run + locked
      <4>1. Running(status', q) \subseteq Running(status, q) \cup rows[w]
        BY DEF Running, MarkRunning
      <4>2. /\ IsFiniteSet(Running(status, q) \cup rows[w])
            /\ Cardinality(Running(status, q) \cup rows[w]) =
                 run + locked - Cardinality(Running(status, q) \cap rows[w])
        BY <3>3, <3>4, FS_Union
      <4>3. Cardinality(Running(status, q) \cap rows[w]) \in Nat
        BY <3>4, FS_Intersection, FS_CardinalityType
      <4>4. Cardinality(Running(status', q)) <= Cardinality(Running(status, q) \cup rows[w])
        BY <4>1, <4>2, FS_Subset
      <4>5. Cardinality(Running(status', q)) \in Nat
        BY RunningCount
      <4> QED
        BY <3>3, <3>4, <4>2, <4>3, <4>4, <4>5
    <3>7. Cardinality(Grants(cur', budget', q)) <= other
      <4>1. IsFiniteSet(OtherGrants(cur, budget, q, w))
        BY GrantCount, FS_Subset DEF OtherGrants
      <4> QED
        BY <2>1, <4>1, FS_Subset
    <3>8. /\ Cardinality(Running(status', q)) \in Nat
          /\ Cardinality(Grants(cur', budget', q)) \in Nat
      BY RunningCount, GrantCount
    <3>9. limit \in Int
      BY BatchType, ConstantsAssumption, FS_CardinalityType
    <3> HIDE DEF limit, own, other, run, locked
    <3>10. Cardinality(Running(status', q)) + Cardinality(Grants(cur', budget', q)) <= limit
      BY <3>1, <3>2, <3>3, <3>4, <3>5, <3>6, <3>7, <3>8, <3>9
    <3> QED
      BY <3>10 DEF limit
  <2> QED
    BY <2>2, <2>3
<1>5. \A v \in Workers, q \in Queues : cur'[v] = q => budget'[v] <= Batch(q)
  BY <1>3 DEF GrantInv
<1> QED
  BY <1>2, <1>4, <1>5 DEF GrantInv

\* An UPDATE of an outcome or of a manual retry starts no job.
LEMMA UpdateStarts ==
    ASSUME TypeInv, TypeInv', GrantInv, NEW i, UNCHANGED <<pc, cur, budget, rows>>,
           \/ MarkSucceeded(i) \/ MarkDead(i)
           \/ \E n, isDue : ScheduleRetry(i, n, isDue)
    PROVE  GrantInv'
<1>1. \E v \in {"succeeded", "dead", "pending"} : status' = Set(status, i, v)
  BY DEF MarkSucceeded, MarkDead, ScheduleRetry
<1>2. \A j \in Jobs : status'[j] = "running" => status[j] = "running"
  <2> SUFFICES ASSUME NEW j \in Jobs, status'[j] = "running"
               PROVE  status[j] = "running"
    OBVIOUS
  <2>1. PICK v \in {"succeeded", "dead", "pending"} :
          status' = [status EXCEPT ![i] = IF Exists(i) THEN v ELSE @]
    BY <1>1 DEF Set
  <2>2. CASE j = i
    BY <2>1, <2>2 DEF TypeInv, TypeOK
  <2>3. CASE j # i
    BY <2>1, <2>3 DEF TypeInv, TypeOK
  <2> QED
    BY <2>2, <2>3
<1> QED
  BY <1>2, GrantsKept

LEMMA WorkerGrants ==
    ASSUME TypeInv, TypeInv', GrantInv, NEW w \in Workers, Worker(w)
    PROVE  GrantInv'
<1>1. CASE \E q \in Queues : CountRunning(w, q)
  BY <1>1, CountGrants
<1>2. CASE SelectRows(w)
  BY <1>2, SelectGrants
<1>3. CASE CommitClaim(w) \/ CommitUnacknowledged(w)
  BY <1>3, CommitGrants DEF CommitClaim, CommitUnacknowledged
<1>4. CASE AbortClaim(w) \/ CancelClaim(w) \/ Crash(w)
  <2>1. status' = status
    BY <1>4 DEF AbortClaim, CancelClaim, Crash, jobRow
  <2>2. \A v \in Workers :
          \/ /\ cur'[v] = cur[v] /\ budget'[v] = budget[v] /\ rows'[v] = rows[v]
             /\ pc'[v] = pc[v]
          \/ cur'[v] = None /\ rows'[v] = {}
    BY <1>4 DEF AbortClaim, CancelClaim, Crash, EndClaim, TypeInv, TypeOK
  <2> QED
    BY <2>1, <2>2, GrantsKept
<1>5. CASE ListQueues(w) \/ EndPass(w)
  <2>1. status' = status /\ UNCHANGED <<cur, budget, rows>>
    BY <1>5 DEF ListQueues, EndPass, jobRow
  <2>2. \A v \in Workers : pc'[v] # "locked" => pc[v] # "locked"
    BY <1>5 DEF ListQueues, EndPass, TypeInv, TypeOK
  <2> QED
    BY <2>1, <2>2, GrantsKept
<1>6. CASE \/ StartJob(w) \/ Restart(w) \/ Stopped(w) \/ Shutdown(w)
           \/ \E l \in LeasesOf(w, running) : LoseOutcome(l)
  <2>1. status' = status /\ UNCHANGED <<pc, cur, budget, rows>>
    BY <1>6 DEF StartJob, Restart, Stopped, Shutdown, LoseOutcome, Finished, jobRow, claim
  <2> QED
    BY <2>1, GrantsKept
<1>7. ASSUME NEW l \in LeasesOf(w, running), Succeed(l) \/ Fail(l) \/ Die(l)
      PROVE  GrantInv'
  <2>1. UNCHANGED <<pc, cur, budget, rows>>
    BY <1>7 DEF Succeed, Fail, Die, Finished, claim
  <2>2. CASE Succeed(l)
    BY <2>1, <2>2, UpdateStarts DEF Succeed
  <2>3. CASE Fail(l)
    BY <2>1, <2>3, UpdateStarts DEF Fail
  <2>4. CASE Die(l)
    BY <2>1, <2>4, UpdateStarts DEF Die
  <2> QED
    BY <1>7, <2>2, <2>3, <2>4
<1> QED
  BY <1>1, <1>2, <1>3, <1>4, <1>5, <1>6, <1>7 DEF Worker, Dispatch, Finish, WorkerFault

LEMMA TableGrants ==
    ASSUME TypeInv, TypeInv', GrantInv,
           Reclaim \/ Promote \/ JobRequest \/ QueueRequest \/ Time
    PROVE  GrantInv'
<1>1. UNCHANGED <<pc, cur, budget, rows>>
  BY DEF Reclaim, Promote, JobRequest, Enqueue, Cancel, RetryRead, RetryWrite, QueueRequest,
         Pause, Resume, DeleteQueue, Time, BecomeDue, BecomeStale, OutliveTimeout, GrowStale,
         claim
<1>2. CASE Reclaim \/ Promote
  BY <1>1, <1>2, GrantsKept DEF Reclaim, Promote
<1>3. CASE JobRequest
  <2>1. CASE \E r \in retries : RetryWrite(r)
    BY <1>1, <2>1, UpdateStarts DEF RetryWrite
  <2>2. ASSUME NEW j \in Jobs, Cancel(j) \/ \E future \in BOOLEAN : Enqueue(j, future)
        PROVE  GrantInv'
    <3>1. \A k \in Jobs : status'[k] = "running" => status[k] = "running"
      BY <2>2 DEF Cancel, Enqueue, TypeInv, TypeOK
    <3> QED
      BY <1>1, <3>1, GrantsKept
  <2>3. CASE \E c \in Retriers, j \in Jobs : RetryRead(c, j)
    BY <1>1, <2>3, GrantsKept DEF RetryRead, jobRow
  <2> QED
    BY <1>3, <2>1, <2>2, <2>3 DEF JobRequest
<1>4. CASE QueueRequest
  BY <1>1, <1>4, GrantsKept DEF QueueRequest, Pause, Resume, DeleteQueue, jobRow
<1>5. CASE Time
  BY <1>1, <1>5, GrantsKept DEF Time, BecomeDue, BecomeStale, OutliveTimeout, GrowStale
<1> QED
  BY <1>2, <1>3, <1>4, <1>5

LEMMA NextGrants == TypeInv /\ GrantInv /\ [Next]_vars => GrantInv'
<1> SUFFICES ASSUME TypeInv, GrantInv, [Next]_vars
             PROVE  GrantInv'
  OBVIOUS
<1>1. TypeInv'
  BY NextType
<1>2. CASE Next
  BY <1>1, <1>2, WorkerGrants, TableGrants DEF Next
<1>3. CASE UNCHANGED vars
  BY <1>1, <1>3, GrantsKept DEF vars, jobRow, claim
<1> QED
  BY <1>2, <1>3

\* However the claims of the workers overlap, a queue runs no more jobs than its
\* limit and one batch for each of the other workers.
THEOREM OvershootLimited == Spec => []OvershootBounded
<1>1. Spec => [](TypeInv /\ GrantInv)
  BY InitType, NextType, InitGrants, NextGrants, PTL DEF Spec
<1>2. TypeInv /\ GrantInv => OvershootBounded
  <2> SUFFICES ASSUME GrantInv, NEW q \in Queues
               PROVE  Cardinality(RunningIn(q)) <=
                          Concurrency[q] + (Cardinality(Workers) - 1) * Batch(q)
    BY DEF OvershootBounded, Batch
  <2> DEFINE limit == Concurrency[q] + (Cardinality(Workers) - 1) * Batch(q)
  <2>1. Cardinality(Running(status, q)) + Cardinality(Grants(cur, budget, q)) <= limit
    BY DEF GrantInv
  <2>2. /\ Cardinality(Running(status, q)) \in Nat
        /\ Cardinality(Grants(cur, budget, q)) \in Nat
    BY RunningCount, GrantCount
  <2>3. limit \in Int
    BY BatchType, ConstantsAssumption, FS_CardinalityType
  <2>4. RunningIn(q) = Running(status, q)
    BY DEF RunningIn, Running
  <2> HIDE DEF limit
  <2>5. Cardinality(Running(status, q)) <= limit
    BY <2>1, <2>2, <2>3
  <2> QED
    BY <2>4, <2>5 DEF limit
<1> QED
  BY <1>1, <1>2, PTL
=============================================================================
