----------------------------- MODULE QueueConfig -----------------------------
(***************************************************************************)
(* The configuration of one queue, under the requests that create, update, *)
(* pause, resume and delete it, and the retry policy a job takes from it:  *)
(* the job's columns are filled in from the queue when it is enqueued, and *)
(* the executor computes the delays between its attempts from them.        *)
(*                                                                         *)
(* Every request but the creation reads the queue first and writes after,  *)
(* in no transaction.  Of the configuration the retry policy stands for    *)
(* all the columns that PUT replaces.                                      *)
(***************************************************************************)
EXTENDS Backoff, FiniteSets

CONSTANTS
    Policies,    \* [strategy, base, max] that users ask for; base is retry_delay_sec
    Updates,     \* PUT requests
    AskedFor,    \* the policy each asks for
    Pauses, Resumes,
    Overrides,   \* what the request for the job gives: a function of some of the fields
    DefaultMax,  \* max_retries of setDefaults, 3
    MaxFaults,   \* bound: statements that fail, or whose answer is lost
    None,        \* no policy; no queue yet
    Deleted      \* the queue is no more

Requests == Updates \cup Pauses \cup Resumes
Fields == {"strategy", "base", "max"}

\* The validator refuses any other policy of a queue.
ValidPolicies == [strategy : Strategies, base : 1..MaxInt, max : 0..100]
Row == [policy : ValidPolicies, paused : BOOLEAN]

ASSUME QueueConfigAssumption ==
    /\ Policies \subseteq ValidPolicies
    /\ AskedFor \in [Updates -> Policies]
    /\ \A o \in Overrides : DOMAIN o \subseteq Fields
    /\ DefaultMax \in 1..100 /\ MaxFaults \in Nat
    /\ Updates \cap (Pauses \cup Resumes) = {}
    /\ None # Deleted /\ None \notin Row

VARIABLES
    queue,       \* its row: policy and is_paused; None before, Deleted after
    pc, copy,    \* the requests, and the row each read
    faults,
    said,        \* history: what the users were last told, when nothing was under way
    job,         \* where the job is: unasked, insert, retrying, dead, refused, gone
    override,    \* what its request gives
    policy,      \* the queue's as it was read, then the job's own columns
    inForce,     \* history: the queue's policies from that read to the insertion
    attempt, delay

jobVars == <<job, override, policy, inForce, attempt, delay>>
vars == <<queue, pc, copy, faults, said, jobVars>>

\* An override is not validated, so a job's columns may hold anything.
TypeOK ==
    /\ queue \in Row \cup {None, Deleted}
    /\ pc \in [Requests -> {"start", "write", "done"}]
    /\ copy \in [Requests -> Row \cup {None, Deleted}]
    /\ faults \in 0..MaxFaults
    /\ said \in {"nothing", "paused", "resumed"}
    /\ job \in {"unasked", "insert", "retrying", "dead", "refused", "gone"}
    /\ override \in Overrides
    /\ policy # None => DOMAIN policy = Fields
    /\ inForce \subseteq ValidPolicies
    /\ attempt \in Nat

Exists == queue \notin {None, Deleted}

Init ==
    /\ queue = None
    /\ pc = [r \in Requests |-> "start"] /\ copy = [r \in Requests |-> None]
    /\ faults = 0 /\ said = "nothing"
    /\ job = "unasked" /\ override \in Overrides
    /\ policy = None /\ inForce = {}
    /\ attempt = 0 /\ delay = 0

(***************************************************************************)
(* The queue.                                                              *)
(***************************************************************************)
\* Of the defaults this is the one that the validator lets through: it refuses a
\* zero in the other fields.
WithDefaults(p) == [p EXCEPT !.max = IF @ = 0 THEN DefaultMax ELSE @]

Create ==
    /\ queue = None
    /\ \E p \in Policies : queue' = [policy |-> WithDefaults(p), paused |-> FALSE]
    /\ UNCHANGED <<pc, copy, faults, said, jobVars>>

\* ON DELETE CASCADE
Delete ==
    /\ Exists /\ queue' = Deleted
    /\ job' = IF job \in {"retrying", "dead"} THEN "gone" ELSE job
    /\ UNCHANGED <<pc, copy, faults, said, override, policy, inForce, attempt, delay>>

\* Not found, or a conflict: already paused, not paused.
Refused(r) ==
    \/ queue = Deleted
    \/ Exists /\ ((r \in Pauses /\ queue.paused) \/ (r \in Resumes /\ ~queue.paused))

\* GetByID.  Another request to pause or to resume makes what was said uncertain.
Read(r) ==
    /\ pc[r] = "start" /\ queue # None
    /\ IF Refused(r)
       THEN pc' = [pc EXCEPT ![r] = "done"] /\ UNCHANGED <<copy, said>>
       ELSE /\ pc' = [pc EXCEPT ![r] = "write"]
            /\ copy' = [copy EXCEPT ![r] = queue]
            /\ said' = IF r \in Updates THEN said ELSE "nothing"
    /\ UNCHANGED <<queue, faults, jobVars>>

ReplacedRow(u) ==         \* mutant: UPDATE of all the columns, as they were read
    [copy[u] EXCEPT !.policy = AskedFor[u]]

\* All the columns but is_paused.
UpdatedRow(u) == [queue EXCEPT !.policy = AskedFor[u]]

Written(r) ==
    IF r \in Updates THEN UpdatedRow(r) ELSE [queue EXCEPT !.paused = r \in Pauses]

Ends(r) == pc' = [pc EXCEPT ![r] = "done"] /\ copy' = [copy EXCEPT ![r] = None]

TakesEffect(r) ==
    /\ queue' = Written(r)
    /\ inForce' = IF job = "insert" THEN inForce \cup {queue'.policy} ELSE inForce

\* Nobody else is pausing or resuming.
Alone(r) == \A s \in Pauses \cup Resumes : pc[s] = "write" => s = r

\* Update, SetPaused: one row, or none and the answer is not found.
Write(r) ==
    /\ pc[r] = "write" /\ Ends(r)
    /\ IF Exists
       THEN /\ TakesEffect(r)
            /\ said' = IF r \in Updates THEN said
                       ELSE IF ~Alone(r) THEN "nothing"
                       ELSE IF r \in Pauses THEN "paused" ELSE "resumed"
       ELSE UNCHANGED <<queue, inForce, said>>
    /\ UNCHANGED <<faults, job, override, policy, attempt, delay>>

WriteFails(r) ==
    /\ pc[r] = "write" /\ Ends(r)
    /\ faults < MaxFaults /\ faults' = faults + 1
    /\ \/ UNCHANGED <<queue, inForce>>
       \/ Exists /\ TakesEffect(r)
    /\ UNCHANGED <<said, job, override, policy, attempt, delay>>

(***************************************************************************)
(* The job.                                                                *)
(***************************************************************************)
\* The service of jobs reads the queue.
ReadQueue ==
    /\ job = "unasked" /\ queue # None
    /\ IF ~Exists \/ (Exists /\ queue.paused)
       THEN job' = "refused" /\ UNCHANGED <<policy, inForce>>
       ELSE job' = "insert" /\ policy' = queue.policy /\ inForce' = {queue.policy}
    /\ UNCHANGED <<queue, pc, copy, faults, said, override, attempt, delay>>

InheritedLate(p) ==       \* mutant: the delay is looked up in the queue once more
    [f \in Fields |-> IF f \in DOMAIN override THEN override[f]
                      ELSE IF f = "base" THEN queue.policy.base ELSE p[f]]

\* What the request gives, else what the queue has.  The request's fields are not
\* validated.
Inherited(p) ==
    [f \in Fields |-> IF f \in DOMAIN override THEN override[f] ELSE p[f]]

\* The foreign key, and the type of the column retry_strategy.
Insert ==
    /\ job = "insert"
    /\ IF Exists /\ Inherited(policy).strategy \in Strategies
       THEN job' = "retrying" /\ policy' = Inherited(policy)
       ELSE job' = "refused" /\ UNCHANGED policy
    /\ UNCHANGED <<queue, pc, copy, faults, said, override, inForce, attempt, delay>>

\* The executor after an attempt that failed.
Retry ==
    /\ job = "retrying"
    /\ attempt' = attempt + 1
    /\ IF attempt + 1 < policy.max
       THEN /\ delay' \in NextDelay(policy.strategy, policy.base, attempt + 1)
            /\ UNCHANGED job
       ELSE job' = "dead" /\ UNCHANGED delay
    /\ UNCHANGED <<queue, pc, copy, faults, said, override, policy, inForce>>

Next ==
    \/ Create \/ Delete
    \/ \E r \in Requests : Read(r) \/ Write(r) \/ WriteFails(r)
    \/ ReadQueue \/ Insert \/ Retry

Spec == Init /\ [][Next]_vars

(***************************************************************************)
(* Properties.                                                             *)
(***************************************************************************)
\* An update of the configuration, however it overlaps with a pause or a resume,
\* does not undo it: the queue is as the users were last told.
PauseHolds ==
    Exists => /\ said = "paused" => queue.paused
              /\ said = "resumed" => ~queue.paused

\* The policy of a job is, but for what its request gives, one and the same policy
\* of the queue, in force while the job was being enqueued: never a mixture of two.
PolicyOfOneMoment ==
    job \in {"retrying", "dead"} =>
        \E p \in inForce : \A f \in Fields \ DOMAIN override : policy[f] = p[f]

Retried == job = "retrying" /\ attempt > 0

\* However many attempts, and whatever overflows on the way, the delay is neither
\* negative nor above the cap, if the base delay is neither.
WithinCap == Retried /\ policy.base \in 0..MaxDelay => delay \in 0..MaxDelay

Lesser(a, b) == IF a <= b THEN a ELSE b

\* What the delay is meant to be, jitter apart: the base doubled after every
\* attempt, a multiple of it, or itself; and no more than the cap.
DoublesUpToCap ==
    LET f[n \in 1..attempt] ==
          IF n = 1 THEN Lesser(policy.base, MaxDelay) ELSE Lesser(2 * f[n - 1], MaxDelay)
    IN  f[attempt]
Nominal ==
    CASE policy.strategy = "fixed" -> Lesser(policy.base, MaxDelay)
      [] policy.strategy = "linear" -> Lesser(policy.base * attempt, MaxDelay)
      [] policy.strategy = "exponential" -> DoublesUpToCap

Nears ==
    /\ 2 * delay >= Nominal /\ 2 * delay <= 3 * Nominal
    /\ policy.strategy # "exponential" => delay = Nominal

\* As long as base * 2^attempt fits 64 bits the job backs off: the delay is no less
\* than half of the nominal one and no more than one and a half.
NearNominal ==
    Retried /\ policy.base \in 0..MaxDelay /\ 2^attempt <= MaxInt \div (policy.base + 1)
        => Nears

(***************************************************************************)
(* What the documentation says and the code does not keep.                 *)
(***************************************************************************)
\* "delay doubles each attempt", however many attempts there are.
DoublesEachAttempt == Retried /\ policy.base \in 0..MaxDelay => Nears

\* "Add +-25% jitter".
JitterIsAQuarter ==
    Retried => 4 * delay >= 3 * Nominal /\ 4 * delay <= 5 * Nominal
=============================================================================
