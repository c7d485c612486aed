---------------------------- MODULE JobLifecycle ----------------------------
(***************************************************************************)
(* What the scheduler promises about one job, without processes, leases,   *)
(* row locks or timeouts: it is executed by one party at a time, only      *)
(* while it is running; each outcome is written by the execution that      *)
(* produced it; an execution that ends without an outcome leaves the job   *)
(* running until it is made pending again, its attempts unchanged; and it  *)
(* is dead only when its attempts are used up.                             *)
(***************************************************************************)
EXTENDS Naturals

CONSTANTS Jobs, Known, MaxRetries

VARIABLE job    \* the state of every job; busy: somebody is in charge of it

New == [status |-> "absent", attempts |-> 0, busy |-> FALSE]

Init == job = [j \in Jobs |-> New]

Becomes(x, s) == [x EXCEPT !.status = s]

Created(x) == {Becomes(x, "pending"), Becomes(x, "scheduled")}

\* Taken from the queue.  The taker may not learn that it has it.
Taken(x) ==
    {[status |-> "running", attempts |-> x.attempts, busy |-> b] : b \in BOOLEAN}

\* The outcomes of an execution.
Ended(x, s, n) == [status |-> s, attempts |-> n, busy |-> FALSE]

LastTry(j, x) == j \notin Known \/ x.attempts + 1 >= MaxRetries

Outcomes(j, x) ==
    {Ended(x, "succeeded", x.attempts) : i \in {j} \cap Known}
    \cup {Ended(x, IF LastTry(j, x) THEN "dead" ELSE "pending", x.attempts + 1)}

\* The execution is over without an outcome, or was of a deleted job.
Abandoned(x) == Ended(x, x.status, x.attempts)

\* What may become of job j in one step.
Step(j, x, y) ==
    \/ x.status = "absent" /\ y \in Created(x)
    \/ x.status = "scheduled" /\ y = Becomes(x, "pending")
    \/ x.status = "pending" /\ y \in Taken(x)
    \/ x.status = "running" /\ x.busy /\ y \in Outcomes(j, x)
    \/ x.busy /\ y = Abandoned(x)
    \/ x.status = "running" /\ ~x.busy /\ y = Becomes(x, "pending")
    \/ x.status \in {"pending", "scheduled"} /\ y = Becomes(x, "cancelled")
    \/ x.status = "dead" /\ y = Becomes(x, "pending")
    \/ x.status \notin {"absent", "deleted"} /\ y = Becomes(x, "deleted")

\* A statement may step many jobs at once.
Next ==
    /\ job' = [j \in Jobs |-> job'[j]]
    /\ \A j \in Jobs : job'[j] = job[j] \/ Step(j, job[j], job'[j])

Spec == Init /\ [][Next]_job
=============================================================================
