------------------------------- MODULE Startup -------------------------------
(***************************************************************************)
(* The start of the processes: each tries to reach PostgreSQL, then Redis, *)
(* ten times each; then the API server applies the migrations, a worker    *)
(* registers itself, and both go about their work.  A process that exits   *)
(* is started again (docker-compose.yml, restart: unless-stopped).         *)
(***************************************************************************)
EXTENDS Naturals

CONSTANTS
    Apis, Workers,  \* the processes
    MaxAttempts,    \* maxAttempts of db.Connect and of cache.New
    MaxOutages,     \* bound: how often the servers go away
    MaxStops        \* bound: how often a process that runs is stopped

ASSUME StartupAssumption ==
    MaxAttempts \in Nat \ {0} /\ MaxOutages \in Nat /\ MaxStops \in Nat

VARIABLES
    up,         \* the servers that answer
    schema,     \* have the migrations been applied?
    phase,      \* of each process
    attempt,    \* the attempt it is at
    lastErr,    \* cache.New: has a ping failed?  (lastErr # nil)
    answered,   \* did the server of this phase answer?
    registered, \* is there a row of the table workers with its id?
    outages, stops

proc == <<phase, attempt, lastErr, answered, registered>>
vars == <<up, schema, proc, outages, stops>>

Procs == Apis \cup Workers
Servers == {"postgres", "redis"}
Ends == {"no postgres", "no redis", "exited"}

TypeOK ==
    /\ up \subseteq Servers /\ schema \in BOOLEAN
    /\ phase \in [Procs -> Servers \cup Ends \cup {"migrating", "registering", "running"}]
    /\ attempt \in [Procs -> 1..MaxAttempts]
    /\ lastErr \in [Procs -> BOOLEAN]
    /\ answered \in [Procs -> BOOLEAN]
    /\ registered \in [Procs -> BOOLEAN]
    /\ outages \in 0..MaxOutages /\ stops \in 0..MaxStops

\* Containers come back in any order after a restart of the host.
Init ==
    /\ up \in SUBSET Servers /\ schema = FALSE
    /\ phase = [p \in Procs |-> "postgres"]
    /\ attempt = [p \in Procs |-> 1]
    /\ lastErr = [p \in Procs |-> FALSE]
    /\ answered = [p \in Procs |-> FALSE]
    /\ registered = [p \in Procs |-> FALSE]
    /\ outages = 0 /\ stops = 0

Enter(p, ph) ==
    /\ phase' = [phase EXCEPT ![p] = ph]
    /\ attempt' = [attempt EXCEPT ![p] = 1]
    /\ lastErr' = [lastErr EXCEPT ![p] = FALSE]

\* The ping failed: another attempt, or the last was made, or the deadline of the
\* startup context passes in the meantime.
TriesAgain(p, end) ==
    \/ /\ attempt[p] < MaxAttempts
       /\ attempt' = [attempt EXCEPT ![p] = @ + 1]
       /\ lastErr' = [lastErr EXCEPT ![p] = TRUE]
       /\ UNCHANGED phase
    \/ attempt[p] = MaxAttempts /\ Enter(p, end)
    \/ Enter(p, "exited")

Answered(p, a) == answered' = [answered EXCEPT ![p] = a]

\* db.Connect: err is that of the last attempt.
ConnectPostgres(p) ==
    /\ phase[p] = "postgres"
    /\ IF "postgres" \in up THEN Enter(p, "redis") ELSE TriesAgain(p, "no postgres")
    /\ Answered(p, FALSE)
    /\ UNCHANGED <<up, schema, registered, outages, stops>>

AfterRedis(p) == IF p \in Apis THEN "migrating" ELSE "registering"

\* cache.New: lastErr is that of any attempt, the one that was answered included.
ConnectRedis(p) ==
    /\ phase[p] = "redis"
    /\ IF "redis" \in up
       THEN Enter(p, IF lastErr[p] THEN "no redis" ELSE AfterRedis(p)) /\ Answered(p, TRUE)
       ELSE TriesAgain(p, "no redis") /\ UNCHANGED answered
    /\ UNCHANGED <<up, schema, registered, outages, stops>>

Migrate(p) ==
    /\ phase[p] = "migrating"
    /\ IF "postgres" \in up
       THEN schema' = TRUE /\ Enter(p, "running")
       ELSE Enter(p, "exited") /\ UNCHANGED schema
    /\ UNCHANGED <<up, answered, registered, outages, stops>>

\* The error is logged.  Without the migrations there is no table.
Register(p) ==
    /\ phase[p] = "registering"
    /\ registered' = [registered EXCEPT ![p] = "postgres" \in up /\ schema]
    /\ Enter(p, "running")
    /\ UNCHANGED <<up, schema, answered, outages, stops>>

Stop(p) ==
    /\ phase[p] = "running"
    /\ stops < MaxStops /\ stops' = stops + 1
    /\ Enter(p, "exited")
    /\ UNCHANGED <<up, schema, answered, registered, outages>>

StaysDown(p) == phase[p] = "exited"    \* mutant: only restarted after a stop

IsDown(p) == phase[p] \in Ends

\* A worker has a new id each time.
Restart(p) ==
    /\ IsDown(p)
    /\ Enter(p, "postgres")
    /\ Answered(p, FALSE)
    /\ registered' = [registered EXCEPT ![p] = FALSE]
    /\ UNCHANGED <<up, schema, outages, stops>>

Outage(d) ==
    /\ d \in up /\ up' = up \ {d}
    /\ outages < MaxOutages /\ outages' = outages + 1
    /\ UNCHANGED <<schema, proc, stops>>

Recovery(d) ==
    /\ d \notin up /\ up' = up \cup {d}
    /\ UNCHANGED <<schema, proc, outages, stops>>

Proceed(p) ==
    ConnectPostgres(p) \/ ConnectRedis(p) \/ Migrate(p) \/ Register(p) \/ Restart(p)

Next ==
    \/ \E p \in Procs : Proceed(p) \/ Stop(p)
    \/ \E d \in Servers : Outage(d) \/ Recovery(d)

Spec == Init /\ [][Next]_vars

\* Processes run, and are restarted; servers come up.
FairSpec ==
    /\ Spec
    /\ \A p \in Procs : WF_vars(Proceed(p))
    /\ \A d \in Servers : WF_vars(Recovery(d))

(***************************************************************************)
(* Properties.                                                             *)
(***************************************************************************)
\* Whatever the order in which the containers start and fail, in the end every
\* process runs, and on a database that has its schema.
EveryoneRuns ==
    <>[](schema /\ \A p \in Procs : phase[p] = "running")

\* A process that gets past its start has seen Redis answer, and an API server
\* runs on a migrated database only.
StartedConnected ==
    /\ \A p \in Procs : phase[p] \in {"migrating", "registering", "running"} => answered[p]
    /\ \A p \in Apis : phase[p] = "running" => schema
    /\ \A p \in Workers : registered[p] => schema

\* "It retries on startup to handle container ordering": New does not fail once
\* Redis has answered it.
RetryHelps == \A p \in Procs : phase[p] = "no redis" => ~answered[p]

\* "Register worker in DB": a worker that runs has its row.
RunningIsRegistered ==
    \A p \in Workers : phase[p] = "running" => registered[p]
=============================================================================
