----------------------------- MODULE CronEngine -----------------------------
(***************************************************************************)
(* The cron engines of the worker processes.  Each engine lists the due    *)
(* definitions, and for each takes the lock named after the definition and *)
(* the minute, inserts a job, and moves next_fire_at on.  The lock is used *)
(* as RedisLock describes it, one instance for each name.                  *)
(*                                                                         *)
(* Time is counted in minutes, the resolution of cron expressions and of   *)
(* the lock names.                                                         *)
(*                                                                         *)
(* As the code stands, three faults keep the engines from firing anything. *)
(* POST /cron reads a parameter :queueId that its route does not have, so  *)
(* the API refuses every definition, and rows get into cron_jobs by hand   *)
(* only (Provide).  The service that would have stored them leaves         *)
(* next_fire_at NULL (FirstFire = {None}).  And the job that is spawned    *)
(* has no tags, which the table refuses: a deployment in which it does has *)
(* all definitions in "refused".  The others are what the engines would do *)
(* with a column that takes NULL.                                          *)
(***************************************************************************)
EXTENDS Naturals, FiniteSets

CONSTANTS
    Engines,     \* one per worker process
    Crons,       \* cron definitions
    Period,      \* the schedule of each: every so many minutes
    BadExpr,     \* the definitions whose expression does not parse
    FirstFire,   \* what next_fire_at may be in a new row
    LastMinute,  \* bound: the clock stops here
    Tokens,      \* see RedisLock
    TtlCovers,   \* see RedisLock: 55 seconds outlast the firing of a definition
    DelInTime,   \* see RedisLock
    MaxFaults,   \* bound: crashes and failed calls of a behaviour
    Deployments, \* bound: which engines run, which definitions come to exist, and
                 \* of which the table refuses the jobs (as the code stands, all)
    None         \* SQL NULL; no key in Redis

ASSUME CronAssumption ==
    /\ Period \in [Crons -> Nat \ {0}]
    /\ BadExpr \subseteq Crons
    /\ LastMinute \in Nat /\ FirstFire \subseteq (0..LastMinute) \cup {None}
    /\ TtlCovers \in BOOLEAN /\ DelInTime \in BOOLEAN /\ MaxFaults \in Nat
    /\ None \notin Nat \cup Crons \cup Tokens
    /\ IsFiniteSet(Engines) /\ IsFiniteSet(Tokens)
    /\ Cardinality(Tokens) > Cardinality(Engines)
    /\ Deployments \subseteq [engines : SUBSET Engines, crons : SUBSET Crons,
                       refused : SUBSET Crons]

VARIABLES
    minute,     \* the clock
    row,        \* each definition: absent, active, inactive or deleted
    next,       \* next_fire_at
    fired,      \* for each definition and minute it was due: the jobs inserted,
                \* counted up to Many
    lock,       \* Redis: the token under each lock name
    pc, now,    \* the engines: where they are, and the minute of the evaluation
    todo,       \* the definitions listed and not yet visited
    listed,     \* their next_fire_at as it was listed
    cur, token, \* the definition being fired, and the token of its lock
    faults,
    deployed    \* the deployment, the same all along

engine == <<pc, now, todo, listed, cur, token>>
vars == <<minute, row, next, fired, lock, engine, faults, deployed>>

Minutes == 0..LastMinute
Names == Crons \X Minutes      \* cron_fire:<id>:<minute>
\* A schedule never fires later than one period after the clock.
Many == MaxFaults + 2          \* bound: more than OncePerSlot allows
Slots == UNION {0..LastMinute + Period[c] : c \in Crons}

TypeOK ==
    /\ minute \in Minutes
    /\ row \in [Crons -> {"absent", "active", "inactive", "deleted"}]
    /\ next \in [Crons -> Slots \cup {None}]
    /\ fired \in [Crons -> [Slots -> 0..Many]]
    /\ lock \in [Names -> Tokens \cup {None}]
    /\ pc \in [Engines -> {"idle", "loop", "fn", "spawned", "release", "delete"}]
    /\ now \in [Engines -> Minutes]
    /\ todo \in [Engines -> SUBSET Crons]
    /\ listed \in [Engines -> [Crons -> Slots \cup {None}]]
    /\ cur \in [Engines -> Crons \cup {None}]
    /\ token \in [Engines -> Tokens \cup {None}]

Init ==
    /\ minute = 0
    /\ row = [c \in Crons |-> "absent"]
    /\ next = [c \in Crons |-> None]
    /\ fired = [c \in Crons |-> [s \in Slots |-> 0]]
    /\ lock = [k \in Names |-> None]
    /\ pc = [e \in Engines |-> "idle"] /\ now = [e \in Engines |-> 0]
    /\ todo = [e \in Engines |-> {}]
    /\ listed = [e \in Engines |-> [c \in Crons |-> None]]
    /\ cur = [e \in Engines |-> None] /\ token = [e \in Engines |-> None]
    /\ faults = 0
    /\ deployed \in Deployments

Fault == faults < MaxFaults /\ faults' = faults + 1

Tick ==
    /\ minute < LastMinute
    /\ minute' = minute + 1
    /\ UNCHANGED <<row, next, fired, lock, engine, faults>>

(***************************************************************************)
(* The table.  The API deletes definitions, it creates none.               *)
(***************************************************************************)
\* An operator inserts a row.
Provide(c) ==
    /\ row[c] = "absent"
    /\ row' = [row EXCEPT ![c] = "active"]
    /\ \E t \in FirstFire : next' = [next EXCEPT ![c] = t]
    /\ UNCHANGED <<minute, fired, lock, engine, faults>>

Delete(c) ==
    /\ row[c] \in {"active", "inactive"}
    /\ row' = [row EXCEPT ![c] = "deleted"]
    /\ UNCHANGED <<minute, next, fired, lock, engine, faults>>

(***************************************************************************)
(* Engine e.                                                               *)
(***************************************************************************)
\* NULL <= now is not true.
Due(c, t) == row[c] = "active" /\ next[c] # None /\ next[c] <= t

ListDue(e) ==
    LET due == {c \in Crons : Due(c, minute)} IN
    /\ pc[e] = "idle" /\ due # {}
    /\ now' = [now EXCEPT ![e] = minute]
    /\ todo' = [todo EXCEPT ![e] = due]
    /\ listed' = [listed EXCEPT ![e] = [c \in Crons |-> IF c \in due THEN next[c] ELSE None]]
    /\ pc' = [pc EXCEPT ![e] = "loop"]
    /\ UNCHANGED <<minute, row, next, fired, lock, cur, token, faults>>

EndList(e) ==
    /\ pc[e] = "loop" /\ todo[e] = {}
    /\ pc' = [pc EXCEPT ![e] = "idle"]
    /\ listed' = [listed EXCEPT ![e] = [c \in Crons |-> None]]
    /\ now' = [now EXCEPT ![e] = 0]
    /\ UNCHANGED <<minute, row, next, fired, lock, todo, cur, token, faults>>

\* ORDER BY next_fire_at.
Visits(e, c) ==
    /\ pc[e] = "loop" /\ c \in todo[e]
    /\ \A d \in todo[e] : listed[e][c] <= listed[e][d]
    /\ todo' = [todo EXCEPT ![e] = @ \ {c}]

Name(c, t) == <<c, t>>

KeyFreeAlways(k) == TRUE                   \* mutant: SET without NX

KeyFree(k) == lock[k] = None

\* Which of the new tokens makes no difference.
NewToken(k) == CHOOSE t \in Tokens : t # lock[k] /\ \A e \in Engines : t # token[e]

Acquire(e, c) ==
    LET k == Name(c, now[e]) IN
    /\ Visits(e, c) /\ KeyFree(k)
    /\ lock' = [lock EXCEPT ![k] = NewToken(k)]
    /\ cur' = [cur EXCEPT ![e] = c]
    /\ token' = [token EXCEPT ![e] = NewToken(k)]
    /\ pc' = [pc EXCEPT ![e] = "fn"]
    /\ UNCHANGED <<minute, row, next, fired, now, listed, faults>>

\* The key is set, its answer is lost: the error is logged.
AcquireUnanswered(e, c) ==
    LET k == Name(c, now[e]) IN
    /\ Visits(e, c) /\ KeyFree(k) /\ Fault
    /\ lock' = [lock EXCEPT ![k] = NewToken(k)]
    /\ UNCHANGED <<minute, row, next, fired, pc, now, listed, cur, token>>

NotAcquired(e, c) ==
    /\ Visits(e, c) /\ ~KeyFree(Name(c, now[e]))
    /\ UNCHANGED <<minute, row, next, fired, lock, pc, now, listed, cur, token,
                   faults>>

FnReturns(e) == pc' = [pc EXCEPT ![e] = "release"]

\* A bad expression switches the definition off.
Disable(e) ==
    LET c == cur[e] IN
    /\ pc[e] = "fn" /\ c \in BadExpr
    /\ row' = IF row[c] = "active" THEN [row EXCEPT ![c] = "inactive"] ELSE row
    /\ FnReturns(e)
    /\ UNCHANGED <<minute, next, fired, lock, now, todo, listed, cur, token, faults>>

\* The error of SetActive is dropped: the definition stays active and due.
DisableFails(e) ==
    /\ pc[e] = "fn" /\ cur[e] \in BadExpr /\ Fault
    /\ FnReturns(e)
    /\ UNCHANGED <<minute, row, next, fired, lock, now, todo, listed, cur, token>>

\* tags is NOT NULL; cron_job_id is a foreign key.
Refused(c) == c \in deployed.refused \/ row[c] = "deleted"

Spawn(e) ==
    LET c == cur[e] IN
    /\ pc[e] = "fn" /\ c \notin BadExpr /\ ~Refused(c)
    /\ fired' = [fired EXCEPT ![c][listed[e][c]] = IF @ < Many THEN @ + 1 ELSE @]
    /\ pc' = [pc EXCEPT ![e] = "spawned"]
    /\ UNCHANGED <<minute, row, next, lock, now, todo, listed, cur, token, faults>>

GoesOn(e) == pc' = [pc EXCEPT ![e] = "spawned"]   \* mutant: the error is swallowed

SpawnFailed(e) == FnReturns(e)

\* The table refuses the job: the definition stays due.
SpawnRefused(e) ==
    /\ pc[e] = "fn" /\ cur[e] \notin BadExpr /\ Refused(cur[e])
    /\ SpawnFailed(e)
    /\ UNCHANGED <<minute, row, next, fired, lock, now, todo, listed, cur, token, faults>>

\* The INSERT fails for want of the database.
SpawnFails(e) ==
    /\ pc[e] = "fn" /\ cur[e] \notin BadExpr /\ Fault
    /\ SpawnFailed(e)
    /\ UNCHANGED <<minute, row, next, fired, lock, now, todo, listed, cur, token>>

NextFromNow(c, t) == ((t + Period[c] - 1) \div Period[c]) * Period[c]  \* mutant: at or after

NextButOne(c, t) == (t \div Period[c] + 2) * Period[c]   \* mutant: one period too far

\* The first minute of the schedule after t (schedule.Next).
NextFire(c, t) == (t \div Period[c] + 1) * Period[c]

\* No effect on a row that has been deleted.
UpdateFireTimes(e) ==
    LET c == cur[e] IN
    /\ pc[e] = "spawned"
    /\ next' = IF row[c] = "deleted" THEN next
               ELSE [next EXCEPT ![c] = NextFire(c, now[e])]
    /\ FnReturns(e)
    /\ UNCHANGED <<minute, row, fired, lock, now, todo, listed, cur, token, faults>>

\* The error is logged, the definition stays due.
UpdateFails(e) ==
    /\ pc[e] = "spawned" /\ Fault
    /\ FnReturns(e)
    /\ UNCHANGED <<minute, row, next, fired, lock, now, todo, listed, cur, token>>

UnlockAndReturn(e) ==                      \* mutant: return for continue
    /\ cur' = [cur EXCEPT ![e] = None]
    /\ token' = [token EXCEPT ![e] = None]
    /\ pc' = [pc EXCEPT ![e] = "idle"]

Unlock(e) ==
    /\ cur' = [cur EXCEPT ![e] = None]
    /\ token' = [token EXCEPT ![e] = None]
    /\ pc' = [pc EXCEPT ![e] = "loop"]

OwnsAnyway(e) == TRUE                     \* mutant: the token is not compared

Owns(e) == lock[Name(cur[e], now[e])] = token[e]

ReleaseGet(e) ==
    /\ pc[e] = "release"
    /\ IF Owns(e)
       THEN pc' = [pc EXCEPT ![e] = "delete"] /\ UNCHANGED <<cur, token>>
       ELSE Unlock(e)
    /\ UNCHANGED <<minute, row, next, fired, lock, now, todo, listed, faults>>

ReleaseDel(e) ==
    /\ pc[e] = "delete"
    /\ lock' = [lock EXCEPT ![Name(cur[e], now[e])] = None]
    /\ Unlock(e)
    /\ UNCHANGED <<minute, row, next, fired, now, todo, listed, faults>>

\* GET or DEL fails: the error is ignored, the key stays.
ReleaseFails(e) ==
    /\ pc[e] \in {"release", "delete"} /\ Fault
    /\ Unlock(e)
    /\ UNCHANGED <<minute, row, next, fired, lock, now, todo, listed>>

\* The process dies and is started again.
Crash(e) ==
    /\ pc[e] # "idle" /\ Fault
    /\ pc' = [pc EXCEPT ![e] = "idle"]
    /\ now' = [now EXCEPT ![e] = 0]
    /\ todo' = [todo EXCEPT ![e] = {}]
    /\ listed' = [listed EXCEPT ![e] = [c \in Crons |-> None]]
    /\ cur' = [cur EXCEPT ![e] = None]
    /\ token' = [token EXCEPT ![e] = None]
    /\ UNCHANGED <<minute, row, next, fired, lock>>

Holds(e, k) == cur[e] # None /\ Name(cur[e], now[e]) = k /\ token[e] = lock[k]

Expire(k) ==
    /\ lock[k] # None
    /\ \A e \in Engines : Holds(e, k) => ~TtlCovers /\ (pc[e] = "delete" => ~DelInTime)
    /\ lock' = [lock EXCEPT ![k] = None]
    /\ UNCHANGED <<minute, row, next, fired, engine, faults>>

Evaluate(e) ==
    \/ ListDue(e) \/ EndList(e)
    \/ \E c \in Crons : Acquire(e, c) \/ NotAcquired(e, c)
    \/ Disable(e) \/ Spawn(e) \/ SpawnRefused(e) \/ UpdateFireTimes(e)
    \/ ReleaseGet(e) \/ ReleaseDel(e)

Step ==
    \/ Tick
    \/ \E c \in deployed.crons : Provide(c) \/ Delete(c)
    \/ \E e \in deployed.engines :
         \/ Evaluate(e)
         \/ \E c \in Crons : AcquireUnanswered(e, c)
         \/ DisableFails(e) \/ SpawnFails(e) \/ UpdateFails(e) \/ ReleaseFails(e)
         \/ Crash(e)
    \/ \E k \in Names : Expire(k)

Next == Step /\ UNCHANGED deployed

Spec == Init /\ [][Next]_vars

\* The engines' loops go on, time passes, keys expire.
FairSpec ==
    /\ Spec
    /\ WF_vars(Tick /\ UNCHANGED deployed)
    /\ \A e \in Engines :
         WF_vars(e \in deployed.engines /\ UNCHANGED deployed /\ Evaluate(e))
    /\ \A k \in Names : WF_vars(Expire(k) /\ UNCHANGED deployed)

(***************************************************************************)
(* Properties.                                                             *)
(***************************************************************************)
\* Under every name the engines use the lock as RedisLock says, so with what is
\* proved of it there.
LockPc(e, k) ==
    IF cur[e] = None \/ Name(cur[e], now[e]) # k THEN "out"
    ELSE IF pc[e] \in {"fn", "spawned"} THEN "fn" ELSE pc[e]
Lock(k) == INSTANCE RedisLock WITH
    Clients <- Engines, store <- lock[k],
    pc <- [e \in Engines |-> LockPc(e, k)],
    token <- [e \in Engines |-> IF LockPc(e, k) = "out" THEN None ELSE token[e]]
UsesLock ==
    /\ \A k \in Names : Lock(k)!Init
    /\ [][\A k \in Names : [Lock(k)!Next]_(Lock(k)!vars)]_vars

\* Two engines never fire a definition for the same minute at the same time.
FiresAlone ==
    \A e, f \in Engines :
        /\ pc[e] \in {"fn", "spawned"} /\ pc[f] \in {"fn", "spawned"}
        /\ Name(cur[e], now[e]) = Name(cur[f], now[f])
        => e = f

OneEngine == \A e, f \in deployed.engines : e = f

\* A lock whose time to live has run out during its firing may be another's by
\* the time it is released.  Release leaves it alone, as long as no key expires
\* just between its GET and its DEL.
ReleasesOwnLocks == [][\A k \in Names : Lock(k)!ReleasesOwn]_vars

OnSchedule(c, s) == \E i \in 0..s : s = i * Period[c]

\* One engine: next_fire_at moves on only after a job has been inserted for the
\* date it had, crashes and failures notwithstanding.  That job stands for the
\* minutes of the schedule that have gone by in the meantime as well (they are
\* not made up for); no minute after that of the evaluation is passed over,
\* however late the update comes.
AfterJob ==
    \A c \in Crons : OneEngine /\ next[c] # None /\ next'[c] # next[c] =>
        /\ fired[c][next[c]] > 0
        /\ \E e \in Engines :
             /\ cur[e] = c
             /\ \A s \in Slots :
                  next[c] < s /\ s < next'[c] /\ OnSchedule(c, s) => s <= now[e]
MovesOnAfterJob == [][AfterJob]_vars

\* One engine: a definition is fired once for each time it is due, faults apart.
OncePerSlot == OneEngine => \A c \in Crons, s \in Slots : fired[c][s] <= 1 + faults

\* Whatever becomes of the others on the list, refused or broken as they may be, a
\* definition that is due gets its turn; and if its expression is bad, it is
\* switched off, though the attempt to do so may fail.
DueIsTried ==
    \A c \in Crons :
        /\ Due(c, minute) ~> (~Due(c, minute) \/ \E e \in Engines : cur[e] = c)
        /\ c \in BadExpr => (Due(c, minute) ~> ~Due(c, minute))

\* "The lock key acts as a deduplication mechanism across multiple scheduler
\* instances": the same of any number of engines.
Deduplicated == \A c \in Crons, s \in Slots : fired[c][s] <= 1 + faults

\* "Creates a recurring cron job definition": one that exists is fired some time.
\* It is not, be its next_fire_at NULL or its job refused.
CreatedIsFired ==
    \A c \in Crons :
        row[c] = "active" ~> (row[c] # "active" \/ \E s \in Slots : fired[c][s] > 0)
=============================================================================
