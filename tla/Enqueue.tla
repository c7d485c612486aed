------------------------------- MODULE Enqueue -------------------------------
(***************************************************************************)
(* POST .../jobs: how concurrent requests to enqueue a job meet in the     *)
(* table "jobs", whose idempotency_key is unique over all queues.          *)
(*                                                                         *)
(* A request looks its idempotency key up, then reads the queue, then      *)
(* inserts: three statements in no transaction.  The id of the job it      *)
(* makes is new, so here it is the request itself.  What happens to the    *)
(* job afterwards is module JobQueue; rows go only with their queue.       *)
(***************************************************************************)
EXTENDS Naturals

CONSTANTS
    Requests,   \* HTTP requests; a client that repeats one sends another
    Queues,
    QueueOf,    \* the queue of each, named in the path
    KeyOf,      \* its idempotency_key: None, the empty string, or another
    Empty,      \* the empty string
    None,       \* no idempotency_key
    Tagged,     \* the requests that give "tags"; the others leave the slice nil
    MaxFaults   \* bound: statements that fail, or whose answer is lost

ASSUME EnqueueAssumption ==
    /\ QueueOf \in [Requests -> Queues]
    /\ DOMAIN KeyOf = Requests /\ Empty # None
    /\ Tagged \subseteq Requests
    /\ MaxFaults \in Nat
    /\ Requests \cap {"none", "not found", "conflict", "rejected", "unavailable"} = {}

VARIABLES
    rows,    \* the table jobs
    gone,    \* the jobs deleted with their queue
    queue,   \* the table queues
    pc,      \* how far each request has come
    answer,  \* the job, or the error, it was answered with
    faults

vars == <<rows, gone, queue, pc, answer, faults>>

Errors == {"not found", "conflict", "rejected", "unavailable"}

TypeOK ==
    /\ rows \subseteq Requests /\ gone \subseteq Requests
    /\ queue \in [Queues -> {"active", "paused", "deleted"}]
    /\ pc \in [Requests -> {"start", "queue", "insert", "done"}]
    /\ answer \in [Requests -> Requests \cup Errors \cup {"none"}]
    /\ \A r \in Requests : pc[r] = "done" <=> answer[r] # "none"
    /\ faults \in 0..MaxFaults

Init ==
    /\ rows = {} /\ gone = {}
    /\ queue = [q \in Queues |-> "active"]
    /\ pc = [r \in Requests |-> "start"]
    /\ answer = [r \in Requests |-> "none"]
    /\ faults = 0

\* The jobs in the table that have r's idempotency key.
SameKey(r) == {j \in rows : KeyOf[j] = KeyOf[r]}

GoesOn(r, to) == pc' = [pc EXCEPT ![r] = to] /\ UNCHANGED answer

AnswersAnyway(r, a) ==       \* mutant: errors are dropped on the way to the answer
    /\ pc' = [pc EXCEPT ![r] = "done"]
    /\ answer' = [answer EXCEPT ![r] = IF a \in Errors THEN r ELSE a]

AnswersAndGoesOn(r, a) ==    \* mutant: no return after the answer
    /\ pc' = [pc EXCEPT ![r] = "insert"]
    /\ answer' = [answer EXCEPT ![r] = a]

Answers(r, a) ==
    /\ pc' = [pc EXCEPT ![r] = "done"]
    /\ answer' = [answer EXCEPT ![r] = a]

Existing(r) == IF KeyOf[r] \in {None, Empty} THEN {} ELSE SameKey(r)

LookUp(r) ==
    /\ pc[r] = "start"
    /\ \/ Existing(r) = {} /\ GoesOn(r, "queue")
       \/ \E j \in Existing(r) : Answers(r, j)
    /\ UNCHANGED <<rows, gone, queue, faults>>

ReadQueue(r) ==
    /\ pc[r] = "queue"
    /\ \/ queue[QueueOf[r]] = "active" /\ GoesOn(r, "insert")
       \/ queue[QueueOf[r]] = "paused" /\ Answers(r, "conflict")
       \/ queue[QueueOf[r]] = "deleted" /\ Answers(r, "not found")
    /\ UNCHANGED <<rows, gone, queue, faults>>

NeverTaken(r) == FALSE       \* mutant: a unique index is missing

\* ON CONFLICT (idempotency_key) WHERE idempotency_key IS NOT NULL
KeyTaken(r) == KeyOf[r] # None /\ SameKey(r) # {}

\* tags is NOT NULL, and a nil slice is sent as NULL; queue_id is a foreign key.
Rejected(r) ==
    r \notin Tagged \/ (~KeyTaken(r) /\ queue[QueueOf[r]] = "deleted")

\* The INSERT puts a row into the table.
Inserts(r) == ~Rejected(r) /\ ~KeyTaken(r)

\* DO NOTHING is no error: the service answers with the job it meant to insert.
Insert(r) ==
    /\ pc[r] = "insert"
    /\ \/ Rejected(r) /\ Answers(r, "rejected") /\ UNCHANGED rows
       \/ ~Rejected(r) /\ KeyTaken(r) /\ Answers(r, r) /\ UNCHANGED rows
       \/ Inserts(r) /\ Answers(r, r) /\ rows' = rows \cup {r}
    /\ UNCHANGED <<gone, queue, faults>>

LooksUp(r) == pc[r] = "start" /\ KeyOf[r] \notin {None, Empty}

\* A statement fails; or the INSERT took effect and its answer was lost.
Fails(r) ==
    /\ pc[r] \in {"queue", "insert"} \/ LooksUp(r)
    /\ faults < MaxFaults /\ faults' = faults + 1
    /\ Answers(r, "unavailable")
    /\ \/ UNCHANGED rows
       \/ pc[r] = "insert" /\ Inserts(r) /\ rows' = rows \cup {r}
    /\ UNCHANGED <<gone, queue>>

Pause(q) ==
    /\ queue[q] = "active"
    /\ queue' = [queue EXCEPT ![q] = "paused"]
    /\ UNCHANGED <<rows, gone, pc, answer, faults>>

Resume(q) ==
    /\ queue[q] = "paused"
    /\ queue' = [queue EXCEPT ![q] = "active"]
    /\ UNCHANGED <<rows, gone, pc, answer, faults>>

\* ON DELETE CASCADE
DeleteQueue(q) ==
    LET cascade == {j \in rows : QueueOf[j] = q} IN
    /\ queue[q] # "deleted"
    /\ queue' = [queue EXCEPT ![q] = "deleted"]
    /\ rows' = rows \ cascade
    /\ gone' = gone \cup cascade
    /\ UNCHANGED <<pc, answer, faults>>

Next ==
    \/ \E r \in Requests : LookUp(r) \/ ReadQueue(r) \/ Insert(r) \/ Fails(r)
    \/ \E q \in Queues : Pause(q) \/ Resume(q) \/ DeleteQueue(q)

Spec == Init /\ [][Next]_vars

(***************************************************************************)
(* Properties.                                                             *)
(***************************************************************************)
\* Whatever the requests do at the same time, and whatever was lost on the way,
\* an idempotency key names one job at most.
OneJobPerKey == \A i, j \in rows : KeyOf[i] = KeyOf[j] => i = j \/ KeyOf[i] = None

\* A request answered with a job got its work into a queue: there is a job with
\* its idempotency key, its own job if it has none, unless that went with its
\* queue.  (Under which id is another matter: AnswerIsStored.)
KeyServed ==
    \A r \in Requests : answer[r] \in Requests =>
        \E j \in rows \cup gone :
            KeyOf[j] = KeyOf[r] /\ (KeyOf[r] = None => j = r /\ answer[r] = r)

\* "idempotent - same job returned": the job in an answer is in the table, unless
\* it went with its queue.
AnswerIsStored ==
    \A r \in Requests : answer[r] \in Requests => answer[r] \in rows \cup gone

\* "Enqueue submits a new job to the specified queue."
AnswerInQueue ==
    \A r \in Requests : answer[r] \in Requests => QueueOf[answer[r]] = QueueOf[r]

\* "Enqueues a new job for execution": the fields the documented body leaves out
\* may be left out.  A request is not rejected while its queue is there.
OptionalFieldsAccepted ==
    \A r \in Requests : answer[r] = "rejected" => queue[QueueOf[r]] = "deleted"
=============================================================================
