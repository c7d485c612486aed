---------------------------- MODULE EnqueueProofs ----------------------------
(***************************************************************************)
(* Theorems about Enqueue.  OneJobPerKey is inductive as it stands: only   *)
(* an INSERT adds a row, and it does so only if no row has the key, in one *)
(* statement.  KeyServed needs TypeOK.                                     *)
(***************************************************************************)
EXTENDS Enqueue, TLAPS

(***************************************************************************)
(* Types.                                                                  *)
(***************************************************************************)
\* The part of TypeOK about the answers.
AnswersOK ==
    /\ pc \in [Requests -> {"start", "queue", "insert", "done"}]
    /\ answer \in [Requests -> Requests \cup Errors \cup {"none"}]
    /\ \A r \in Requests : pc[r] = "done" <=> answer[r] # "none"

LEMMA AnswersType ==
    ASSUME AnswersOK, NEW r \in Requests, NEW a \in Requests \cup Errors, Answers(r, a)
    PROVE  AnswersOK'
<1>1. a # "none"
  BY EnqueueAssumption DEF Errors
<1> QED
  BY <1>1 DEF AnswersOK, Answers

LEMMA GoesOnType ==
    ASSUME AnswersOK, NEW r \in Requests, pc[r] # "done",
           NEW to \in {"queue", "insert"}, GoesOn(r, to)
    PROVE  AnswersOK'
BY DEF AnswersOK, GoesOn

LEMMA NextType == TypeOK /\ [Next]_vars => TypeOK'
<1> SUFFICES ASSUME TypeOK, [Next]_vars
             PROVE  TypeOK'
  OBVIOUS
<1>1. AnswersOK
  BY DEF TypeOK, AnswersOK
<1>2. ASSUME AnswersOK', UNCHANGED <<gone, queue>>, rows' \subseteq Requests,
             faults' \in 0..MaxFaults
      PROVE  TypeOK'
  BY <1>2 DEF TypeOK, AnswersOK
<1>3. ASSUME NEW r \in Requests, LookUp(r)
      PROVE  TypeOK'
  <2>1. \A j \in Existing(r) : j \in Requests \cup Errors
    BY DEF Existing, SameKey, TypeOK
  <2>2. AnswersOK'
    BY <1>1, <1>3, <2>1, AnswersType, GoesOnType DEF LookUp
  <2> QED
    BY <1>2, <1>3, <2>2 DEF LookUp, TypeOK
<1>4. ASSUME NEW r \in Requests, ReadQueue(r)
      PROVE  TypeOK'
  <2>1. AnswersOK'
    BY <1>1, <1>4, AnswersType, GoesOnType DEF ReadQueue, Errors
  <2> QED
    BY <1>2, <1>4, <2>1 DEF ReadQueue, TypeOK
<1>5. ASSUME NEW r \in Requests, Insert(r)
      PROVE  TypeOK'
  <2>1. AnswersOK'
    BY <1>1, <1>5, AnswersType DEF Insert, Errors
  <2> QED
    BY <1>2, <1>5, <2>1 DEF Insert, TypeOK
<1>6. ASSUME NEW r \in Requests, Fails(r)
      PROVE  TypeOK'
  <2>1. MaxFaults \in Nat
    BY EnqueueAssumption
  <2>2. AnswersOK'
    BY <1>1, <1>6, AnswersType DEF Fails, Errors
  <2>3. rows' \subseteq Requests /\ faults' \in 0..MaxFaults
    BY <1>6, <2>1 DEF Fails, TypeOK
  <2> QED
    BY <1>2, <1>6, <2>2, <2>3 DEF Fails
<1>7. ASSUME NEW q \in Queues, Pause(q) \/ Resume(q) \/ DeleteQueue(q)
      PROVE  TypeOK'
  BY <1>7 DEF Pause, Resume, DeleteQueue, TypeOK
<1>8. CASE UNCHANGED vars
  BY <1>8 DEF vars, TypeOK
<1> QED
  BY <1>3, <1>4, <1>5, <1>6, <1>7, <1>8 DEF Next

\* Every variable keeps its type: in particular no request is
\* answered twice or goes on after its answer.
THEOREM TypeCorrect == Spec => []TypeOK
<1>1. Init => TypeOK
  <2>1. MaxFaults \in Nat
    BY EnqueueAssumption
  <2> QED
    BY <2>1 DEF Init, TypeOK
<1> QED
  BY <1>1, NextType, PTL DEF Spec

(***************************************************************************)
(* Keys.                                                                   *)
(***************************************************************************)
\* A statement that inserts the row of job j leaves every key with one job.
LEMMA InsertKeepsKeys ==
    ASSUME NEW j, OneJobPerKey, Inserts(j), rows' = rows \cup {j}
    PROVE  OneJobPerKey'
BY DEF OneJobPerKey, Inserts, KeyTaken, SameKey

LEMMA NextKeys == OneJobPerKey /\ [Next]_vars => OneJobPerKey'
<1> SUFFICES ASSUME OneJobPerKey, [Next]_vars
             PROVE  OneJobPerKey'
  OBVIOUS
<1>1. ASSUME rows' \subseteq rows
      PROVE  OneJobPerKey'
  BY <1>1 DEF OneJobPerKey
<1>2. ASSUME NEW r \in Requests, LookUp(r) \/ ReadQueue(r)
      PROVE  OneJobPerKey'
  BY <1>1, <1>2 DEF LookUp, ReadQueue
<1>3. ASSUME NEW r \in Requests, Insert(r) \/ Fails(r)
      PROVE  OneJobPerKey'
  BY <1>1, <1>3, InsertKeepsKeys DEF Insert, Fails
<1>4. ASSUME NEW q \in Queues, Pause(q) \/ Resume(q) \/ DeleteQueue(q)
      PROVE  OneJobPerKey'
  BY <1>1, <1>4 DEF Pause, Resume, DeleteQueue
<1>5. CASE UNCHANGED vars
  BY <1>1, <1>5 DEF vars
<1> QED
  BY <1>2, <1>3, <1>4, <1>5 DEF Next

\* An idempotency key names one job at most, for any number of requests, in any
\* order of their statements, with any failures (JobRepo.Create, ON CONFLICT).
THEOREM KeysUnique == Spec => []OneJobPerKey
<1>1. Init => OneJobPerKey
  BY DEF Init, OneJobPerKey
<1> QED
  BY <1>1, NextKeys, PTL DEF Spec

(***************************************************************************)
(* Answers.                                                                *)
(***************************************************************************)
Served(r, a) ==
    a \in Requests => \E j \in rows \cup gone :
        KeyOf[j] = KeyOf[r] /\ (KeyOf[r] = None => j = r /\ a = r)

\* What is in the table, or went with its queue, remains there.
LEMMA ServedStays ==
    ASSUME NEW r, NEW a, Served(r, a), rows \cup gone \subseteq rows' \cup gone'
    PROVE  Served(r, a)'
BY DEF Served

LEMMA NextServed == TypeOK /\ KeyServed /\ [Next]_vars => KeyServed'
<1> SUFFICES ASSUME TypeOK, KeyServed, [Next]_vars
             PROVE  KeyServed'
  OBVIOUS
<1> USE EnqueueAssumption
<1>1. rows \cup gone \subseteq rows' \cup gone'
  BY DEF Next, LookUp, ReadQueue, Insert, Fails, Pause, Resume, DeleteQueue, vars
<1>2. \A r \in Requests : Served(r, answer[r])'
                          \/ answer'[r] # answer[r]
  BY <1>1, ServedStays DEF KeyServed, Served
<1>3. ASSUME NEW r \in Requests, NEW a, Answers(r, a), Served(r, a)'
      PROVE  KeyServed'
  <2>1. \A d \in Requests \ {r} : answer'[d] = answer[d]
    BY <1>3 DEF Answers, TypeOK
  <2>2. answer'[r] = a
    BY <1>3 DEF Answers, TypeOK
  <2>3. \A d \in Requests : Served(d, answer[d])'
    BY <1>2, <1>3, <2>1, <2>2 DEF Served
  <2> QED
    BY <2>3 DEF KeyServed, Served
<1>4. ASSUME UNCHANGED answer
      PROVE  KeyServed'
  BY <1>2, <1>4 DEF KeyServed, Served
<1>5. ASSUME NEW r \in Requests, LookUp(r)
      PROVE  KeyServed'
  <2>1. \A j \in Existing(r) : Served(r, j)'
    BY <1>1 DEF Existing, SameKey, Served
  <2> QED
    BY <1>3, <1>4, <1>5, <2>1 DEF LookUp, GoesOn
<1>6. ASSUME NEW r \in Requests, ReadQueue(r)
      PROVE  KeyServed'
  <2>1. Served(r, "conflict")' /\ Served(r, "not found")'
    BY DEF Served
  <2> QED
    BY <1>3, <1>4, <1>6, <2>1 DEF ReadQueue, GoesOn
<1>7. ASSUME NEW r \in Requests, Insert(r)
      PROVE  KeyServed'
  <2>1. Served(r, "rejected")'
    BY DEF Served
  <2>2. KeyTaken(r) => Served(r, r)'
    BY <1>1 DEF KeyTaken, SameKey, Served
  <2>3. rows' = rows \cup {r} => Served(r, r)'
    BY DEF Served
  <2> QED
    BY <1>3, <1>7, <2>1, <2>2, <2>3 DEF Insert
<1>8. ASSUME NEW r \in Requests, Fails(r)
      PROVE  KeyServed'
  <2>1. Served(r, "unavailable")'
    BY DEF Served
  <2> QED
    BY <1>3, <1>8, <2>1 DEF Fails
<1>9. CASE UNCHANGED vars \/ \E q \in Queues : Pause(q) \/ Resume(q) \/ DeleteQueue(q)
  BY <1>4, <1>9 DEF Pause, Resume, DeleteQueue, vars
<1> QED
  BY <1>5, <1>6, <1>7, <1>8, <1>9 DEF Next

\* A request that is answered with a job got its work into a queue, whatever
\* the other requests do meanwhile and whatever fails.
THEOREM AnsweredServed == Spec => []KeyServed
<1>1. Init => KeyServed
  BY EnqueueAssumption DEF Init, KeyServed
<1>2. TypeOK /\ KeyServed /\ [Next]_vars => KeyServed'
  BY NextServed
<1> QED
  BY <1>1, <1>2, TypeCorrect, PTL DEF Spec
=============================================================================
