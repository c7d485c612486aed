-------------------------- MODULE QueueConfigProofs --------------------------
(***************************************************************************)
(* Theorems about QueueConfig, for any number of requests, any policies,   *)
(* any overrides and any number of attempts.                               *)
(***************************************************************************)
EXTENDS QueueConfig, FiniteSetTheorems, TLAPS

(***************************************************************************)
(* Types.                                                                  *)
(***************************************************************************)
LEMMA PolicyFields == \A p \in ValidPolicies : DOMAIN p = Fields
BY DEF ValidPolicies, Fields

LEMMA DefaultsValid ==
    ASSUME NEW p \in Policies
    PROVE  WithDefaults(p) \in ValidPolicies
<1>1. p \in ValidPolicies /\ DefaultMax \in 1..100
  BY QueueConfigAssumption
<1> QED
  BY <1>1 DEF WithDefaults, ValidPolicies

LEMMA WrittenRow ==
    ASSUME TypeOK, Exists, NEW r \in Requests
    PROVE  Written(r) \in Row
<1>1. queue \in Row
  BY DEF TypeOK, Exists
<1>2. CASE r \in Updates
  <2>1. AskedFor[r] \in ValidPolicies
    BY <1>2, QueueConfigAssumption
  <2>2. [queue EXCEPT !.policy = AskedFor[r]] \in Row
    BY <1>1, <2>1 DEF Row
  <2> QED
    BY <1>2, <2>2 DEF Written, UpdatedRow
<1>3. CASE r \notin Updates
  <2>1. (r \in Pauses) \in BOOLEAN
    OBVIOUS
  <2>2. \A b \in BOOLEAN : [queue EXCEPT !.paused = b] \in Row
    BY <1>1 DEF Row
  <2> QED
    BY <1>3, <2>1, <2>2 DEF Written
<1> QED
  BY <1>2, <1>3

LEMMA EndsType ==
    ASSUME TypeOK, NEW r \in Requests, Ends(r)
    PROVE  /\ pc' \in [Requests -> {"start", "write", "done"}]
           /\ copy' \in [Requests -> Row \cup {None, Deleted}]
BY DEF TypeOK, Ends

LEMMA EffectType ==
    ASSUME TypeOK, Exists, NEW r \in Requests, TakesEffect(r)
    PROVE  /\ queue' \in Row
           /\ inForce' \subseteq ValidPolicies
<1>1. queue' \in Row
  BY WrittenRow DEF TakesEffect
<1>2. queue'.policy \in ValidPolicies
  BY <1>1 DEF Row
<1> QED
  BY <1>1, <1>2 DEF TakesEffect, TypeOK

LEMMA TypeInit == Init => TypeOK
<1> SUFFICES ASSUME Init
             PROVE  TypeOK
  OBVIOUS
<1>1. faults \in 0..MaxFaults
  <2>1. MaxFaults \in Nat
    BY QueueConfigAssumption
  <2> QED
    BY <2>1 DEF Init
<1> QED
  BY <1>1 DEF Init, TypeOK

LEMMA TypeStep == TypeOK /\ [Next]_vars => TypeOK'
<1> SUFFICES ASSUME TypeOK, [Next]_vars
             PROVE  TypeOK'
  OBVIOUS
<1>1. CASE Create
  <2>1. PICK p \in Policies : queue' = [policy |-> WithDefaults(p), paused |-> FALSE]
    BY <1>1 DEF Create
  <2>2. queue' \in Row
    BY <2>1, DefaultsValid DEF Row
  <2> QED
    BY <1>1, <2>2 DEF Create, TypeOK, jobVars
<1>2. CASE Delete
  BY <1>2 DEF Delete, TypeOK
<1>3. ASSUME NEW r \in Requests, Read(r)
      PROVE  TypeOK'
  BY <1>3 DEF Read, TypeOK, jobVars
<1>4. ASSUME NEW r \in Requests, Write(r)
      PROVE  TypeOK'
  <2>1. /\ queue' \in Row \cup {None, Deleted}
        /\ inForce' \subseteq ValidPolicies
    BY <1>4, EffectType DEF Write, TypeOK
  <2>2. said' \in {"nothing", "paused", "resumed"}
    BY <1>4 DEF Write, TypeOK
  <2> QED
    BY <1>4, <2>1, <2>2, EndsType DEF Write, TypeOK
<1>5. ASSUME NEW r \in Requests, WriteFails(r)
      PROVE  TypeOK'
  <2>1. /\ queue' \in Row \cup {None, Deleted}
        /\ inForce' \subseteq ValidPolicies
    BY <1>5, EffectType DEF WriteFails, TypeOK
  <2>2. faults' \in 0..MaxFaults
    <3>1. MaxFaults \in Nat
      BY QueueConfigAssumption
    <3> QED
      BY <1>5, <3>1 DEF WriteFails, TypeOK
  <2> QED
    BY <1>5, <2>1, <2>2, EndsType DEF WriteFails, TypeOK
<1>6. CASE ReadQueue
  <2>1. CASE job' = "refused" /\ UNCHANGED <<policy, inForce>>
    BY <1>6, <2>1 DEF ReadQueue, TypeOK
  <2>2. CASE Exists /\ job' = "insert" /\ policy' = queue.policy /\ inForce' = {queue.policy}
    <3>1. queue.policy \in ValidPolicies
      BY <2>2 DEF TypeOK, Exists, Row
    <3> QED
      BY <1>6, <2>2, <3>1, PolicyFields DEF ReadQueue, TypeOK
  <2> QED
    BY <1>6, <2>1, <2>2 DEF ReadQueue
<1>7. CASE Insert
  BY <1>7 DEF Insert, TypeOK, Inherited
<1>8. CASE Retry
  BY <1>8 DEF Retry, TypeOK
<1>9. CASE UNCHANGED vars
  BY <1>9 DEF vars, jobVars, TypeOK
<1> QED
  BY <1>1, <1>2, <1>3, <1>4, <1>5, <1>6, <1>7, <1>8, <1>9 DEF Next

\* The row of the queue is a valid configuration whatever requests overlap.
THEOREM TypeCorrect == Spec => []TypeOK
BY TypeInit, TypeStep, PTL DEF Spec

(***************************************************************************)
(* Pausing.  What was said stands only while nobody is pausing or resuming *)
(* the queue, so the next write of the flag finds nothing said.            *)
(***************************************************************************)
PauseInv ==
    /\ PauseHolds
    /\ queue = None => said = "nothing"
    /\ said # "nothing" => \A r \in Pauses \cup Resumes : pc[r] # "write"

LEMMA PauseInit == Init => PauseInv
BY DEF Init, PauseInv, PauseHolds, Exists

\* A write of the configuration leaves the flag alone.
LEMMA UpdateKeepsFlag ==
    ASSUME TypeOK, Exists, NEW r \in Updates
    PROVE  Written(r).paused = queue.paused
<1>1. queue \in Row
  BY DEF TypeOK, Exists
<1> QED
  BY <1>1 DEF Written, UpdatedRow, Row

LEMMA FlagWritten ==
    ASSUME TypeOK, Exists, NEW r \in Requests, r \notin Updates
    PROVE  Written(r).paused = (r \in Pauses)
<1>1. queue \in Row
  BY DEF TypeOK, Exists
<1>2. "paused" \in DOMAIN queue
  BY <1>1 DEF Row
<1>3. \A b : [queue EXCEPT !.paused = b].paused = b
  BY <1>2
<1> QED
  BY <1>3 DEF Written

LEMMA PauseStep == TypeOK /\ PauseInv /\ [Next]_vars => PauseInv'
<1> SUFFICES ASSUME TypeOK, PauseInv, [Next]_vars
             PROVE  PauseInv'
  OBVIOUS
<1>0. /\ None # Deleted /\ None \notin Row
      /\ \A r \in Updates : r \notin Pauses \cup Resumes
  BY QueueConfigAssumption
<1>1. CASE Create
  BY <1>1 DEF Create, PauseInv, PauseHolds, Exists
<1>2. CASE Delete
  BY <1>0, <1>2 DEF Delete, PauseInv, PauseHolds, Exists
<1>3. ASSUME NEW r \in Requests, Read(r)
      PROVE  PauseInv'
  <2>1. /\ pc[r] = "start" /\ queue # None /\ queue' = queue
        /\ pc' = [pc EXCEPT ![r] = "done"] \/ pc' = [pc EXCEPT ![r] = "write"]
    BY <1>3 DEF Read
  <2>2. CASE said' = "nothing"
    BY <2>1, <2>2 DEF PauseInv, PauseHolds
  <2>3. CASE said' # "nothing"
    <3>1. said' = said /\ (r \in Updates \/ pc' = [pc EXCEPT ![r] = "done"])
      BY <1>3, <2>3 DEF Read
    <3>2. PauseHolds'
      BY <2>1, <3>1 DEF PauseInv, PauseHolds, Exists
    <3>3. \A s \in Pauses \cup Resumes : pc'[s] # "write"
      <4> SUFFICES ASSUME NEW s \in Pauses \cup Resumes
                   PROVE  pc'[s] # "write"
        OBVIOUS
      <4>1. pc[s] # "write" /\ s \in Requests /\ (s = r => r \notin Updates)
        BY <1>0, <2>3, <3>1 DEF PauseInv, Requests
      <4> QED
        BY <2>1, <3>1, <4>1 DEF TypeOK
    <3> QED
      BY <2>1, <3>2, <3>3 DEF PauseInv
  <2> QED
    BY <2>2, <2>3
<1>4. ASSUME NEW r \in Requests, pc[r] = "write", Ends(r), said' = said,
             \/ UNCHANGED queue
             \/ Exists /\ queue' = Written(r)
      PROVE  PauseInv'
  <2>1. CASE r \in Updates
    <3>1. PauseHolds'
      BY <1>4, <2>1, UpdateKeepsFlag DEF PauseInv, PauseHolds, Exists
    <3>2. queue' = None => said' = "nothing"
      BY <1>0, <1>4, <2>1, WrittenRow DEF PauseInv
    <3> QED
      BY <1>4, <3>1, <3>2 DEF PauseInv, Ends, TypeOK, Requests
  <2>2. CASE r \notin Updates
    <3>1. said = "nothing"
      BY <1>4, <2>2 DEF PauseInv, Requests
    <3> QED
      BY <1>4, <3>1 DEF PauseInv, PauseHolds
  <2> QED
    BY <2>1, <2>2
<1>5. ASSUME NEW r \in Requests, Write(r)
      PROVE  PauseInv'
  <2>1. CASE said' = said
    BY <1>4, <1>5, <2>1 DEF Write, TakesEffect
  <2>2. CASE said' # said
    <3>1. Exists /\ queue' = Written(r) /\ r \notin Updates
      BY <1>5, <2>2 DEF Write, TakesEffect
    <3>2. Written(r).paused = (r \in Pauses) /\ queue' # None
      BY <1>0, <3>1, FlagWritten, WrittenRow
    <3>3. /\ said' = "paused" => Alone(r) /\ r \in Pauses
          /\ said' = "resumed" => Alone(r) /\ r \notin Pauses
      BY <1>5, <3>1 DEF Write
    <3>4. said' # "nothing" => \A s \in Pauses \cup Resumes : pc'[s] # "write"
      <4> SUFFICES ASSUME said' # "nothing", NEW s \in Pauses \cup Resumes
                   PROVE  pc'[s] # "write"
        OBVIOUS
      <4>1. Alone(r)
        BY <1>5, <3>1 DEF Write
      <4> QED
        BY <1>5, <4>1 DEF Write, Ends, Alone, TypeOK, Requests
    <3>5. PauseHolds'
      BY <3>1, <3>2, <3>3 DEF PauseHolds
    <3> QED
      BY <3>2, <3>1, <3>4, <3>5 DEF PauseInv
  <2> QED
    BY <2>1, <2>2
<1>6. ASSUME NEW r \in Requests, WriteFails(r)
      PROVE  PauseInv'
  BY <1>4, <1>6 DEF WriteFails, TakesEffect
<1>7. CASE ReadQueue \/ Insert \/ Retry
  BY <1>7 DEF ReadQueue, Insert, Retry, PauseInv, PauseHolds, Exists
<1>8. CASE UNCHANGED vars
  BY <1>8 DEF vars, PauseInv, PauseHolds, Exists
<1> QED
  BY <1>1, <1>2, <1>3, <1>5, <1>6, <1>7, <1>8 DEF Next

\* A queue is paused, or running, as the last request to say so was told, although
\* updates of its configuration read the row before and write it after.
THEOREM PausesHold == Spec => []PauseHolds
<1>1. PauseInv => PauseHolds
  BY DEF PauseInv
<1> QED
  BY <1>1, TypeInit, TypeStep, PauseInit, PauseStep, PTL DEF Spec

(***************************************************************************)
(* The policy of a job.                                                    *)
(***************************************************************************)
PolicyInv ==
    /\ job = "insert" => policy \in inForce
    /\ PolicyOfOneMoment

LEMMA PolicyStep == TypeOK /\ PolicyInv /\ [Next]_vars => PolicyInv'
<1> SUFFICES ASSUME TypeOK, PolicyInv, [Next]_vars
             PROVE  PolicyInv'
  OBVIOUS
<1>1. ASSUME UNCHANGED <<job, override, policy>>, inForce \subseteq inForce'
      PROVE  PolicyInv'
  BY <1>1 DEF PolicyInv, PolicyOfOneMoment
<1>2. CASE Create
  BY <1>1, <1>2 DEF Create, jobVars
<1>3. CASE Delete
  BY <1>3 DEF Delete, PolicyInv, PolicyOfOneMoment
<1>4. ASSUME NEW r \in Requests, Read(r)
      PROVE  PolicyInv'
  BY <1>1, <1>4 DEF Read, jobVars
<1>5. ASSUME NEW r \in Requests, Write(r) \/ WriteFails(r)
      PROVE  PolicyInv'
  BY <1>1, <1>5 DEF Write, WriteFails, TakesEffect
<1>6. CASE ReadQueue
  BY <1>6 DEF ReadQueue, PolicyInv, PolicyOfOneMoment
<1>7. CASE Insert
  <2>1. CASE job' = "refused"
    BY <2>1 DEF PolicyInv, PolicyOfOneMoment
  <2>2. CASE job' = "retrying" /\ policy' = Inherited(policy)
    <3>1. policy \in inForce'
      BY <1>7 DEF Insert, PolicyInv
    <3>2. \A f \in Fields \ DOMAIN override' : policy'[f] = policy[f]
      BY <1>7, <2>2 DEF Insert, Inherited
    <3> QED
      BY <2>2, <3>1, <3>2 DEF PolicyInv, PolicyOfOneMoment
  <2> QED
    BY <1>7, <2>1, <2>2 DEF Insert
<1>8. CASE Retry
  BY <1>8 DEF Retry, PolicyInv, PolicyOfOneMoment
<1>9. CASE UNCHANGED vars
  BY <1>1, <1>9 DEF vars, jobVars
<1> QED
  BY <1>2, <1>3, <1>4, <1>5, <1>6, <1>7, <1>8, <1>9 DEF Next

\* What a job does not ask for itself is one policy that its queue had while the
\* job was being enqueued, and stays so through all its attempts.
THEOREM PolicyIsOne == Spec => []PolicyOfOneMoment
<1>1. Init => PolicyInv
  BY DEF Init, PolicyInv, PolicyOfOneMoment
<1>2. PolicyInv => PolicyOfOneMoment
  BY DEF PolicyInv
<1> QED
  BY <1>1, <1>2, TypeInit, TypeStep, PolicyStep, PTL DEF Spec

(***************************************************************************)
(* Powers of two, counted as the subsets of 1..n.                          *)
(***************************************************************************)
LEMMA PowerNat == ASSUME NEW n \in Nat PROVE 2^n \in Nat
<1>1. IsFiniteSet(1..n) /\ Cardinality(1..n) = n
  BY FS_Interval
<1> QED
  BY <1>1, FS_SUBSET, FS_CardinalityType

LEMMA PowerDoubles == ASSUME NEW n \in Nat PROVE 2^(n + 1) = 2 * 2^n
<1> DEFINE S == 1..n
           T == SUBSET S
           U == {x \cup {n + 1} : x \in T}
           h == [x \in T |-> x \cup {n + 1}]
<1>1. /\ IsFiniteSet(S) /\ Cardinality(S) = n
      /\ IsFiniteSet(1..(n + 1)) /\ Cardinality(1..(n + 1)) = n + 1
  BY FS_Interval
<1>2. /\ IsFiniteSet(T) /\ Cardinality(T) = 2^n
      /\ Cardinality(SUBSET (1..(n + 1))) = 2^(n + 1)
  BY <1>1, FS_SUBSET
<1>3. n + 1 \notin S /\ 1..(n + 1) = S \cup {n + 1}
  OBVIOUS
<1> HIDE DEF S
<1>4. h \in Bijection(T, U)
  <2>1. \A x, y \in T : x \cup {n + 1} = y \cup {n + 1} => x = y
    BY <1>3
  <2>2. h \in Injection(T, U)
    BY <2>1 DEF Injection, IsInjective
  <2>3. h \in Surjection(T, U)
    BY DEF Surjection
  <2> QED
    BY <2>2, <2>3 DEF Bijection
<1>5. IsFiniteSet(U) /\ Cardinality(U) = Cardinality(T)
  BY <1>2, <1>4, FS_Bijection DEF ExistsBijection
<1>6. SUBSET (1..(n + 1)) = T \cup U
  <2>1. ASSUME NEW x \in SUBSET (1..(n + 1)), n + 1 \in x
        PROVE  x \in U
    <3>1. x \ {n + 1} \in T /\ x = (x \ {n + 1}) \cup {n + 1}
      BY <1>3, <2>1
    <3> QED
      BY <3>1
  <2>2. ASSUME NEW x \in SUBSET (1..(n + 1)), n + 1 \notin x
        PROVE  x \in T
    BY <1>3, <2>2
  <2> QED
    BY <1>3, <2>1, <2>2
<1>7. T \cap U = {}
  BY <1>3
<1>8. Cardinality(T \cup U) = Cardinality(T) + Cardinality(U) - Cardinality(T \cap U)
  BY <1>2, <1>5, FS_Union
<1>9. Cardinality({}) = 0 /\ 2^n \in Nat
  BY FS_EmptySet, PowerNat
<1> DEFINE p == 2^n
           q == 2^(n + 1)
<1>10. Cardinality(T) = p /\ Cardinality(T \cup U) = q /\ Cardinality(T \cap U) = 0 /\ p \in Nat
  BY <1>2, <1>6, <1>7, <1>9
<1> HIDE DEF T, U, p, q
<1>11. q = 2 * p
  BY <1>5, <1>8, <1>10
<1> QED
  BY <1>11 DEF p, q

LEMMA PowerZero == 2^0 = 1
<1>1. IsFiniteSet({}) /\ Cardinality({}) = 0
  BY FS_EmptySet
<1>2. Cardinality(SUBSET {}) = 2^0
  BY <1>1, FS_SUBSET
<1>3. Cardinality({{}}) = 1
  BY FS_Singleton
<1> QED
  BY <1>2, <1>3

(***************************************************************************)
(* The operators of Backoff.                                               *)
(***************************************************************************)
LEMMA WrapInt == ASSUME NEW n \in Int PROVE Wrap(n) \in Int
<1>1. MaxInt \in Nat
  BY BackoffAssumption
<1> QED
  BY <1>1 DEF Wrap, MinInt

LEMMA WrapFits == ASSUME NEW n \in Nat, n <= MaxInt PROVE Wrap(n) = n
<1> DEFINE m == MaxInt + 1
<1>1. MaxInt \in Nat /\ m \in Nat \ {0}
  BY BackoffAssumption
<1>2. n + m \in Nat /\ n + m < 2 * m
  BY <1>1
<1>3. (n + m) % (2 * m) = n + m
  BY <1>1, <1>2
<1>4. n - MinInt = n + m /\ MinInt = -m
  BY <1>1 DEF MinInt
<1> QED
  BY <1>1, <1>3, <1>4 DEF Wrap

LEMMA CappedWithin ==
    ASSUME NEW b \in 0..MaxDelay, NEW d \in Int
    PROVE  CappedDelay(b, d) \in 0..MaxDelay
BY BackoffAssumption DEF CappedDelay

LEMMA CappedLesser ==
    ASSUME NEW b, NEW d \in Nat
    PROVE  CappedDelay(b, d) = Lesser(d, MaxDelay)
BY BackoffAssumption DEF CappedDelay, Lesser

LEMMA JitteredInt ==
    ASSUME NEW d \in Int, NEW r \in Jittered(d)
    PROVE  r \in Int
<1>1. CASE d > 0
  <2>1. PICK j \in Jitters(d) : r \in {Wrap(d + j), d - j}
    BY <1>1 DEF Jittered
  <2>2. j \in Int
    BY <1>1, <2>1 DEF Jitters
  <2> QED
    BY <2>1, <2>2, WrapInt
<1>2. CASE ~(d > 0)
  BY <1>2 DEF Jittered
<1> QED
  BY <1>1, <1>2

\* Jitter takes off or adds a half at most, if the sum fits.
LEMMA JitteredNear ==
    ASSUME NEW d \in Nat, 2 * d <= MaxInt, NEW r \in Jittered(d)
    PROVE  r \in Nat /\ d <= 2 * r /\ 2 * r <= 3 * d
<1>1. CASE d > 0
  <2>1. PICK j \in Jitters(d) : r \in {Wrap(d + j), d - j}
    BY <1>1 DEF Jittered
  <2>2. j \in Nat /\ 2 * j <= d
    BY <1>1, <2>1 DEF Jitters
  <2>3. Wrap(d + j) = d + j
    BY <2>2, WrapFits, BackoffAssumption
  <2> QED
    BY <2>1, <2>2, <2>3
<1>2. CASE d = 0
  BY <1>2 DEF Jittered
<1> QED
  BY <1>1, <1>2

LEMMA DoubledInt ==
    ASSUME NEW b \in Int, NEW n \in Nat \ {0}, NEW d \in Doubled(b, n)
    PROVE  d \in Int
<1>1. 2^(n - 1) \in Nat
  BY PowerNat
<1>2. MinInt \in Int /\ MaxInt \in Int
  BY BackoffAssumption DEF MinInt
<1>3. d \in {b, b * 2^(n - 1), MinInt, MaxInt}
  BY DEF Doubled
<1> QED
  BY <1>1, <1>2, <1>3

LEMMA RawInt ==
    ASSUME NEW s \in Strategies, NEW b \in Int, NEW n \in Nat \ {0}, NEW d \in RawDelays(s, b, n)
    PROVE  d \in Int
<1>1. CASE s = "fixed"
  BY <1>1 DEF RawDelays
<1>2. CASE s = "linear"
  BY <1>2, WrapInt DEF RawDelays
<1>3. CASE s = "exponential"
  BY <1>3, DoubledInt, JitteredInt DEF RawDelays
<1> QED
  BY <1>1, <1>2, <1>3 DEF Strategies

\* Overflow or not, a delay is within the cap.
LEMMA DelayWithin ==
    ASSUME NEW s \in Strategies, NEW b \in 0..MaxDelay, NEW n \in Nat \ {0},
           NEW d \in NextDelay(s, b, n)
    PROVE  d \in 0..MaxDelay
<1>1. PICK r \in RawDelays(s, b, n) : d = CappedDelay(b, r)
  BY DEF NextDelay
<1>2. b \in Int
  BY BackoffAssumption
<1> QED
  BY <1>1, <1>2, RawInt, CappedWithin

\* What fits when the base times 2^n does.
LEMMA Fits ==
    ASSUME NEW b \in Nat, NEW n \in Nat \ {0}, n < 2^n, 2^n <= MaxInt \div (b + 1)
    PROVE  /\ 2^(n - 1) \in Nat /\ 2 * (b * 2^(n - 1)) <= MaxInt
           /\ b > 0 => 2^(n - 1) <= MaxInt \div b
           /\ b * n <= MaxInt
           /\ 2^n <= MaxInt
<1> DEFINE p == 2^(n - 1)
<1>1. p \in Nat /\ 2^n = 2 * p
  BY PowerNat, PowerDoubles
<1>2. MaxInt \in Nat
  BY BackoffAssumption
<1> HIDE DEF p
<1>3. (2 * p) * (b + 1) <= MaxInt
  BY <1>1, <1>2
<1>4. 2 * (b * p) <= MaxInt /\ 2 * p <= MaxInt
  BY <1>1, <1>2, <1>3
<1>5. b > 0 => p <= MaxInt \div b
  <2>1. p * b <= MaxInt
    BY <1>1, <1>2, <1>4
  <2> QED
    BY <1>1, <1>2, <2>1
<1>6. b * n <= MaxInt
  <2>1. n < 2 * p
    BY <1>1
  <2>2. b * n <= b * (2 * p)
    BY <1>1, <2>1
  <2> QED
    BY <1>1, <1>2, <1>4, <2>2
<1> QED
  BY <1>1, <1>4, <1>5, <1>6 DEF p

\* While it fits, the exponential delay is the base doubled n - 1 times, jitter
\* apart, and the linear one the base times n.
LEMMA DelayNear ==
    ASSUME NEW s \in Strategies, NEW b \in 0..MaxDelay, NEW n \in Nat \ {0},
           NEW d \in NextDelay(s, b, n),
           n < 2^n, n >= 30 => 2^n >= 2^30, 2^n <= MaxInt \div (b + 1)
    PROVE  /\ s = "fixed" => d = Lesser(b, MaxDelay)
           /\ s = "linear" => d = Lesser(b * n, MaxDelay)
           /\ s = "exponential" =>
                /\ d \in Nat
                /\ Lesser(b * 2^(n - 1), MaxDelay) <= 2 * d
                /\ 2 * d <= 3 * Lesser(b * 2^(n - 1), MaxDelay)
<1> DEFINE p == 2^(n - 1)
<1>1. b \in Nat /\ MaxInt \in Nat /\ MaxDelay \in Nat
  BY BackoffAssumption
<1>2. /\ p \in Nat /\ 2 * (b * p) <= MaxInt /\ b * n <= MaxInt
      /\ b > 0 => p <= MaxInt \div b
      /\ 2^n <= MaxInt
  BY <1>1, Fits
<1>3. n <= 30
  <2>1. 2^n \in Nat /\ 2^30 \in Nat
    BY PowerNat
  <2> QED
    BY <1>1, <1>2, <2>1, BackoffAssumption
<1>4. PICK r \in RawDelays(s, b, n) : d = CappedDelay(b, r)
  BY DEF NextDelay
<1>5. CASE s = "fixed"
  BY <1>1, <1>4, <1>5, CappedLesser DEF RawDelays
<1>6. CASE s = "linear"
  <2>1. r = Wrap(b * n)
    BY <1>4, <1>6 DEF RawDelays
  <2>2. b * n \in Nat
    BY <1>1
  <2>3. r = b * n
    BY <1>2, <2>1, <2>2, WrapFits
  <2> QED
    BY <1>4, <1>6, <2>2, <2>3, CappedLesser
<1>7. CASE s = "exponential"
  <2> DEFINE x == b * p
  <2>1. PICK y \in Doubled(b, n) : r \in Jittered(y)
    BY <1>4, <1>7 DEF RawDelays
  <2>2. x \in Nat /\ 2 * x <= MaxInt
    BY <1>1, <1>2
  <2>3. y = x
    <3>1. CASE b > 0
      BY <1>2, <1>3, <2>1, <3>1 DEF Doubled
    <3>2. CASE b = 0
      BY <1>2, <2>1, <3>2 DEF Doubled
    <3> QED
      BY <1>1, <3>1, <3>2
  <2> HIDE DEF x
  <2>4. r \in Nat /\ x <= 2 * r /\ 2 * r <= 3 * x
    BY <2>1, <2>2, <2>3, JitteredNear
  <2>5. d = Lesser(r, MaxDelay)
    BY <1>4, <2>4, CappedLesser
  <2>6. /\ d \in Nat /\ Lesser(x, MaxDelay) <= 2 * d
        /\ 2 * d <= 3 * Lesser(x, MaxDelay)
    BY <1>1, <2>2, <2>4, <2>5 DEF Lesser
  <2> QED
    BY <1>7, <2>6 DEF x
<1> QED
  BY <1>5, <1>6, <1>7 DEF Strategies

(***************************************************************************)
(* The nominal delay.  Its recursion is followed by the attempts of the    *)
(* job, one step of the function for one step of the specification.        *)
(***************************************************************************)
Doubling(b, k, f) ==
    f = [n \in 1..k |-> IF n = 1 THEN Lesser(b, MaxDelay) ELSE Lesser(2 * f[n - 1], MaxDelay)]
Power(b, k) == [n \in 1..k |-> Lesser(b * 2^(n - 1), MaxDelay)]
OnlyPower(k) == \A b \in 0..MaxDelay : \A f : Doubling(b, k, f) => f = Power(b, k)

\* One more doubling, capped or not.
LEMMA PowerNext ==
    ASSUME NEW b \in 0..MaxDelay, NEW n \in Nat \ {0}
    PROVE  Lesser(2 * Lesser(b * 2^(n - 1), MaxDelay), MaxDelay) = Lesser(b * 2^n, MaxDelay)
<1> DEFINE p == 2^(n - 1)
<1>1. p \in Nat /\ 2^n = 2 * p
  BY PowerNat, PowerDoubles
<1>2. b \in Nat /\ MaxDelay \in Nat
  BY BackoffAssumption
<1> HIDE DEF p
<1>3. b * (2 * p) = 2 * (b * p) /\ b * p \in Nat
  BY <1>1, <1>2
<1>4. \A x \in Nat : Lesser(2 * Lesser(x, MaxDelay), MaxDelay) = Lesser(2 * x, MaxDelay)
  BY <1>2 DEF Lesser
<1>5. Lesser(2 * Lesser(b * p, MaxDelay), MaxDelay) = Lesser(b * 2^n, MaxDelay)
  BY <1>1, <1>3, <1>4
<1> QED
  BY <1>5 DEF p

LEMMA PowerFirst ==
    ASSUME NEW b \in 0..MaxDelay
    PROVE  Lesser(b * 2^0, MaxDelay) = Lesser(b, MaxDelay)
<1>1. b \in Nat
  BY BackoffAssumption
<1>2. b * 2^0 = b
  BY <1>1, PowerZero
<1> QED
  BY <1>2

\* The powers satisfy the recursion.
LEMMA PowerDoubling ==
    ASSUME NEW b \in 0..MaxDelay, NEW k \in Nat
    PROVE  Doubling(b, k, Power(b, k))
<1> DEFINE f == Power(b, k)
<1>1. ASSUME NEW n \in 1..k
      PROVE  f[n] = IF n = 1 THEN Lesser(b, MaxDelay) ELSE Lesser(2 * f[n - 1], MaxDelay)
  <2>1. f[n] = Lesser(b * 2^(n - 1), MaxDelay)
    BY DEF Power
  <2>2. CASE n = 1
    <3>1. f[n] = Lesser(b * 2^0, MaxDelay)
      BY <2>1, <2>2
    <3> QED
      BY <2>2, <3>1, PowerFirst
  <2>3. CASE n # 1
    <3> DEFINE m == n - 1
    <3>1. m \in Nat \ {0} /\ m \in 1..k
      BY <2>3
    <3>2. f[m] = Lesser(b * 2^(m - 1), MaxDelay)
      BY <3>1 DEF Power
    <3>3. Lesser(2 * f[m], MaxDelay) = Lesser(b * 2^m, MaxDelay)
      BY <3>1, <3>2, PowerNext
    <3> QED
      BY <2>1, <2>3, <3>3
  <2> QED
    BY <2>2, <2>3
<1>2. f = [n \in 1..k |-> f[n]]
  BY DEF Power
<1>3. f = [n \in 1..k |-> IF n = 1 THEN Lesser(b, MaxDelay) ELSE Lesser(2 * f[n - 1], MaxDelay)]
  BY <1>1, <1>2
<1> QED
  BY <1>3 DEF Doubling

\* Nothing else does, if nothing else did one attempt ago.
LEMMA OnlyPowerStep ==
    ASSUME NEW k \in Nat, OnlyPower(k)
    PROVE  OnlyPower(k + 1)
<1> SUFFICES ASSUME NEW b \in 0..MaxDelay, NEW f, Doubling(b, k + 1, f)
             PROVE  f = Power(b, k + 1)
  BY DEF OnlyPower
<1> DEFINE g == [n \in 1..k |-> f[n]]
<1>1. /\ f = [n \in 1..(k + 1) |-> f[n]]
      /\ \A n \in 1..(k + 1) :
           f[n] = IF n = 1 THEN Lesser(b, MaxDelay) ELSE Lesser(2 * f[n - 1], MaxDelay)
  BY DEF Doubling
<1>2. g = Power(b, k)
  <2>1. \A n \in 1..k :
          g[n] = IF n = 1 THEN Lesser(b, MaxDelay) ELSE Lesser(2 * g[n - 1], MaxDelay)
    <3> SUFFICES ASSUME NEW n \in 1..k
                 PROVE  g[n] = IF n = 1 THEN Lesser(b, MaxDelay) ELSE Lesser(2 * g[n - 1], MaxDelay)
      OBVIOUS
    <3>1. n \in 1..(k + 1) /\ g[n] = f[n]
      OBVIOUS
    <3>2. n # 1 => g[n - 1] = f[n - 1]
      OBVIOUS
    <3> HIDE DEF g
    <3> QED
      BY <1>1, <3>1, <3>2
  <2>2. g = [n \in 1..k |-> g[n]]
    OBVIOUS
  <2> HIDE DEF g
  <2>3. Doubling(b, k, g)
    BY <2>1, <2>2 DEF Doubling
  <2> QED
    BY <2>3 DEF OnlyPower
<1>3. \A n \in 1..k : f[n] = Lesser(b * 2^(n - 1), MaxDelay)
  <2> SUFFICES ASSUME NEW n \in 1..k
               PROVE  f[n] = Lesser(b * 2^(n - 1), MaxDelay)
    OBVIOUS
  <2>1. g[n] = f[n]
    OBVIOUS
  <2> HIDE DEF g
  <2> QED
    BY <1>2, <2>1 DEF Power
<1>4. f[k + 1] = Lesser(b * 2^k, MaxDelay)
  <2>1. CASE k = 0
    <3>1. f[1] = Lesser(b, MaxDelay)
      BY <1>1, <2>1
    <3> QED
      BY <2>1, <3>1, PowerFirst
  <2>2. CASE k # 0
    <3>1. f[k + 1] = Lesser(2 * f[k], MaxDelay)
      <4>1. k + 1 \in 1..(k + 1) /\ k + 1 # 1 /\ (k + 1) - 1 = k
        BY <2>2
      <4> DEFINE n == k + 1
      <4>2. f[n] = Lesser(2 * f[n - 1], MaxDelay)
        BY <1>1, <4>1
      <4> QED
        BY <4>1, <4>2
    <3>2. f[k] = Lesser(b * 2^(k - 1), MaxDelay)
      BY <1>3, <2>2
    <3> QED
      BY <2>2, <3>1, <3>2, PowerNext
  <2> QED
    BY <2>1, <2>2
<1>5. \A n \in 1..(k + 1) : f[n] = Lesser(b * 2^(n - 1), MaxDelay)
  <2> SUFFICES ASSUME NEW n \in 1..(k + 1)
               PROVE  f[n] = Lesser(b * 2^(n - 1), MaxDelay)
    OBVIOUS
  <2>1. CASE n = k + 1
    <3>1. n - 1 = k
      BY <2>1
    <3> QED
      BY <1>4, <2>1, <3>1
  <2>2. CASE n # k + 1
    BY <1>3, <2>2
  <2> QED
    BY <2>1, <2>2
<1> QED
  BY <1>1, <1>5 DEF Power

(***************************************************************************)
(* The delays of a job.                                                    *)
(***************************************************************************)
DelayInv ==
    /\ job \in {"unasked", "insert"} => attempt = 0
    /\ job = "retrying" => policy.strategy \in Strategies
    /\ Retried => delay \in NextDelay(policy.strategy, policy.base, attempt)

\* What is known of the powers, and of the recursion, as far as the attempts went.
PowerInv ==
    /\ attempt < 2^attempt
    /\ attempt >= 30 => 2^attempt >= 2^30
    /\ OnlyPower(attempt)

LEMMA DelayInit == Init => DelayInv
BY DEF Init, DelayInv, Retried

LEMMA DelayStep == TypeOK /\ DelayInv /\ [Next]_vars => DelayInv'
<1> SUFFICES ASSUME TypeOK, DelayInv, [Next]_vars
             PROVE  DelayInv'
  OBVIOUS
<1>1. ASSUME UNCHANGED <<job, policy, attempt, delay>>
      PROVE  DelayInv'
  BY <1>1 DEF DelayInv, Retried
<1>2. CASE Create
  BY <1>1, <1>2 DEF Create, jobVars
<1>3. CASE Delete
  <2>1. job' \in {job, "gone"} /\ UNCHANGED <<policy, attempt, delay>>
    BY <1>3 DEF Delete
  <2> QED
    BY <1>1, <2>1 DEF DelayInv, Retried
<1>4. ASSUME NEW r \in Requests, Read(r) \/ Write(r) \/ WriteFails(r)
      PROVE  DelayInv'
  BY <1>1, <1>4 DEF Read, Write, WriteFails, jobVars
<1>5. CASE ReadQueue
  BY <1>5 DEF ReadQueue, DelayInv, Retried
<1>6. CASE Insert
  <2>1. attempt' = 0
    BY <1>6 DEF Insert, DelayInv
  <2>2. job' = "retrying" => policy'.strategy \in Strategies
    BY <1>6 DEF Insert
  <2>3. job' \in {"retrying", "refused"}
    BY <1>6 DEF Insert
  <2> QED
    BY <2>1, <2>2, <2>3 DEF DelayInv, Retried
<1>7. CASE Retry
  <2>1. job = "retrying" /\ UNCHANGED policy /\ attempt' = attempt + 1
    BY <1>7 DEF Retry
  <2>2. \/ job' = "dead"
        \/ job' = job /\ delay' \in NextDelay(policy.strategy, policy.base, attempt + 1)
    BY <1>7 DEF Retry
  <2> QED
    BY <2>1, <2>2 DEF DelayInv, Retried
<1>8. CASE UNCHANGED vars
  BY <1>1, <1>8 DEF vars, jobVars
<1> QED
  BY <1>2, <1>3, <1>4, <1>5, <1>6, <1>7, <1>8 DEF Next

LEMMA PowerInit == Init => PowerInv
<1> SUFFICES ASSUME attempt = 0
             PROVE  PowerInv
  BY DEF Init
<1>1. OnlyPower(0)
  <2> SUFFICES ASSUME NEW b \in 0..MaxDelay, NEW f, Doubling(b, 0, f)
               PROVE  f = Power(b, 0)
    BY DEF OnlyPower
  <2>1. f = [n \in 1..0 |-> f[n]]
    BY DEF Doubling
  <2> QED
    BY <2>1 DEF Power
<1> QED
  BY <1>1, PowerZero DEF PowerInv

LEMMA PowerStep == TypeOK /\ PowerInv /\ [Next]_vars => PowerInv'
<1> SUFFICES ASSUME TypeOK, PowerInv, [Next]_vars
             PROVE  PowerInv'
  OBVIOUS
<1>1. CASE UNCHANGED attempt
  BY <1>1 DEF PowerInv
<1>2. CASE attempt' = attempt + 1
  <2> DEFINE n == attempt + 1
  <2>1. attempt \in Nat
    BY DEF TypeOK
  <2>2. 2^attempt \in Nat /\ 2^30 \in Nat /\ 2^n = 2 * 2^attempt
    BY <2>1, PowerNat, PowerDoubles
  <2>3. n < 2^n
    BY <2>1, <2>2 DEF PowerInv
  <2>4. n >= 30 => 2^n >= 2^30
    <3>1. CASE n = 30
      <4> HIDE DEF n
      <4>1. 2^n = 2^30
        BY <3>1
      <4> QED
        BY <2>2, <4>1
    <3>2. CASE n > 30
      BY <2>1, <2>2, <3>2 DEF PowerInv
    <3> QED
      BY <2>1, <3>1, <3>2
  <2>5. OnlyPower(n)
    BY <2>1, OnlyPowerStep DEF PowerInv
  <2> QED
    BY <1>2, <2>3, <2>4, <2>5 DEF PowerInv
<1>3. UNCHANGED attempt \/ attempt' = attempt + 1
  BY DEF Next, Create, Delete, Read, Write, WriteFails, ReadQueue, Insert, Retry, jobVars, vars
<1> QED
  BY <1>1, <1>2, <1>3

\* The delays of any number of attempts, and of any policy whose base is within the
\* cap, are neither negative nor above the cap, though the products overflow.
THEOREM DelaysWithinCap == Spec => []WithinCap
<1>1. TypeOK /\ DelayInv => WithinCap
  BY DelayWithin DEF TypeOK, DelayInv, WithinCap, Retried
<1> QED
  BY <1>1, TypeInit, TypeStep, DelayInit, DelayStep, PTL DEF Spec

\* The nominal delay of the exponential strategy, unrolled.
LEMMA NominalPower ==
    ASSUME TypeOK, PowerInv, policy.base \in 0..MaxDelay, attempt > 0
    PROVE  DoublesUpToCap = Lesser(policy.base * 2^(attempt - 1), MaxDelay)
<1> DEFINE b == policy.base
           F == CHOOSE f : f = [n \in 1..attempt |->
                  IF n = 1 THEN Lesser(b, MaxDelay) ELSE Lesser(2 * f[n - 1], MaxDelay)]
<1>1. DoublesUpToCap = F[attempt]
  BY DEF DoublesUpToCap
<1>2. attempt \in Nat /\ attempt \in 1..attempt
  BY DEF TypeOK
<1>3. Doubling(b, attempt, F)
  <2>1. Doubling(b, attempt, Power(b, attempt))
    BY <1>2, PowerDoubling
  <2> QED
    BY <2>1 DEF Doubling
<1> HIDE DEF F
<1>4. F = Power(b, attempt)
  BY <1>3 DEF PowerInv, OnlyPower
<1> QED
  BY <1>1, <1>2, <1>4 DEF Power

LEMMA BacksOff == TypeOK /\ DelayInv /\ PowerInv => NearNominal
<1> SUFFICES ASSUME TypeOK, DelayInv, PowerInv, Retried, policy.base \in 0..MaxDelay,
                    2^attempt <= MaxInt \div (policy.base + 1)
             PROVE  Nears
  BY DEF NearNominal
<1> DEFINE s == policy.strategy
           b == policy.base
<1>1. /\ s \in Strategies /\ attempt \in Nat \ {0}
      /\ delay \in NextDelay(s, b, attempt)
  BY DEF DelayInv, Retried, TypeOK
<1>2. b \in Nat /\ MaxDelay \in Nat
  BY BackoffAssumption
<1>3. /\ s = "fixed" => delay = Lesser(b, MaxDelay)
      /\ s = "linear" => delay = Lesser(b * attempt, MaxDelay)
      /\ s = "exponential" =>
           /\ delay \in Nat
           /\ Lesser(b * 2^(attempt - 1), MaxDelay) <= 2 * delay
           /\ 2 * delay <= 3 * Lesser(b * 2^(attempt - 1), MaxDelay)
  BY <1>1, DelayNear DEF PowerInv
<1>4. CASE s = "fixed"
  <2>1. Nominal = delay /\ delay \in Nat
    BY <1>2, <1>3, <1>4 DEF Nominal, Lesser
  <2> QED
    BY <2>1 DEF Nears
<1>5. CASE s = "linear"
  <2>1. Nominal = delay
    BY <1>3, <1>5 DEF Nominal
  <2>2. delay \in Nat
    BY <1>1, <1>2, <1>3, <1>5 DEF Lesser
  <2> QED
    BY <2>1, <2>2 DEF Nears
<1>6. CASE s = "exponential"
  <2>1. Nominal = DoublesUpToCap
    BY <1>6 DEF Nominal
  <2>2. Nominal = Lesser(b * 2^(attempt - 1), MaxDelay)
    BY <1>1, <2>1, NominalPower
  <2> QED
    BY <1>3, <1>6, <2>2 DEF Nears
<1> QED
  BY <1>1, <1>4, <1>5, <1>6 DEF Strategies

\* While the product fits 64 bits the delay is the nominal one of the strategy, or
\* within a half of it for the exponential one: the shift, the jitter and the cap
\* together do what the recursion "doubled, up to the cap" says.
THEOREM DelaysNearNominal == Spec => []NearNominal
BY TypeInit, TypeStep, DelayInit, DelayStep, PowerInit, PowerStep, BacksOff, PTL DEF Spec
=============================================================================
