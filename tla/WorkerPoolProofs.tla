-------------------------- MODULE WorkerPoolProofs --------------------------
(***************************************************************************)
(* Theorems about WorkerPool, for any number of goroutines, loops, jobs.   *)
(***************************************************************************)
EXTENDS WorkerPool, FiniteSetTheorems, SequenceTheorems, TLAPS

(***************************************************************************)
(* The channel.                                                            *)
(***************************************************************************)
\* The dispatcher has jobs in its hand only while it submits, and the channel is
\* closed only after every loop, the dispatcher included, has returned.
CloseInv ==
    /\ disp # "submit" => hand = <<>>
    /\ closed => disp = "returned"

LEMMA CloseInit == Init => CloseInv
BY DEF Init, CloseInv

LEMMA CloseStep == CloseInv /\ [Next]_vars => CloseInv'
<1> SUFFICES ASSUME CloseInv, [Next]_vars
             PROVE  CloseInv'
  OBVIOUS
<1> USE DEF CloseInv
<1>1. CASE Tick \/ Return \/ NextQueue
  BY <1>1 DEF Tick, Return, NextQueue, pool
<1>2. CASE ClaimBatch
  BY <1>2 DEF ClaimBatch, pool
<1>3. CASE Submit \/ Submitted
  BY <1>3 DEF Submit, Submitted, pool
<1>4. ASSUME NEW g \in Goroutines, Worker(g)
      PROVE  CloseInv'
  BY <1>4 DEF Worker, Receive, CountUp, Execute, CountDown, Exit, dispatcher
<1>5. ASSUME NEW l \in Loops, LoopReturns(l)
      PROVE  CloseInv'
  BY <1>5 DEF LoopReturns, dispatcher, pool
<1>6. CASE Cancel \/ Stop
  BY <1>6 DEF Cancel, Stop, dispatcher, pool
<1>7. CASE StopPool
  BY <1>7 DEF StopPool, LoopsDone, dispatcher
<1>8. CASE UNCHANGED vars
  BY <1>8 DEF vars, dispatcher, pool
<1> QED
  BY <1>1, <1>2, <1>3, <1>4, <1>5, <1>6, <1>7, <1>8 DEF Next, Dispatcher

\* No job is ever submitted to a closed channel, in whatever state the signal
\* finds the dispatcher: the order of Service.Start (wait for the loops, then
\* stop the pool) is enough.
THEOREM NeverSendsOnClosed == Spec => []NoSendOnClosed
<1>1. CloseInv => NoSendOnClosed
  BY DEF CloseInv, NoSendOnClosed
<1> QED
  BY <1>1, CloseInit, CloseStep, PTL DEF Spec

(***************************************************************************)
(* Sequences of distinct jobs.                                             *)
(***************************************************************************)
LEMMA DistinctCount ==
    ASSUME NEW S, NEW s \in Seq(S), IsInjective(s)
    PROVE  IsFiniteSet(Range(s)) /\ Cardinality(Range(s)) = Len(s)
<1>1. /\ Len(s) \in Nat /\ DOMAIN s = 1..Len(s)
      /\ s \in [1..Len(s) -> Range(s)]
  BY LenProperties DEF Range
<1>2. s \in Bijection(1..Len(s), Range(s))
  BY <1>1 DEF Bijection, Injection, Surjection, Range
<1>3. ExistsBijection(1..Len(s), Range(s))
  BY <1>2 DEF ExistsBijection
<1>4. IsFiniteSet(1..Len(s)) /\ Cardinality(1..Len(s)) = Len(s)
  BY <1>1, FS_Interval
<1> QED
  BY <1>3, <1>4, FS_Bijection

LEMMA AppendDistinct ==
    ASSUME NEW S, NEW s \in Seq(S), NEW x \in S
    PROVE  /\ Append(s, x) \in Seq(S) /\ Len(Append(s, x)) = Len(s) + 1
           /\ Range(Append(s, x)) = Range(s) \cup {x}
           /\ IsInjective(s) /\ x \notin Range(s) => IsInjective(Append(s, x))
<1>1. /\ Append(s, x) \in Seq(S) /\ Len(Append(s, x)) = Len(s) + 1
      /\ \A i \in 1..Len(s) : Append(s, x)[i] = s[i]
      /\ Append(s, x)[Len(s) + 1] = x
  BY AppendProperties
<1>2. /\ Len(s) \in Nat /\ DOMAIN s = 1..Len(s)
      /\ DOMAIN Append(s, x) = 1..Len(s) + 1
  BY <1>1, LenProperties
<1>3. Range(Append(s, x)) = Range(s) \cup {x}
  BY <1>1, <1>2 DEF Range
<1>4. ASSUME IsInjective(s), x \notin Range(s)
      PROVE  IsInjective(Append(s, x))
  BY <1>1, <1>2, <1>4 DEF IsInjective, Range
<1> QED
  BY <1>1, <1>3, <1>4

LEMMA TailDistinct ==
    ASSUME NEW S, NEW s \in Seq(S), s # <<>>
    PROVE  /\ Head(s) \in S /\ Head(s) \in Range(s)
           /\ Tail(s) \in Seq(S) /\ Len(Tail(s)) = Len(s) - 1
           /\ Range(s) = Range(Tail(s)) \cup {Head(s)}
           /\ IsInjective(s) => IsInjective(Tail(s)) /\ Head(s) \notin Range(Tail(s))
<1>1. /\ Tail(s) \in Seq(S) /\ Len(Tail(s)) = Len(s) - 1
      /\ Head(s) \in S /\ Head(s) = s[1]
      /\ \A i \in 1..Len(Tail(s)) : Tail(s)[i] = s[i + 1]
  BY HeadTailProperties
<1>2. /\ Len(s) \in Nat \ {0} /\ DOMAIN s = 1..Len(s)
      /\ DOMAIN Tail(s) = 1..Len(s) - 1
  BY <1>1, LenProperties, EmptySeq
<1>3. Head(s) \in Range(s)
  BY <1>1, <1>2 DEF Range
<1>4. Range(s) = Range(Tail(s)) \cup {Head(s)}
  <2>1. ASSUME NEW i \in 1..Len(s)
        PROVE  s[i] \in Range(Tail(s)) \cup {Head(s)}
    <3>1. CASE i = 1
      BY <1>1, <3>1
    <3>2. CASE i # 1
      <4>1. i - 1 \in 1..Len(s) - 1 /\ Tail(s)[i - 1] = s[i]
        BY <1>1, <1>2, <3>2
      <4> QED
        BY <1>2, <4>1 DEF Range
    <3> QED
      BY <3>1, <3>2
  <2>2. ASSUME NEW i \in 1..Len(s) - 1
        PROVE  Tail(s)[i] \in Range(s)
    <3>1. i + 1 \in 1..Len(s) /\ Tail(s)[i] = s[i + 1]
      BY <1>1, <1>2
    <3> QED
      BY <1>2, <3>1 DEF Range
  <2> QED
    BY <1>2, <1>3, <2>1, <2>2 DEF Range
<1>5. ASSUME IsInjective(s)
      PROVE  IsInjective(Tail(s)) /\ Head(s) \notin Range(Tail(s))
  BY <1>1, <1>2, <1>5 DEF IsInjective, Range
<1> QED
  BY <1>1, <1>3, <1>4, <1>5

\* The jobs of a batch, in some order.
LEMMA BatchSequence ==
    ASSUME NEW S, IsFiniteSet(S)
    PROVE  /\ SetToSeq(S) \in Seq(S) /\ Len(SetToSeq(S)) = Cardinality(S)
           /\ IsInjective(SetToSeq(S)) /\ Range(SetToSeq(S)) = S
<1> DEFINE n == Cardinality(S)
           f == SetToSeq(S)
<1>1. n \in Nat /\ ExistsBijection(1..n, S)
  BY FS_CardinalityType
<1>2. \E b \in [1..n -> S] : IsInjective(b)
  BY <1>1 DEF ExistsBijection, Bijection, Injection
<1>3. f \in [1..n -> S] /\ IsInjective(f)
  BY <1>2 DEF SetToSeq
<1>4. f \in Surjection(1..n, S)
  <2>1. f \in Injection(1..n, S)
    BY <1>3 DEF Injection
  <2>2. Cardinality(1..n) = n
    BY <1>1, FS_Interval
  <2> QED
    BY <2>1, <2>2, FS_Injection
<1>5. Range(f) = S
  BY <1>3, <1>4 DEF Range, Surjection
<1>6. f \in Seq(S) /\ Len(f) = n
  BY <1>1, <1>3, SeqDef, Z3
<1> QED
  BY <1>3, <1>5, <1>6

(***************************************************************************)
(* Types, and the counter: it is raised after a goroutine has received a   *)
(* job and lowered after the execution, so it counts those in between.     *)
(***************************************************************************)
Counted == {g \in Goroutines : gor[g].at \in {"executing", "executed"}}

TypeInv ==
    /\ TypeOK
    /\ active = Cardinality(Counted)
    /\ claimSize <= concurrency /\ Len(hand) <= concurrency

LEMMA CountFacts ==
    /\ IsFiniteSet(Goroutines) /\ concurrency \in Nat \ {0}
    /\ \A S \in SUBSET Goroutines :
         IsFiniteSet(S) /\ Cardinality(S) \in 0..concurrency
<1>1. IsFiniteSet(Goroutines) /\ Goroutines # {}
  BY PoolAssumption
<1>2. concurrency \in Nat /\ concurrency # 0
  BY <1>1, FS_CardinalityType, FS_EmptySet DEF concurrency
<1>3. ASSUME NEW S \in SUBSET Goroutines
      PROVE  IsFiniteSet(S) /\ Cardinality(S) \in 0..concurrency
  <2>1. IsFiniteSet(S) /\ Cardinality(S) <= concurrency
    BY <1>1, FS_Subset DEF concurrency
  <2> QED
    BY <1>2, <2>1, FS_CardinalityType
<1> QED
  BY <1>1, <1>2, <1>3

LEMMA PoolTypeInit == Init => TypeInv
<1> SUFFICES ASSUME Init
             PROVE  TypeInv
  OBVIOUS
<1>1. Counted = {} /\ active = 0
  BY DEF Init, Counted
<1>2. Cardinality(Counted) = 0
  BY <1>1, FS_EmptySet
<1>3. Passes \in Nat /\ BatchSize \in Nat /\ concurrency \in Nat
  BY PoolAssumption, CountFacts
<1>4. <<>> \in Seq(Jobs) /\ Len(<<>>) = 0
  BY EmptySeq
<1>5. gor \in [Goroutines -> Receiving \cup Working \cup Exited]
  BY DEF Init, Receiving
<1>6. loop \in [Loops -> {"running", "returned"}]
  BY DEF Init
<1>7. /\ hand \in Seq(Jobs) /\ jobsChan \in Seq(Jobs)
      /\ Len(hand) = 0 /\ Len(jobsChan) = 0
  BY <1>4, Zenon DEF Init
<1>8. /\ backlog \subseteq Jobs /\ executed \subseteq Jobs
      /\ ctx \in {"live", "cancelled"} /\ main \in {"waiting", "draining", "stopped"}
      /\ disp \in {"select", "pass", "claim", "submit", "returned"} /\ closed \in BOOLEAN
      /\ queuesLeft = 0 /\ claimSize = 0 /\ active = 0
  BY Zenon DEF Init
<1>9. TypeOK
  BY <1>3, <1>5, <1>6, <1>7, <1>8 DEF TypeOK
<1> QED
  BY <1>1, <1>2, <1>3, <1>7, <1>8, <1>9 DEF TypeInv

LEMMA DispatcherTypes ==
    ASSUME TypeInv, Dispatcher
    PROVE  TypeInv'
<1>0. /\ Passes \in Nat /\ BatchSize \in Nat /\ concurrency \in Nat
      /\ Len(hand) \in Nat /\ Len(jobsChan) \in Nat
  BY PoolAssumption, CountFacts, LenProperties DEF TypeInv, TypeOK
<1>1. ASSUME UNCHANGED <<gor, active>>
      PROVE  active' = Cardinality(Counted)'
  BY <1>1 DEF TypeInv, Counted
<1>2. CASE Tick \/ Return \/ Submitted
  BY <1>0, <1>1, <1>2 DEF TypeInv, TypeOK, Tick, Return, Submitted, pool, concurrency
<1>3. CASE NextQueue
  <2>1. queuesLeft' \in 0..Passes /\ claimSize' \in 0..BatchSize /\ claimSize' <= concurrency
    BY <1>0, <1>3 DEF NextQueue, TypeInv, TypeOK, AvailableWorkers
  <2> QED
    BY <1>1, <1>3, <2>1 DEF NextQueue, TypeInv, TypeOK, pool, concurrency
<1>4. CASE ClaimBatch
  <2>1. PICK S \in SUBSET backlog : /\ Cardinality(S) <= claimSize
                                    /\ backlog' = backlog \ S /\ hand' = SetToSeq(S)
    BY <1>4 DEF ClaimBatch
  <2>2. IsFiniteSet(S)
    BY <2>1, PoolAssumption, FS_Subset DEF TypeInv, TypeOK
  <2>3. hand' \in Seq(S) /\ Len(hand') = Cardinality(S)
    BY <2>1, <2>2, BatchSequence
  <2>4. hand' \in Seq(Jobs)
    BY <2>1, <2>3, SeqMonotonic DEF TypeInv, TypeOK
  <2>5. Len(hand') <= concurrency
    BY <1>0, <2>1, <2>2, <2>3, FS_CardinalityType DEF TypeInv, TypeOK
  <2> QED
    BY <1>0, <1>1, <1>4, <2>1, <2>4, <2>5 DEF ClaimBatch, TypeInv, TypeOK, pool, concurrency
<1>5. CASE Submit
  <2>1. hand # <<>> /\ hand' = Tail(hand) /\ jobsChan' = Append(jobsChan, Head(hand))
    BY <1>5 DEF Submit, HandAfterSubmit
  <2>2. /\ hand' \in Seq(Jobs) /\ Len(hand') = Len(hand) - 1
        /\ jobsChan' \in Seq(Jobs) /\ Len(jobsChan') = Len(jobsChan) + 1
    BY <2>1, TailDistinct, AppendDistinct DEF TypeInv, TypeOK
  <2>3. Len(hand') <= concurrency /\ Len(jobsChan') <= concurrency
    BY <1>0, <1>5, <2>2 DEF Submit, Full, TypeInv
  <2> QED
    BY <1>1, <1>5, <2>2, <2>3 DEF Submit, TypeInv, TypeOK, concurrency
<1> QED
  BY <1>2, <1>3, <1>4, <1>5 DEF Dispatcher

\* What the step of a goroutine does to it: the job goes with it.
LEMMA GoroutineMoves ==
    ASSUME TypeOK, NEW g \in Goroutines, NEW from, NEW to \in {"executing", "executed"},
           from \in {"received", "executing"}, Move(g, from, to)
    PROVE  /\ gor[g].job \in Jobs
           /\ gor' = [gor EXCEPT ![g] = [at |-> to, job |-> gor[g].job]]
           /\ gor' \in [Goroutines -> Receiving \cup Working \cup Exited]
<1>1. gor[g] \in Working
  BY DEF TypeOK, Move, Receiving, Exited
<1>2. [gor[g] EXCEPT !.at = to] = [at |-> to, job |-> gor[g].job]
  BY <1>1 DEF Working
<1>3. gor' = [gor EXCEPT ![g] = [at |-> to, job |-> gor[g].job]]
  BY <1>2 DEF Move
<1>4. gor[g].job \in Jobs
  BY <1>1 DEF Working
<1>5. [at |-> to, job |-> gor[g].job] \in Working
  BY <1>4 DEF Working
<1> QED
  BY <1>3, <1>4, <1>5 DEF TypeOK

LEMMA WorkerTypes ==
    ASSUME TypeInv, NEW g \in Goroutines, Worker(g)
    PROVE  TypeInv'
<1>0. /\ concurrency \in Nat /\ Len(jobsChan) \in Nat /\ TypeOK
      /\ Counted \subseteq Goroutines /\ Counted' \subseteq Goroutines
  BY CountFacts, LenProperties DEF TypeInv, TypeOK, Counted
<1>1. /\ IsFiniteSet(Counted) /\ Cardinality(Counted)' \in 0..concurrency
      /\ Cardinality(Counted) = active
  BY <1>0, CountFacts DEF TypeInv
<1>2. CASE Receive(g)
  <2>1. /\ Head(jobsChan) \in Jobs /\ jobsChan' \in Seq(Jobs)
        /\ Len(jobsChan') = Len(jobsChan) - 1
    BY <1>0, <1>2, TailDistinct DEF Receive, TypeOK
  <2>2. gor' = [gor EXCEPT ![g] = [at |-> "received", job |-> Head(jobsChan)]]
    BY <1>2 DEF Receive
  <2>3. gor' \in [Goroutines -> Receiving \cup Working \cup Exited]
    BY <1>0, <2>1, <2>2 DEF TypeOK, Working
  <2>4. Counted' = Counted
    BY <1>0, <1>2, <2>2 DEF Receive, Counted, TypeOK
  <2> QED
    BY <1>0, <1>2, <2>1, <2>3, <2>4 DEF Receive, TypeInv, TypeOK, dispatcher, concurrency
<1>3. CASE CountUp(g)
  <2>1. /\ gor' = [gor EXCEPT ![g] = [at |-> "executing", job |-> gor[g].job]]
        /\ gor' \in [Goroutines -> Receiving \cup Working \cup Exited]
    BY <1>0, <1>3, GoroutineMoves DEF CountUp
  <2>2. Counted' = Counted \cup {g} /\ g \notin Counted
    BY <1>0, <1>3, <2>1 DEF CountUp, Move, Counted, TypeOK
  <2>3. active' = Cardinality(Counted)'
    BY <1>1, <1>3, <2>2, FS_AddElement DEF CountUp
  <2> QED
    BY <1>0, <1>1, <1>3, <2>1, <2>3 DEF CountUp, TypeInv, TypeOK, dispatcher, concurrency
<1>4. CASE Execute(g)
  <2>1. /\ gor[g].job \in Jobs
        /\ gor' = [gor EXCEPT ![g] = [at |-> "executed", job |-> gor[g].job]]
        /\ gor' \in [Goroutines -> Receiving \cup Working \cup Exited]
    BY <1>0, <1>4, GoroutineMoves DEF Execute
  <2>2. Counted' = Counted
    BY <1>0, <1>4, <2>1 DEF Execute, Move, Counted, TypeOK
  <2> QED
    BY <1>0, <1>4, <2>1, <2>2 DEF Execute, TypeInv, TypeOK, dispatcher, concurrency
<1>5. CASE CountDown(g)
  <2>1. gor' = [gor EXCEPT ![g] = [at |-> "receiving"]]
    BY <1>5 DEF CountDown
  <2>2. gor' \in [Goroutines -> Receiving \cup Working \cup Exited]
    BY <1>0, <2>1 DEF TypeOK, Receiving
  <2>3. Counted' = Counted \ {g} /\ g \in Counted
    BY <1>0, <1>5, <2>1 DEF CountDown, Counted, TypeOK
  <2>4. active' = Cardinality(Counted)'
    BY <1>1, <1>5, <2>3, FS_RemoveElement DEF CountDown
  <2> QED
    BY <1>0, <1>1, <1>5, <2>2, <2>4 DEF CountDown, TypeInv, TypeOK, dispatcher, concurrency
<1>6. CASE Exit(g)
  <2>1. gor' = [gor EXCEPT ![g] = [at |-> "exited"]]
    BY <1>6 DEF Exit
  <2>2. gor' \in [Goroutines -> Receiving \cup Working \cup Exited]
    BY <1>0, <2>1 DEF TypeOK, Exited
  <2>3. Counted' = Counted
    BY <1>0, <1>6, <2>1 DEF Exit, Counted, TypeOK
  <2> QED
    BY <1>0, <1>6, <2>2, <2>3 DEF Exit, TypeInv, TypeOK, dispatcher, concurrency
<1> QED
  BY <1>2, <1>3, <1>4, <1>5, <1>6 DEF Worker

LEMMA PoolTypeStep == TypeInv /\ [Next]_vars => TypeInv'
<1> SUFFICES ASSUME TypeInv, [Next]_vars
             PROVE  TypeInv'
  OBVIOUS
<1>1. ASSUME UNCHANGED <<backlog, dispatcher, jobsChan, active, gor, executed>>,
             closed' \in BOOLEAN, ctx' \in {"live", "cancelled"},
             loop' \in [Loops -> {"running", "returned"}],
             main' \in {"waiting", "draining", "stopped"}
      PROVE  TypeInv'
  BY <1>1 DEF TypeInv, TypeOK, Counted, dispatcher, concurrency
<1>2. ASSUME NEW l \in Loops, LoopReturns(l)
      PROVE  TypeInv'
  BY <1>1, <1>2 DEF LoopReturns, pool, TypeInv, TypeOK
<1>3. CASE Cancel \/ Stop \/ UNCHANGED vars
  BY <1>1, <1>3 DEF Cancel, Stop, vars, pool, TypeInv, TypeOK
<1>4. CASE StopPool
  BY <1>1, <1>4 DEF StopPool, TypeInv, TypeOK
<1> QED
  BY <1>2, <1>3, <1>4, DispatcherTypes, WorkerTypes DEF Next

\* TypeOK is invariant: the counter stays between none and all of the goroutines,
\* the channel within its capacity.
THEOREM TypeCorrect == Spec => []TypeOK
<1>1. TypeInv => TypeOK
  BY DEF TypeInv
<1> QED
  BY <1>1, PoolTypeInit, PoolTypeStep, PTL DEF Spec

(***************************************************************************)
(* Where the jobs are.  Each job is in the database, in the dispatcher's   *)
(* hand, in the channel, with one goroutine, or done.                      *)
(***************************************************************************)
PlaceInv ==
    /\ IsInjective(hand) /\ IsInjective(jobsChan)
    /\ Range(hand) \cap Range(jobsChan) = {}
    /\ Waiting \cap backlog = {} /\ executed \cap (backlog \cup Waiting) = {}
    /\ \A g \in Busy :
         /\ gor[g].job \notin backlog \cup Waiting
         /\ gor[g].at = "executed" <=> gor[g].job \in executed
    /\ \A g, h \in Busy : gor[g].job = gor[h].job => g = h
    /\ Jobs \subseteq backlog \cup Waiting \cup InWork \cup executed

LEMMA PlaceInit == Init => PlaceInv
<1> SUFFICES ASSUME Init
             PROVE  PlaceInv
  OBVIOUS
<1>1. Busy = {} /\ executed = {} /\ backlog = Jobs
  BY DEF Init, Busy
<1>2. hand = <<>> /\ jobsChan = <<>>
  BY Zenon DEF Init
<1>3. Range(<<>>) = {} /\ IsInjective(<<>>)
  BY DEF Range, IsInjective
<1> QED
  BY <1>1, <1>2, <1>3 DEF PlaceInv, Waiting

LEMMA DispatcherPlaces ==
    ASSUME TypeInv, CloseInv, PlaceInv, Dispatcher
    PROVE  PlaceInv'
<1>0. /\ hand \in Seq(Jobs) /\ jobsChan \in Seq(Jobs) /\ backlog \subseteq Jobs
      /\ gor' = gor /\ executed' = executed /\ Busy' = Busy /\ InWork' = InWork
  BY DEF TypeInv, TypeOK, Dispatcher, Tick, Return, NextQueue, ClaimBatch, Submit, Submitted,
         pool, Busy, InWork
<1>1. CASE Tick \/ Return \/ NextQueue \/ Submitted
  BY <1>0, <1>1 DEF Tick, Return, NextQueue, Submitted, pool, PlaceInv, Waiting
<1>2. CASE ClaimBatch
  <2>1. PICK S \in SUBSET backlog : backlog' = backlog \ S /\ hand' = SetToSeq(S)
    BY <1>2 DEF ClaimBatch
  <2>2. IsFiniteSet(S)
    BY <1>0, <2>1, PoolAssumption, FS_Subset
  <2>3. IsInjective(hand') /\ Range(hand') = S
    BY <2>1, <2>2, BatchSequence
  <2>4. Range(hand) = {}
    BY <1>2 DEF ClaimBatch, CloseInv, Range
  <2>5. jobsChan' = jobsChan
    BY <1>2 DEF ClaimBatch, pool
  <2>6. Waiting = Range(jobsChan) /\ Waiting' = S \cup Range(jobsChan)
    BY <2>3, <2>4, <2>5 DEF Waiting
  <2> QED
    BY <1>0, <2>1, <2>3, <2>5, <2>6 DEF PlaceInv
<1>3. CASE Submit
  <2> DEFINE x == Head(hand)
  <2>1. /\ hand # <<>> /\ hand' = Tail(hand) /\ jobsChan' = Append(jobsChan, x)
        /\ backlog' = backlog
    BY <1>3 DEF Submit, HandAfterSubmit
  <2>2. /\ x \in Jobs /\ Range(hand) = Range(hand') \cup {x}
        /\ IsInjective(hand') /\ x \notin Range(hand')
    BY <1>0, <2>1, TailDistinct DEF PlaceInv
  <2>3. x \notin Range(jobsChan)
    BY <2>2 DEF PlaceInv
  <2>4. Range(jobsChan') = Range(jobsChan) \cup {x} /\ IsInjective(jobsChan')
    BY <1>0, <2>1, <2>2, <2>3, AppendDistinct DEF PlaceInv
  <2>5. Waiting' = Waiting
    BY <2>2, <2>4 DEF Waiting
  <2> QED
    BY <1>0, <2>1, <2>2, <2>3, <2>4, <2>5 DEF PlaceInv
<1> QED
  BY <1>1, <1>2, <1>3 DEF Dispatcher

LEMMA WorkerPlaces ==
    ASSUME TypeInv, PlaceInv, NEW g \in Goroutines, Worker(g)
    PROVE  PlaceInv'
<1>0. /\ hand \in Seq(Jobs) /\ jobsChan \in Seq(Jobs) /\ hand' = hand /\ backlog' = backlog
      /\ gor \in [Goroutines -> Receiving \cup Working \cup Exited] /\ TypeOK
  BY DEF TypeInv, TypeOK, Worker, Receive, CountUp, Execute, CountDown, Exit, dispatcher
<1>1. CASE Receive(g)
  <2> DEFINE x == Head(jobsChan)
  <2>1. /\ jobsChan # <<>> /\ jobsChan' = Tail(jobsChan) /\ executed' = executed
        /\ gor' = [gor EXCEPT ![g] = [at |-> "received", job |-> x]]
        /\ g \notin Busy
    BY <1>1 DEF Receive, Busy
  <2>2. /\ Range(jobsChan) = Range(jobsChan') \cup {x}
        /\ IsInjective(jobsChan') /\ x \notin Range(jobsChan')
    BY <1>0, <2>1, TailDistinct DEF PlaceInv
  <2>3. /\ gor'[g] = [at |-> "received", job |-> x]
        /\ \A h \in Goroutines \ {g} : gor'[h] = gor[h]
    BY <1>0, <2>1
  <2>4. Busy' = Busy \cup {g}
    BY <2>3 DEF Busy
  <2>5. InWork' = InWork \cup {x}
    BY <2>1, <2>3, <2>4 DEF InWork, Busy
  <2>6. Waiting = Waiting' \cup {x} /\ x \notin Waiting'
    BY <1>0, <2>2 DEF Waiting, PlaceInv
  <2>7. \A h \in Busy : h # g /\ gor'[h] = gor[h] /\ gor[h].job # x
    BY <2>1, <2>3, <2>6 DEF PlaceInv, Busy
  <2>8. x \notin executed /\ x \notin backlog
    BY <2>6 DEF PlaceInv
  <2>9. \A h \in Busy' :
          /\ gor'[h].job \notin backlog' \cup Waiting'
          /\ gor'[h].at = "executed" <=> gor'[h].job \in executed'
    BY <1>0, <2>1, <2>3, <2>4, <2>6, <2>7, <2>8 DEF PlaceInv
  <2>10. \A h, i \in Busy' : gor'[h].job = gor'[i].job => h = i
    BY <2>3, <2>4, <2>7 DEF PlaceInv
  <2> QED
    BY <1>0, <2>1, <2>2, <2>5, <2>6, <2>9, <2>10 DEF PlaceInv
<1>2. ASSUME NEW to \in {"executing", "executed"}, NEW from \in {"received", "executing"},
             Move(g, from, to), jobsChan' = jobsChan,
             executed' = executed \cup (IF to = "executed" THEN {gor[g].job} ELSE {})
      PROVE  PlaceInv'
  <2>1. gor' = [gor EXCEPT ![g] = [at |-> to, job |-> gor[g].job]] /\ gor[g].at = from
    BY <1>0, <1>2, GoroutineMoves DEF Move
  <2>2. /\ gor'[g] = [at |-> to, job |-> gor[g].job]
        /\ \A h \in Goroutines \ {g} : gor'[h] = gor[h]
    BY <1>0, <2>1
  <2>3. /\ Busy' = Busy /\ g \in Busy
        /\ \A h \in Busy : gor'[h].job = gor[h].job
    BY <1>2, <2>1, <2>2 DEF Busy
  <2>4. InWork' = InWork /\ Waiting' = Waiting
    BY <1>0, <1>2, <2>3 DEF InWork, Waiting
  <2>5. gor[g].job \notin executed /\ gor[g].job \notin backlog \cup Waiting
    BY <1>2, <2>1, <2>3 DEF PlaceInv
  <2>6. \A h \in Busy : gor'[h].at = "executed" <=> gor'[h].job \in executed'
    BY <1>2, <2>2, <2>3, <2>5 DEF PlaceInv, Busy
  <2> QED
    BY <1>0, <1>2, <2>3, <2>4, <2>5, <2>6 DEF PlaceInv
<1>3. CASE CountUp(g)
  BY <1>2, <1>3 DEF CountUp
<1>4. CASE Execute(g)
  BY <1>2, <1>4 DEF Execute
<1>5. CASE CountDown(g)
  <2>1. /\ gor[g].at = "executed" /\ gor' = [gor EXCEPT ![g] = [at |-> "receiving"]]
        /\ jobsChan' = jobsChan /\ executed' = executed
    BY <1>5 DEF CountDown
  <2>2. gor'[g].at = "receiving" /\ \A h \in Goroutines \ {g} : gor'[h] = gor[h]
    BY <1>0, <2>1
  <2>3. Busy' = Busy \ {g} /\ g \in Busy /\ gor[g].job \in executed
    BY <2>1, <2>2 DEF Busy, PlaceInv
  <2>4. InWork \subseteq InWork' \cup executed
    BY <2>2, <2>3 DEF InWork, Busy
  <2> QED
    BY <1>0, <2>1, <2>2, <2>3, <2>4 DEF PlaceInv, Waiting, Busy
<1>6. CASE Exit(g)
  <2>1. /\ gor[g].at = "receiving" /\ gor' = [gor EXCEPT ![g] = [at |-> "exited"]]
        /\ jobsChan' = jobsChan /\ executed' = executed
    BY <1>6 DEF Exit
  <2>2. gor'[g].at = "exited" /\ \A h \in Goroutines \ {g} : gor'[h] = gor[h]
    BY <1>0, <2>1
  <2>3. Busy' = Busy /\ \A h \in Busy : gor'[h] = gor[h]
    BY <2>1, <2>2 DEF Busy
  <2>4. InWork' = InWork
    BY <2>3 DEF InWork
  <2> QED
    BY <1>0, <2>1, <2>3, <2>4 DEF PlaceInv, Waiting
<1> QED
  BY <1>1, <1>3, <1>4, <1>5, <1>6 DEF Worker

LEMMA PlaceStep == TypeInv /\ CloseInv /\ PlaceInv /\ [Next]_vars => PlaceInv'
<1> SUFFICES ASSUME TypeInv, CloseInv, PlaceInv, [Next]_vars
             PROVE  PlaceInv'
  OBVIOUS
<1>1. CASE UNCHANGED <<backlog, hand, jobsChan, gor, executed>>
  BY <1>1 DEF PlaceInv, Waiting, Busy, InWork
<1>2. ASSUME NEW l \in Loops, LoopReturns(l)
      PROVE  PlaceInv'
  BY <1>1, <1>2 DEF LoopReturns, dispatcher, pool
<1>3. CASE Cancel \/ StopPool \/ Stop \/ UNCHANGED vars
  BY <1>1, <1>3 DEF Cancel, StopPool, Stop, vars, dispatcher, pool
<1> QED
  BY <1>2, <1>3, DispatcherPlaces, WorkerPlaces DEF Next

LEMMA PoolInvariant == Spec => [](TypeInv /\ CloseInv /\ PlaceInv)
BY PoolTypeInit, PoolTypeStep, CloseInit, CloseStep, PlaceInit, PlaceStep, PTL DEF Spec

\* No goroutine has the job of another.
LEMMA WorkCount ==
    ASSUME TypeInv, PlaceInv
    PROVE  Cardinality(InWork) = Cardinality(Busy)
<1> DEFINE job == [g \in Busy |-> gor[g].job]
<1>1. job \in Bijection(Busy, InWork)
  BY DEF Bijection, Injection, Surjection, IsInjective, InWork, PlaceInv
<1>2. IsFiniteSet(Busy)
  BY CountFacts DEF Busy
<1>3. ExistsBijection(Busy, InWork)
  BY <1>1 DEF ExistsBijection
<1> QED
  BY <1>2, <1>3, FS_Bijection

LEMMA WaitingCount ==
    ASSUME TypeInv, PlaceInv
    PROVE  IsFiniteSet(Waiting) /\ Cardinality(Waiting) = Len(hand) + Len(jobsChan)
<1>1. hand \in Seq(Jobs) /\ jobsChan \in Seq(Jobs)
  BY DEF TypeInv, TypeOK
<1>2. /\ IsFiniteSet(Range(hand)) /\ Cardinality(Range(hand)) = Len(hand)
      /\ IsFiniteSet(Range(jobsChan)) /\ Cardinality(Range(jobsChan)) = Len(jobsChan)
  BY <1>1, DistinctCount DEF PlaceInv
<1>3. Cardinality(Range(hand) \cap Range(jobsChan)) = 0
  BY FS_EmptySet DEF PlaceInv
<1>4. /\ IsFiniteSet(Waiting)
      /\ Cardinality(Waiting) = Cardinality(Range(hand)) + Cardinality(Range(jobsChan)) - 0
  BY <1>2, <1>3, FS_Union DEF Waiting
<1>5. Len(hand) \in Nat /\ Len(jobsChan) \in Nat
  BY <1>1, LenProperties
<1> QED
  BY <1>2, <1>4, <1>5

\* A job that was claimed is in exactly one place until it has been executed,
\* and is executed once.
THEOREM OncePerJob == Spec => []EachJobOnce
<1>1. TypeInv /\ PlaceInv => EachJobOnce
  <2> SUFFICES ASSUME TypeInv, PlaceInv
               PROVE  EachJobOnce
    OBVIOUS
  <2>1. Waiting \cap InWork = {} /\ Waiting \cap executed = {}
    BY DEF PlaceInv, InWork
  <2>2. \A g \in Busy : gor[g].at # "executed" => gor[g].job \notin executed
    BY DEF PlaceInv
  <2> QED
    BY <2>1, <2>2, WorkCount, WaitingCount DEF EachJobOnce
<1> QED
  BY <1>1, PoolInvariant, PTL

\* A process has no more than three times its concurrency in its hands.
THEOREM InFlight == Spec => []InFlightBounded
<1>1. TypeInv /\ PlaceInv => InFlightBounded
  <2> SUFFICES ASSUME TypeInv, PlaceInv
               PROVE  InFlightBounded
    OBVIOUS
  <2>1. Cardinality(Busy) \in 0..concurrency /\ concurrency \in Nat
    BY CountFacts DEF Busy
  <2>2. Len(hand) \in Nat /\ Len(jobsChan) \in Nat
    BY LenProperties DEF TypeInv, TypeOK
  <2> QED
    BY <2>1, <2>2, WaitingCount DEF InFlightBounded, TypeInv, TypeOK
<1> QED
  BY <1>1, PoolInvariant, PTL

(***************************************************************************)
(* The end.  A goroutine leaves only a closed channel that is drained, and *)
(* to a closed channel nothing is added.                                   *)
(***************************************************************************)
ExitInv ==
    /\ \A g \in Goroutines : gor[g].at = "exited" => closed /\ jobsChan = <<>>
    /\ main # "waiting" => closed
    /\ main = "stopped" => \A g \in Goroutines : gor[g].at = "exited"

LEMMA ExitInit == Init => ExitInv
BY DEF Init, ExitInv

LEMMA ExitStep == TypeInv /\ CloseInv /\ ExitInv /\ [Next]_vars => ExitInv'
<1> SUFFICES ASSUME TypeInv, CloseInv, ExitInv, [Next]_vars
             PROVE  ExitInv'
  OBVIOUS
<1>0. gor \in [Goroutines -> Receiving \cup Working \cup Exited]
  BY DEF TypeInv, TypeOK
<1>1. CASE Tick \/ Return \/ NextQueue \/ ClaimBatch \/ Submitted
  BY <1>1 DEF Tick, Return, NextQueue, ClaimBatch, Submitted, pool, ExitInv
<1>2. CASE Submit
  <2>1. ~closed
    BY <1>2 DEF Submit, CloseInv
  <2> QED
    BY <1>2, <2>1 DEF Submit, ExitInv
<1>3. ASSUME NEW g \in Goroutines, Worker(g)
      PROVE  ExitInv'
  <2>1. CASE Receive(g)
    <3>1. /\ \A h \in Goroutines : gor[h].at # "exited"
          /\ closed' = closed /\ main' = main
      BY <2>1 DEF Receive, ExitInv
    <3>2. \A h \in Goroutines : gor'[h].at # "exited"
      BY <1>0, <2>1, <3>1 DEF Receive
    <3> QED
      BY <3>1, <3>2 DEF ExitInv
  <2>2. CASE CountUp(g) \/ Execute(g) \/ CountDown(g)
    <3>1. /\ gor[g].at # "exited" /\ gor'[g].at # "exited"
          /\ \A h \in Goroutines \ {g} : gor'[h] = gor[h]
          /\ jobsChan' = jobsChan /\ closed' = closed /\ main' = main
      BY <1>0, <2>2, GoroutineMoves DEF CountUp, Execute, CountDown, Move, TypeInv
    <3> QED
      BY <3>1 DEF ExitInv
  <2>3. CASE Exit(g)
    BY <1>0, <2>3 DEF Exit, Exits, ExitInv
  <2> QED
    BY <1>3, <2>1, <2>2, <2>3 DEF Worker
<1>4. ASSUME NEW l \in Loops, LoopReturns(l)
      PROVE  ExitInv'
  BY <1>4 DEF LoopReturns, pool, ExitInv
<1>5. CASE Cancel \/ StopPool \/ Stop \/ UNCHANGED vars
  BY <1>5 DEF Cancel, StopPool, Stop, vars, pool, ExitInv
<1> QED
  BY <1>1, <1>2, <1>3, <1>4, <1>5 DEF Next, Dispatcher

\* A process that has stopped has executed all that it had claimed.
THEOREM StopsEmpty == Spec => []NothingLeftBehind
<1>1. TypeInv /\ CloseInv /\ PlaceInv /\ ExitInv => NothingLeftBehind
  <2> SUFFICES ASSUME TypeInv, CloseInv, PlaceInv, ExitInv, main = "stopped"
               PROVE  executed = Jobs \ backlog /\ active = 0
    BY DEF NothingLeftBehind
  <2>1. closed /\ \A g \in Goroutines : gor[g].at = "exited"
    BY DEF ExitInv
  <2>2. hand = <<>> /\ jobsChan = <<>>
    BY <2>1, CountFacts, FS_EmptySet, PoolAssumption DEF CloseInv, ExitInv
  <2>3. Waiting = {} /\ InWork = {} /\ Counted = {}
    BY <2>1, <2>2 DEF Waiting, InWork, Busy, Counted, Range
  <2>4. executed = Jobs \ backlog
    BY <2>3 DEF PlaceInv, TypeInv, TypeOK
  <2> QED
    BY <2>3, <2>4, FS_EmptySet DEF TypeInv
<1> QED
  BY <1>1, PoolInvariant, ExitInit, ExitStep, PTL DEF Spec
=============================================================================
