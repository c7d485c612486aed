-------------------------- MODULE CronEngineProofs --------------------------
(***************************************************************************)
(* Theorems about CronEngine and the lock it uses, for any number of       *)
(* engines and definitions.                                                *)
(***************************************************************************)
EXTENDS CronEngine, FiniteSetTheorems, TLAPS

(***************************************************************************)
(* Types.                                                                  *)
(***************************************************************************)
\* The first minute of a schedule after t comes no later than one period on.
LEMMA NextFireAfter ==
    ASSUME NEW c \in Crons, NEW t \in Nat
    PROVE  /\ NextFire(c, t) \in Nat
           /\ NextFire(c, t) > t
           /\ NextFire(c, t) <= t + Period[c]
<1> DEFINE p == Period[c]
<1>1. p \in Nat \ {0}
  BY CronAssumption
<1> HIDE DEF p
<1>2. /\ (t \div p + 1) * p \in Nat
      /\ (t \div p + 1) * p > t
      /\ (t \div p + 1) * p <= t + p
  BY <1>1
<1> QED
  BY <1>2 DEF NextFire, p

LEMMA NextFireSlot ==
    ASSUME NEW c \in Crons, NEW t \in Minutes
    PROVE  NextFire(c, t) \in Slots
<1>1. t \in Nat /\ t <= LastMinute /\ LastMinute \in Nat /\ Period[c] \in Nat
  BY CronAssumption DEF Minutes
<1>2. NextFire(c, t) \in 0..(LastMinute + Period[c])
  BY <1>1, NextFireAfter
<1> QED
  BY <1>2 DEF Slots

LEMMA MinuteSlot ==
    ASSUME NEW c \in Crons, NEW t \in Minutes
    PROVE  t \in Slots
<1>1. t \in Nat /\ t <= LastMinute /\ LastMinute \in Nat /\ Period[c] \in Nat
  BY CronAssumption DEF Minutes
<1>2. t \in 0..(LastMinute + Period[c])
  BY <1>1
<1> QED
  BY <1>2 DEF Slots

LEMMA SlotsNat == Slots \subseteq Nat /\ None \notin Slots
BY CronAssumption DEF Slots

\* There is a token that nobody holds: one is held by each other engine at most.
LEMMA FreshToken ==
    ASSUME NEW e \in Engines, NEW k, token[e] = None, lock[k] = None,
           token \in [Engines -> Tokens \cup {None}]
    PROVE  /\ NewToken(k) \in Tokens
           /\ NewToken(k) # lock[k]
           /\ \A d \in Engines : NewToken(k) # token[d]
<1> DEFINE Used == {token[d] : d \in Engines}
           f == [d \in Engines |-> token[d]]
<1>1. f \in Surjection(Engines, Used)
  BY DEF Surjection
<1>2. IsFiniteSet(Used) /\ Cardinality(Used) <= Cardinality(Engines)
  BY <1>1, CronAssumption, FS_Surjection
<1>3. ~(Tokens \subseteq Used)
  <2>1. Cardinality(Tokens) \in Nat /\ Cardinality(Engines) \in Nat /\ Cardinality(Used) \in Nat
    BY <1>2, CronAssumption, FS_CardinalityType
  <2>2. Tokens \subseteq Used => Cardinality(Tokens) <= Cardinality(Used)
    BY <1>2, FS_Subset
  <2> QED
    BY <1>2, <2>1, <2>2, CronAssumption
<1>4. \E t \in Tokens : t # lock[k] /\ \A d \in Engines : t # token[d]
  BY <1>3, CronAssumption
<1> QED
  BY <1>4 DEF NewToken

\* What the engines carry with them: the definition being fired has the token of
\* its lock, and those listed have the minute at which they were due.
EngineOK(e) ==
    /\ pc[e] \in {"idle", "loop"} <=> cur[e] = None
    /\ token[e] = None <=> cur[e] = None
    /\ \A c \in Crons : c \in todo[e] \/ c = cur[e] => listed[e][c] \in Slots

TypeInv == TypeOK /\ \A e \in Engines : EngineOK(e)

LEMMA TypeInit == Init => TypeInv
<1> SUFFICES ASSUME Init
             PROVE  TypeInv
  OBVIOUS
<1>1. minute \in Minutes /\ 0 \in 0..Many
  BY CronAssumption DEF Init, Minutes, Many
<1>2. 0 \in Minutes
  BY CronAssumption DEF Minutes
<1>3. TypeOK
  BY <1>1, <1>2 DEF Init, TypeOK
<1> QED
  BY <1>3, CronAssumption DEF Init, TypeInv, EngineOK

LEMMA EnginesUnchanged ==
    ASSUME TypeInv, UNCHANGED engine
    PROVE  \A d \in Engines : EngineOK(d)'
BY DEF TypeInv, EngineOK, engine

LEMMA OthersUnchanged ==
    ASSUME TypeInv, NEW e \in Engines,
           \A d \in Engines \ {e} :
               /\ pc'[d] = pc[d] /\ todo'[d] = todo[d] /\ listed'[d] = listed[d]
               /\ cur'[d] = cur[d] /\ token'[d] = token[d],
           EngineOK(e)'
    PROVE  \A d \in Engines : EngineOK(d)'
<1> SUFFICES ASSUME NEW d \in Engines
             PROVE  EngineOK(d)'
  OBVIOUS
<1>1. EngineOK(d)
  BY DEF TypeInv
<1>2. CASE d = e
  BY <1>2
<1>3. CASE d # e
  BY <1>1, <1>3 DEF EngineOK
<1> QED
  BY <1>2, <1>3

LEMMA WorldTypes ==
    ASSUME TypeInv,
           \/ Tick
           \/ \E c \in Crons : Provide(c) \/ Delete(c)
           \/ \E k \in Names : Expire(k)
    PROVE  TypeInv'
<1>0. UNCHANGED engine
  BY DEF Tick, Provide, Delete, Expire
<1> USE DEF TypeOK
<1>1. TypeOK
  BY DEF TypeInv
<1>2. CASE Tick
  BY <1>0, <1>1, <1>2, CronAssumption, EnginesUnchanged DEF Tick, engine, Minutes, TypeInv
<1>3. ASSUME NEW c \in Crons, Provide(c)
      PROVE  TypeInv'
  <2>1. FirstFire \subseteq Slots \cup {None}
    BY CronAssumption, MinuteSlot DEF Minutes
  <2>2. /\ row' \in [Crons -> {"absent", "active", "inactive", "deleted"}]
        /\ next' \in [Crons -> Slots \cup {None}]
    BY <1>1, <1>3, <2>1 DEF Provide
  <2> QED
    BY <1>0, <1>1, <1>3, <2>2, EnginesUnchanged DEF Provide, engine, TypeInv
<1>4. ASSUME NEW c \in Crons, Delete(c)
      PROVE  TypeInv'
  BY <1>0, <1>1, <1>4, EnginesUnchanged DEF Delete, engine, TypeInv
<1>5. ASSUME NEW k \in Names, Expire(k)
      PROVE  TypeInv'
  BY <1>0, <1>1, <1>5, EnginesUnchanged DEF Expire, engine, TypeInv
<1> QED
  BY <1>2, <1>3, <1>4, <1>5

LEMMA ListTypes ==
    ASSUME TypeInv, NEW e \in Engines, ListDue(e) \/ EndList(e)
    PROVE  TypeInv'
<1>1. TypeOK /\ EngineOK(e)
  BY DEF TypeInv
<1>2. CASE ListDue(e)
  <2> DEFINE due == {c \in Crons : Due(c, minute)}
             dates == [c \in Crons |-> IF c \in due THEN next[c] ELSE None]
  <2>1. /\ pc[e] = "idle"
        /\ now' = [now EXCEPT ![e] = minute]
        /\ todo' = [todo EXCEPT ![e] = due]
        /\ listed' = [listed EXCEPT ![e] = dates]
        /\ pc' = [pc EXCEPT ![e] = "loop"]
        /\ UNCHANGED <<minute, row, next, fired, lock, cur, token>>
    BY <1>2 DEF ListDue
  <2>2. dates \in [Crons -> Slots \cup {None}] /\ \A c \in due : dates[c] \in Slots
    BY <1>1 DEF Due, TypeOK
  <2>3. due \subseteq Crons
    OBVIOUS
  <2>4. cur[e] = None /\ token[e] = None
    BY <1>1, <2>1 DEF EngineOK
  <2> HIDE DEF due, dates
  <2>5. TypeOK'
    BY <1>1, <2>1, <2>2, <2>3 DEF TypeOK
  <2>6. EngineOK(e)'
    BY <1>1, <2>1, <2>2, <2>4, CronAssumption DEF TypeOK, EngineOK
  <2>7. \A d \in Engines : EngineOK(d)'
    BY <1>1, <2>1, <2>6, OthersUnchanged DEF TypeOK
  <2> QED
    BY <2>5, <2>7 DEF TypeInv
<1>3. CASE EndList(e)
  <2>1. TypeOK'
    BY <1>1, <1>3, CronAssumption DEF EndList, TypeOK, Minutes
  <2>2. EngineOK(e)'
    BY <1>1, <1>3, CronAssumption DEF EndList, TypeOK, EngineOK
  <2>3. \A d \in Engines : EngineOK(d)'
    BY <1>1, <1>3, <2>2, OthersUnchanged DEF EndList, TypeOK
  <2> QED
    BY <2>1, <2>3 DEF TypeInv
<1> QED
  BY <1>2, <1>3

\* A key that is free is taken with a token of its own.
LEMMA AcquireFacts ==
    ASSUME TypeInv, NEW e \in Engines, NEW c \in Crons, Visits(e, c),
           KeyFree(Name(c, now[e]))
    PROVE  LET k == Name(c, now[e]) IN
           /\ k \in Names /\ lock[k] = None
           /\ NewToken(k) \in Tokens /\ \A d \in Engines : NewToken(k) # token[d]
<1> DEFINE k == Name(c, now[e])
<1>1. k \in Names /\ lock[k] = None
  BY DEF KeyFree, Name, Names, TypeInv, TypeOK
<1>2. token[e] = None /\ token \in [Engines -> Tokens \cup {None}]
  BY DEF Visits, TypeInv, TypeOK, EngineOK
<1> QED
  BY <1>1, <1>2, FreshToken

LEMMA VisitTypes ==
    ASSUME TypeInv, NEW e \in Engines, NEW c \in Crons,
           Acquire(e, c) \/ AcquireUnanswered(e, c) \/ NotAcquired(e, c)
    PROVE  TypeInv'
<1>1. TypeOK /\ EngineOK(e)
  BY DEF TypeInv
<1>2. /\ pc[e] = "loop" /\ c \in todo[e] /\ todo' = [todo EXCEPT ![e] = @ \ {c}]
      /\ cur[e] = None /\ token[e] = None /\ listed[e][c] \in Slots
  BY <1>1 DEF Acquire, AcquireUnanswered, NotAcquired, Visits, EngineOK
<1>3. CASE Acquire(e, c)
  <2> DEFINE k == Name(c, now[e])
  <2>1. /\ lock' = [lock EXCEPT ![k] = NewToken(k)]
        /\ cur' = [cur EXCEPT ![e] = c]
        /\ token' = [token EXCEPT ![e] = NewToken(k)]
        /\ pc' = [pc EXCEPT ![e] = "fn"]
        /\ UNCHANGED <<minute, row, next, fired, now, listed>>
    BY <1>3 DEF Acquire
  <2>2. k \in Names /\ NewToken(k) \in Tokens
    BY <1>3, AcquireFacts DEF Acquire
  <2> HIDE DEF k
  <2>3. TypeOK'
    BY <1>1, <1>2, <2>1, <2>2 DEF TypeOK
  <2>4. EngineOK(e)'
    BY <1>1, <1>2, <2>1, <2>2, CronAssumption DEF TypeOK, EngineOK
  <2>5. \A d \in Engines : EngineOK(d)'
    BY <1>1, <1>2, <2>1, <2>4, OthersUnchanged DEF TypeOK
  <2> QED
    BY <2>3, <2>5 DEF TypeInv
<1>4. CASE AcquireUnanswered(e, c)
  <2> DEFINE k == Name(c, now[e])
  <2>1. /\ lock' = [lock EXCEPT ![k] = NewToken(k)]
        /\ UNCHANGED <<minute, row, next, fired, pc, now, listed, cur, token>>
    BY <1>4 DEF AcquireUnanswered
  <2>2. k \in Names /\ NewToken(k) \in Tokens
    BY <1>4, AcquireFacts DEF AcquireUnanswered
  <2> HIDE DEF k
  <2>3. TypeOK'
    BY <1>1, <1>2, <2>1, <2>2 DEF TypeOK
  <2>4. EngineOK(e)'
    BY <1>1, <1>2, <2>1 DEF TypeOK, EngineOK
  <2>5. \A d \in Engines : EngineOK(d)'
    BY <1>1, <1>2, <2>1, <2>4, OthersUnchanged DEF TypeOK
  <2> QED
    BY <2>3, <2>5 DEF TypeInv
<1>5. CASE NotAcquired(e, c)
  <2>1. UNCHANGED <<minute, row, next, fired, lock, pc, now, listed, cur, token>>
    BY <1>5 DEF NotAcquired
  <2>2. TypeOK'
    BY <1>1, <1>2, <2>1 DEF TypeOK
  <2>3. EngineOK(e)'
    BY <1>1, <1>2, <2>1 DEF TypeOK, EngineOK
  <2>4. \A d \in Engines : EngineOK(d)'
    BY <1>1, <1>2, <2>1, <2>3, OthersUnchanged DEF TypeOK
  <2> QED
    BY <2>2, <2>4 DEF TypeInv
<1> QED
  BY <1>3, <1>4, <1>5

\* The steps of a firing: only pc changes of the engine.
LEMMA FiringTypes ==
    ASSUME TypeInv, NEW e \in Engines,
           \/ Disable(e) \/ DisableFails(e) \/ Spawn(e) \/ SpawnRefused(e)
           \/ SpawnFails(e) \/ UpdateFireTimes(e) \/ UpdateFails(e)
    PROVE  TypeInv'
<1>1. TypeOK /\ EngineOK(e)
  BY DEF TypeInv
<1>2. /\ pc[e] \in {"fn", "spawned"}
      /\ pc' = [pc EXCEPT ![e] = "spawned"] \/ pc' = [pc EXCEPT ![e] = "release"]
      /\ UNCHANGED <<minute, lock, now, todo, listed, cur, token>>
  BY DEF Disable, DisableFails, Spawn, SpawnRefused, SpawnFails, SpawnFailed, UpdateFireTimes, UpdateFails, FnReturns
<1>3. cur[e] \in Crons /\ listed[e][cur[e]] \in Slots
  BY <1>1, <1>2 DEF EngineOK, TypeOK
<1>4. row' \in [Crons -> {"absent", "active", "inactive", "deleted"}]
  <2>1. row' \in {row, [row EXCEPT ![cur[e]] = "inactive"]}
    BY DEF Disable, DisableFails, Spawn, SpawnRefused, SpawnFails, UpdateFireTimes, UpdateFails
  <2> QED
    BY <1>1, <2>1 DEF TypeOK
<1>5. next' \in [Crons -> Slots \cup {None}]
  <2>1. NextFire(cur[e], now[e]) \in Slots
    BY <1>1, <1>3, NextFireSlot DEF TypeOK
  <2>2. next' \in {next, [next EXCEPT ![cur[e]] = NextFire(cur[e], now[e])]}
    BY DEF Disable, DisableFails, Spawn, SpawnRefused, SpawnFails, UpdateFireTimes, UpdateFails
  <2> QED
    BY <1>1, <2>1, <2>2 DEF TypeOK
<1>6. fired' \in [Crons -> [Slots -> 0..Many]]
  <2>1. CASE Spawn(e)
    <3> DEFINE c == cur[e]
               s == listed[e][c]
               n == IF fired[c][s] < Many THEN fired[c][s] + 1 ELSE fired[c][s]
    <3>1. Many \in Nat /\ fired[c][s] \in 0..Many
      BY <1>1, <1>3, CronAssumption DEF TypeOK, Many
    <3>2. n \in 0..Many
      BY <3>1
    <3>3. fired' = [fired EXCEPT ![c] = [fired[c] EXCEPT ![s] = n]]
      BY <1>1, <1>3, <2>1 DEF Spawn, TypeOK
    <3>4. [fired[c] EXCEPT ![s] = n] \in [Slots -> 0..Many]
      BY <1>1, <1>3, <3>2 DEF TypeOK
    <3> HIDE DEF c, s, n
    <3> QED
      BY <1>1, <3>3, <3>4 DEF TypeOK
  <2>2. CASE ~Spawn(e)
    BY <1>1, <2>2 DEF Disable, DisableFails, SpawnRefused, SpawnFails, UpdateFireTimes, UpdateFails, TypeOK
  <2> QED
    BY <2>1, <2>2
<1>7. TypeOK'
  BY <1>1, <1>2, <1>4, <1>5, <1>6 DEF TypeOK
<1>8. EngineOK(e)'
  BY <1>1, <1>2 DEF TypeOK, EngineOK
<1>9. \A d \in Engines : EngineOK(d)'
  BY <1>1, <1>2, <1>8, OthersUnchanged DEF TypeOK
<1> QED
  BY <1>7, <1>9 DEF TypeInv

LEMMA LeaveTypes ==
    ASSUME TypeInv, NEW e \in Engines,
           ReleaseGet(e) \/ ReleaseDel(e) \/ ReleaseFails(e) \/ Crash(e)
    PROVE  TypeInv'
<1>1. TypeOK /\ EngineOK(e)
  BY DEF TypeInv
<1>2. ASSUME ReleaseGet(e) \/ ReleaseDel(e) \/ ReleaseFails(e)
      PROVE  TypeInv'
  <2>1. /\ pc[e] \in {"release", "delete"}
        /\ \/ pc' = [pc EXCEPT ![e] = "delete"] /\ UNCHANGED <<cur, token>>
           \/ Unlock(e)
        /\ UNCHANGED <<minute, row, next, fired, now, todo, listed>>
    BY <1>2 DEF ReleaseGet, ReleaseDel, ReleaseFails
  <2>2. lock' \in [Names -> Tokens \cup {None}]
    BY <1>1, <1>2 DEF ReleaseGet, ReleaseDel, ReleaseFails, TypeOK
  <2>3. TypeOK'
    BY <1>1, <2>1, <2>2 DEF Unlock, TypeOK
  <2>4. EngineOK(e)'
    BY <1>1, <2>1, CronAssumption DEF Unlock, TypeOK, EngineOK
  <2>5. \A d \in Engines : EngineOK(d)'
    BY <1>1, <2>1, <2>4, OthersUnchanged DEF Unlock, TypeOK
  <2> QED
    BY <2>3, <2>5 DEF TypeInv
<1>3. CASE Crash(e)
  <2>1. TypeOK'
    BY <1>1, <1>3, CronAssumption DEF Crash, TypeOK, Minutes
  <2>2. EngineOK(e)'
    BY <1>1, <1>3, CronAssumption DEF Crash, TypeOK, EngineOK
  <2>3. \A d \in Engines : EngineOK(d)'
    BY <1>1, <1>3, <2>2, OthersUnchanged DEF Crash, TypeOK
  <2> QED
    BY <2>1, <2>3 DEF TypeInv
<1> QED
  BY <1>2, <1>3

\* The steps of one engine, in four groups.
Listing(e) == ListDue(e) \/ EndList(e)
Visiting(e, c) == Acquire(e, c) \/ AcquireUnanswered(e, c) \/ NotAcquired(e, c)
Firing(e) ==
    \/ Disable(e) \/ DisableFails(e) \/ Spawn(e) \/ SpawnRefused(e) \/ SpawnFails(e)
    \/ UpdateFireTimes(e) \/ UpdateFails(e)
Leaving(e) == ReleaseGet(e) \/ ReleaseDel(e) \/ ReleaseFails(e) \/ Crash(e)
World ==
    \/ Tick
    \/ \E c \in Crons : Provide(c) \/ Delete(c)
    \/ \E k \in Names : Expire(k)

LEMMA Steps ==
    ASSUME deployed \in Deployments, Next
    PROVE  \/ World
           \/ \E e \in deployed.engines :
                /\ e \in Engines
                /\ \/ Listing(e) \/ Firing(e) \/ Leaving(e)
                   \/ \E c \in Crons : Visiting(e, c)
<1>1. deployed.crons \subseteq Crons /\ deployed.engines \subseteq Engines
  BY CronAssumption
<1> QED
  BY <1>1 DEF Next, Step, Evaluate, World, Listing, Visiting, Firing, Leaving

Deployed == deployed \in Deployments

LEMMA TypeStep == Deployed /\ TypeInv /\ [Next]_vars => TypeInv'
<1> SUFFICES ASSUME Deployed, TypeInv, [Next]_vars
             PROVE  TypeInv'
  OBVIOUS
<1>1. CASE Next
  BY <1>1, Steps, WorldTypes, ListTypes, VisitTypes, FiringTypes, LeaveTypes
     DEF Deployed, World, Listing, Visiting, Firing, Leaving
<1>2. CASE UNCHANGED vars
  BY <1>2, EnginesUnchanged DEF vars, engine, TypeInv, TypeOK
<1> QED
  BY <1>1, <1>2

LEMMA DeployedStep == Deployed /\ [Next]_vars => Deployed'
BY DEF Deployed, Next, vars

\* Clock, definitions, locks and engines keep their types; the minutes at which
\* definitions are due are within one period of the clock.
THEOREM TypeCorrect == Spec => []TypeOK
<1>1. Init => Deployed
  BY DEF Init, Deployed
<1>2. TypeInv => TypeOK
  BY DEF TypeInv
<1> QED
  BY <1>1, <1>2, TypeInit, TypeStep, DeployedStep, PTL DEF Spec

(***************************************************************************)
(* The lock.  RedisLock for one name k: the theorems about it hold for     *)
(* every name that the engines use.                                        *)
(***************************************************************************)
LockAt(k) == Lock(k)!TypeOK /\ Lock(k)!HolderInv

LEMMA LockInit ==
    ASSUME NEW k \in Names, Lock(k)!LockAssumption, Lock(k)!Init
    PROVE  LockAt(k)
BY DEF Lock!LockAssumption, Lock!Init, LockAt, Lock!TypeOK, Lock!HolderInv

LEMMA LockTypeStep ==
    ASSUME NEW k \in Names, Lock(k)!LockAssumption, Lock(k)!TypeOK,
           [Lock(k)!Next]_(Lock(k)!vars)
    PROVE  Lock(k)!TypeOK'
<1> USE DEF Lock!LockAssumption, Lock!TypeOK
<1>1. ASSUME NEW c \in Engines, Lock(k)!Acquire(c) \/ Lock(k)!AcquireUnanswered(c)
      PROVE  Lock(k)!TypeOK'
  <2>1. CASE Lock(k)!Acquire(c)
    BY <2>1 DEF Lock!Acquire, Lock!NewTokens
  <2>2. CASE Lock(k)!AcquireUnanswered(c)
    BY <2>2 DEF Lock!AcquireUnanswered, Lock!NewTokens
  <2> QED
    BY <1>1, <2>1, <2>2
<1>2. ASSUME NEW c \in Engines, Lock(k)!Client(c) \/ Lock(k)!Leave(c)
      PROVE  Lock(k)!TypeOK'
  BY <1>2 DEF Lock!Client, Lock!FnReturns, Lock!ReleaseGet, Lock!ReleaseDel,
              Lock!Leave, Lock!Out
<1>3. CASE Lock(k)!Expire
  BY <1>3 DEF Lock!Expire
<1>4. CASE UNCHANGED Lock(k)!vars
  BY <1>4 DEF Lock!vars
<1> QED
  BY <1>1, <1>2, <1>3, <1>4 DEF Lock!Next

LEMMA LockHolderStep ==
    ASSUME NEW k \in Names, Lock(k)!LockAssumption, TtlCovers, LockAt(k),
           [Lock(k)!Next]_(Lock(k)!vars)
    PROVE  Lock(k)!HolderInv'
<1> USE DEF Lock!LockAssumption, LockAt, Lock!TypeOK, Lock!HolderInv
<1>1. ASSUME NEW c \in Engines, Lock(k)!Acquire(c)
      PROVE  Lock(k)!HolderInv'
  BY <1>1 DEF Lock!Acquire, Lock!KeyFree, Lock!NewTokens
<1>2. ASSUME NEW c \in Engines, Lock(k)!AcquireUnanswered(c)
      PROVE  Lock(k)!HolderInv'
  BY <1>2 DEF Lock!AcquireUnanswered, Lock!KeyFree
<1>3. ASSUME NEW c \in Engines, Lock(k)!FnReturns(c)
      PROVE  Lock(k)!HolderInv'
  BY <1>3 DEF Lock!FnReturns
<1>4. ASSUME NEW c \in Engines, Lock(k)!ReleaseGet(c)
      PROVE  Lock(k)!HolderInv'
  <2>1. CASE Lock(k)!Matches(c)
    BY <1>4, <2>1 DEF Lock!ReleaseGet
  <2>2. CASE ~Lock(k)!Matches(c)
    BY <1>4, <2>2 DEF Lock!ReleaseGet, Lock!Matches
  <2> QED
    BY <2>1, <2>2
<1>5. ASSUME NEW c \in Engines, Lock(k)!ReleaseDel(c)
      PROVE  Lock(k)!HolderInv'
  BY <1>5 DEF Lock!ReleaseDel, Lock!Out
<1>6. ASSUME NEW c \in Engines, Lock(k)!Leave(c)
      PROVE  Lock(k)!HolderInv'
  BY <1>6 DEF Lock!Leave, Lock!Out
<1>7. CASE Lock(k)!Expire
  BY <1>7 DEF Lock!Expire, Lock!Expires, Lock!Holds
<1>8. CASE UNCHANGED Lock(k)!vars
  BY <1>8 DEF Lock!vars
<1> QED
  BY <1>1, <1>2, <1>3, <1>4, <1>5, <1>6, <1>7, <1>8 DEF Lock!Next, Lock!Client

LEMMA LockInvariant ==
    ASSUME NEW k \in Names, TtlCovers, Lock(k)!LockAssumption
    PROVE  Lock(k)!Spec => []LockAt(k)
<1>1. Lock(k)!Init => LockAt(k)
  BY LockInit
<1>2. LockAt(k) /\ [Lock(k)!Next]_(Lock(k)!vars) => LockAt(k)'
  BY LockTypeStep, LockHolderStep DEF LockAt
<1> QED
  BY <1>1, <1>2, PTL DEF Lock!Spec

LEMMA TokensNames == ASSUME NEW k \in Names PROVE Lock(k)!LockAssumption
BY CronAssumption DEF Lock!LockAssumption

\* SETNX and a time to live that covers the critical section are enough for
\* mutual exclusion, whatever processes die and answers are lost.
THEOREM LockMutualExclusion ==
    ASSUME NEW k \in Names, TtlCovers
    PROVE  Lock(k)!Spec => []Lock(k)!MutualExclusion
<1>1. LockAt(k) => Lock(k)!MutualExclusion
  BY DEF LockAt, Lock!HolderInv, Lock!MutualExclusion
<1> QED
  BY <1>1, LockInvariant, TokensNames, PTL

\* The comparison of the token, by itself: the time to live need not cover fn.
LockOwned(k) == Lock(k)!TypeOK /\ Lock(k)!OwnerInv

LEMMA OwnedInit ==
    ASSUME NEW k \in Names, Lock(k)!LockAssumption, Lock(k)!Init
    PROVE  LockOwned(k)
BY DEF Lock!LockAssumption, Lock!Init, LockOwned, Lock!TypeOK, Lock!OwnerInv

\* What a client of the lock k shows of itself.
Shown(e, k) == IF LockPc(e, k) = "out" THEN None ELSE token[e]

\* The two conjuncts of OwnerInv, client by client.
Found(k) == \A e \in Engines : LockPc(e, k) = "delete" => Shown(e, k) = lock[k]
Distinct(k) ==
    \A e, f \in Engines : Shown(e, k) = Shown(f, k) => e = f \/ Shown(e, k) = None

LEMMA OwnedIs ==
    ASSUME NEW k \in Names
    PROVE  /\ Lock(k)!OwnerInv <=> Found(k) /\ Distinct(k)
           /\ Lock(k)!OwnerInv' <=> Found(k)' /\ Distinct(k)'
BY DEF Lock!OwnerInv, Found, Distinct, Shown

\* One client, c, moves to "at", with the token t.
Moved(c, k, at, t) ==
    /\ \A d \in Engines : LockPc(d, k)' = IF d = c THEN at ELSE LockPc(d, k)
    /\ \A d \in Engines : Shown(d, k)' = IF d = c THEN t ELSE Shown(d, k)

LEMMA OwnerAcquires ==
    ASSUME NEW k \in Names, LockOwned(k), NEW c \in Engines, Lock(k)!Acquire(c)
    PROVE  Found(k)' /\ Distinct(k)'
<1>1. PICK t \in Lock(k)!NewTokens :
          lock'[k] = t /\ [d \in Engines |-> Shown(d, k)']
                            = [[d \in Engines |-> Shown(d, k)] EXCEPT ![c] = t]
  BY DEF Lock!Acquire, Shown
<1>2. Moved(c, k, "fn", t)
  <2>1. [d \in Engines |-> LockPc(d, k)']
          = [[d \in Engines |-> LockPc(d, k)] EXCEPT ![c] = "fn"]
    BY DEF Lock!Acquire
  <2> QED
    BY <1>1, <2>1 DEF Moved
<1>3. \A d \in Engines : t # Shown(d, k)
  BY DEF Lock!NewTokens, Shown
<1>4. /\ lock[k] = None
      /\ \A d \in Engines : LockPc(d, k) = "delete" => LockPc(d, k) # "out"
  BY DEF Lock!Acquire, Lock!KeyFree
<1>5. Found(k) /\ Distinct(k)
  BY OwnedIs DEF LockOwned
<1>6. \A d \in Engines : LockPc(d, k) = "delete" => Shown(d, k) # None
  BY DEF LockOwned, Lock!TypeOK, Shown
<1>7. Found(k)'
  BY <1>2, <1>4, <1>5, <1>6 DEF Found, Moved
<1> QED
  BY <1>2, <1>3, <1>5, <1>7 DEF Distinct, Moved

\* Whoever moves without taking or leaving a key, to "delete" only with the token
\* that Redis has, keeps the two conjuncts.
LEMMA OwnerMoves ==
    ASSUME NEW k \in Names, Found(k), Distinct(k), NEW c \in Engines, NEW at, NEW t,
           Moved(c, k, at, t), t \in {None, Shown(c, k)}, lock'[k] = lock[k],
           at = "delete" => t = lock[k]
    PROVE  Found(k)' /\ Distinct(k)'
<1>1. Found(k)'
  BY DEF Found, Moved
<1>2. Distinct(k)'
  BY DEF Distinct, Moved
<1> QED
  BY <1>1, <1>2

LEMMA LockOwnerStep ==
    ASSUME NEW k \in Names, Lock(k)!LockAssumption, DelInTime, LockOwned(k),
           [Lock(k)!Next]_(Lock(k)!vars)
    PROVE  Lock(k)!OwnerInv'
<1>a. Found(k) /\ Distinct(k)
  BY OwnedIs DEF LockOwned
<1>b. \A d \in Engines : LockPc(d, k) = "out" <=> Shown(d, k) = None
  BY DEF LockOwned, Lock!TypeOK, Shown
<1> SUFFICES Found(k)' /\ Distinct(k)'
  BY OwnedIs
<1>1. ASSUME NEW c \in Engines, Lock(k)!Acquire(c)
      PROVE  Found(k)' /\ Distinct(k)'
  BY <1>1, OwnerAcquires
<1>2. ASSUME NEW c \in Engines, Lock(k)!AcquireUnanswered(c)
      PROVE  Found(k)' /\ Distinct(k)'
  <2>1. /\ lock[k] = None
        /\ \A d \in Engines : LockPc(d, k)' = LockPc(d, k) /\ Shown(d, k)' = Shown(d, k)
    BY <1>2 DEF Lock!AcquireUnanswered, Lock!KeyFree, Shown
  <2> QED
    BY <1>a, <1>b, <2>1 DEF Found, Distinct
<1>3. ASSUME NEW c \in Engines, Lock(k)!FnReturns(c)
      PROVE  Found(k)' /\ Distinct(k)'
  <2>1. Moved(c, k, "release", Shown(c, k)) /\ lock'[k] = lock[k]
    BY <1>3 DEF Lock!FnReturns, Moved, Shown
  <2> QED
    BY <1>a, <2>1, OwnerMoves
<1>4. ASSUME NEW c \in Engines, Lock(k)!Out(c), lock'[k] = lock[k]
      PROVE  Found(k)' /\ Distinct(k)'
  <2>1. Moved(c, k, "out", None)
    BY <1>4 DEF Lock!Out, Moved, Shown
  <2> QED
    BY <1>4, <1>a, <2>1, OwnerMoves
<1>5. ASSUME NEW c \in Engines, Lock(k)!ReleaseGet(c)
      PROVE  Found(k)' /\ Distinct(k)'
  <2>1. CASE Lock(k)!Matches(c)
    <3>1. Moved(c, k, "delete", Shown(c, k)) /\ lock'[k] = lock[k]
      BY <1>5, <2>1 DEF Lock!ReleaseGet, Moved, Shown
    <3>2. Shown(c, k) = lock[k]
      BY <2>1 DEF Lock!Matches, Shown
    <3> QED
      BY <1>a, <3>1, <3>2, OwnerMoves
  <2>2. CASE ~Lock(k)!Matches(c)
    BY <1>4, <1>5, <2>2 DEF Lock!ReleaseGet
  <2> QED
    BY <2>1, <2>2
<1>6. ASSUME NEW c \in Engines, Lock(k)!ReleaseDel(c)
      PROVE  Found(k)' /\ Distinct(k)'
  <2>1. Moved(c, k, "out", None) /\ lock'[k] = None /\ LockPc(c, k) = "delete"
    BY <1>6 DEF Lock!ReleaseDel, Lock!Out, Moved, Shown
  <2>2. \A d \in Engines \ {c} : LockPc(d, k) # "delete"
    BY <1>a, <1>b, <2>1 DEF Found, Distinct
  <2> QED
    BY <1>a, <2>1, <2>2 DEF Found, Distinct, Moved
<1>7. ASSUME NEW c \in Engines, Lock(k)!Leave(c)
      PROVE  Found(k)' /\ Distinct(k)'
  BY <1>4, <1>7 DEF Lock!Leave
<1>8. CASE Lock(k)!Expire
  <2>1. /\ lock'[k] = None /\ lock[k] # None
        /\ \A d \in Engines : LockPc(d, k)' = LockPc(d, k) /\ Shown(d, k)' = Shown(d, k)
    BY <1>8 DEF Lock!Expire, Shown
  <2>2. \A d \in Engines : LockPc(d, k) # "delete"
    BY <1>8, <1>a DEF Lock!Expire, Lock!Expires, Lock!Holds, Found, Shown
  <2> QED
    BY <1>a, <2>1, <2>2 DEF Found, Distinct
<1>9. CASE UNCHANGED Lock(k)!vars
  <2>1. /\ lock'[k] = lock[k]
        /\ \A d \in Engines : LockPc(d, k)' = LockPc(d, k) /\ Shown(d, k)' = Shown(d, k)
    BY <1>9 DEF Lock!vars, Shown
  <2> QED
    BY <1>a, <2>1 DEF Found, Distinct
<1> QED
  BY <1>1, <1>2, <1>3, <1>5, <1>6, <1>7, <1>8, <1>9 DEF Lock!Next, Lock!Client

LEMMA OwnerReleases ==
    ASSUME NEW k \in Names, LockOwned(k)
    PROVE  Lock(k)!ReleasesOwn
BY DEF LockOwned, Lock!OwnerInv, Lock!ReleasesOwn

\* A Release removes no other client's key, although by then its own may have
\* run out, and others may have taken the lock, at any time before its GET or
\* after its DEL: nothing is supposed of the time to live but that no key expires
\* between the two.
THEOREM LockReleasesOnlyOwn ==
    ASSUME NEW k \in Names, DelInTime
    PROVE  Lock(k)!Spec => Lock(k)!ReleasesOnlyOwn
<1>1. Lock(k)!Init => LockOwned(k)
  BY OwnedInit, TokensNames
<1>2. LockOwned(k) /\ [Lock(k)!Next]_(Lock(k)!vars) => LockOwned(k)'
  BY LockTypeStep, LockOwnerStep, TokensNames DEF LockOwned
<1>3. LockOwned(k) => [Lock(k)!ReleasesOwn]_(Lock(k)!vars)
  BY OwnerReleases
<1> QED
  BY <1>1, <1>2, <1>3, PTL DEF Lock!Spec, Lock!ReleasesOnlyOwn

(***************************************************************************)
(* The engines implement the lock, under every name.                       *)
(***************************************************************************)
LEMMA LockUntouched ==
    ASSUME NEW k \in Names, lock'[k] = lock[k],
           \A e \in Engines : LockPc(e, k)' = LockPc(e, k) /\ Shown(e, k)' = Shown(e, k)
    PROVE  UNCHANGED Lock(k)!vars
BY DEF Lock!vars, Shown

\* An engine that fires nothing, before and after, is outside every lock.
LEMMA Outside ==
    ASSUME NEW e, NEW k, cur[e] = None
    PROVE  LockPc(e, k) = "out" /\ Shown(e, k) = None
BY DEF LockPc, Shown

\* One that does not move shows the same.
LEMMA Still ==
    ASSUME NEW e, NEW k, cur'[e] = cur[e], now'[e] = now[e], pc'[e] = pc[e],
           token'[e] = token[e]
    PROVE  LockPc(e, k)' = LockPc(e, k) /\ Shown(e, k)' = Shown(e, k)
BY DEF LockPc, Shown, Name

\* The position of an engine in a lock, and its token, when they move.
LEMMA Moves ==
    ASSUME NEW k, NEW e \in Engines, NEW at, NEW t,
           LockPc(e, k)' = at, Shown(e, k)' = t,
           \A d \in Engines \ {e} :
               LockPc(d, k)' = LockPc(d, k) /\ Shown(d, k)' = Shown(d, k)
    PROVE  /\ [d \in Engines |-> LockPc(d, k)]' =
                [[d \in Engines |-> LockPc(d, k)] EXCEPT ![e] = at]
           /\ [d \in Engines |-> Shown(d, k)]' =
                [[d \in Engines |-> Shown(d, k)] EXCEPT ![e] = t]
OBVIOUS

LEMMA WorldLocks ==
    ASSUME TypeInv, World, NEW k \in Names
    PROVE  [Lock(k)!Next]_(Lock(k)!vars)
<1>1. /\ UNCHANGED <<pc, now, cur, token>>
      /\ \A e \in Engines : LockPc(e, k)' = LockPc(e, k) /\ Shown(e, k)' = Shown(e, k)
  BY Still DEF World, Tick, Provide, Delete, Expire, engine
<1>2. CASE Tick \/ \E c \in Crons : Provide(c) \/ Delete(c)
  BY <1>1, <1>2, LockUntouched DEF Tick, Provide, Delete
<1>3. ASSUME NEW n \in Names, Expire(n)
      PROVE  [Lock(k)!Next]_(Lock(k)!vars)
  <2>1. CASE n # k
    BY <1>1, <1>3, <2>1, LockUntouched DEF Expire, TypeInv, TypeOK
  <2>2. CASE n = k
    <3>1. lock[k] # None /\ lock'[k] = None
      BY <1>3, <2>2 DEF Expire, TypeInv, TypeOK
    <3>2. Lock(k)!Expires
      BY <1>3, <2>2 DEF Expire, Holds, Lock!Expires, Lock!Holds, LockPc
    <3>3. /\ [d \in Engines |-> LockPc(d, k)]' = [d \in Engines |-> LockPc(d, k)]
          /\ [d \in Engines |-> Shown(d, k)]' = [d \in Engines |-> Shown(d, k)]
      BY <1>1
    <3>4. Lock(k)!Expire
      BY <3>1, <3>2, <3>3 DEF Lock!Expire, Shown
    <3> QED
      BY <3>4 DEF Lock!Next
  <2> QED
    BY <2>1, <2>2
<1> QED
  BY <1>2, <1>3 DEF World

LEMMA ListLocks ==
    ASSUME TypeInv, NEW e \in Engines, Listing(e), NEW k \in Names
    PROVE  [Lock(k)!Next]_(Lock(k)!vars)
<1>1. pc[e] \in {"idle", "loop"} /\ UNCHANGED <<lock, cur, token>>
  BY DEF Listing, ListDue, EndList
<1>2. cur[e] = None /\ cur'[e] = None
  BY <1>1 DEF TypeInv, EngineOK
<1>3. \A d \in Engines \ {e} : pc'[d] = pc[d] /\ now'[d] = now[d]
  BY DEF Listing, ListDue, EndList, TypeInv, TypeOK
<1>4. \A d \in Engines : LockPc(d, k)' = LockPc(d, k) /\ Shown(d, k)' = Shown(d, k)
  <2>1. LockPc(e, k)' = LockPc(e, k) /\ Shown(e, k)' = Shown(e, k)
    BY <1>2 DEF LockPc, Shown
  <2>2. \A d \in Engines \ {e} : LockPc(d, k)' = LockPc(d, k) /\ Shown(d, k)' = Shown(d, k)
    BY <1>1, <1>3, Still
  <2> QED
    BY <2>1, <2>2
<1> QED
  BY <1>1, <1>4, LockUntouched

LEMMA VisitLocks ==
    ASSUME TypeInv, TypeInv', NEW e \in Engines, NEW c \in Crons, Visiting(e, c),
           NEW k \in Names
    PROVE  [Lock(k)!Next]_(Lock(k)!vars)
<1> DEFINE n == Name(c, now[e])
<1>1. /\ pc[e] = "loop" /\ cur[e] = None /\ token[e] = None
      /\ n \in Names /\ UNCHANGED now
  BY DEF Visiting, Acquire, AcquireUnanswered, NotAcquired, Visits, Name, Names,
         TypeInv, TypeOK, EngineOK
<1>2. LockPc(e, k) = "out" /\ Shown(e, k) = None
  BY <1>1, Outside
<1>3. CASE Acquire(e, c)
  <2> DEFINE t == NewToken(n)
  <2>1. /\ lock' = [lock EXCEPT ![n] = t] /\ cur'[e] = c /\ token'[e] = t /\ pc'[e] = "fn"
        /\ \A d \in Engines \ {e} :
             cur'[d] = cur[d] /\ token'[d] = token[d] /\ pc'[d] = pc[d]
    BY <1>3 DEF Acquire, TypeInv, TypeOK
  <2>2. lock[n] = None /\ t \in Tokens /\ \A d \in Engines : t # token[d]
    BY <1>3, AcquireFacts DEF Acquire
  <2>3. \A d \in Engines \ {e} : LockPc(d, k)' = LockPc(d, k) /\ Shown(d, k)' = Shown(d, k)
    BY <1>1, <2>1, Still
  <2> HIDE DEF t
  <2>4. CASE k # n
    <3>1. LockPc(e, k)' = "out" /\ Shown(e, k)' = None
      BY <1>1, <2>1, <2>4 DEF LockPc, Shown
    <3>2. lock'[k] = lock[k]
      BY <2>1, <2>4 DEF TypeInv, TypeOK
    <3> QED
      BY <1>2, <2>3, <3>1, <3>2, LockUntouched
  <2>5. CASE k = n
    <3>1. LockPc(e, k)' = "fn" /\ Shown(e, k)' = t
      BY <1>1, <2>1, <2>5, CronAssumption DEF LockPc, Shown, Name
    <3>2. t \in Lock(k)!NewTokens
      BY <2>2, <2>5, CronAssumption DEF Lock!NewTokens
    <3>3. lock[k] = None /\ lock'[k] = t
      BY <1>1, <2>1, <2>2, <2>5 DEF TypeInv, TypeOK
    <3> DEFINE at == [d \in Engines |-> LockPc(d, k)]
               own == [d \in Engines |-> IF LockPc(d, k) = "out" THEN None ELSE token[d]]
    <3>4. at' = [at EXCEPT ![e] = "fn"] /\ own' = [own EXCEPT ![e] = t]
      BY <2>3, <3>1, Moves DEF Shown
    <3>5. at[e] = "out"
      BY <1>2
    <3>6. Lock(k)!Acquire(e)
      <4>1. /\ at[e] = "out" /\ lock[k] = None
            /\ lock[k]' = t /\ own' = [own EXCEPT ![e] = t]
            /\ at' = [at EXCEPT ![e] = "fn"]
        BY <3>3, <3>4, <3>5
      <4> HIDE DEF at, own
      <4>2. \E u \in Lock(k)!NewTokens : lock[k]' = u /\ own' = [own EXCEPT ![e] = u]
        BY <3>2, <4>1
      <4> QED
        BY <4>1, <4>2 DEF Lock!Acquire, Lock!KeyFree, at, own
    <3> QED
      BY <3>6 DEF Lock!Next
  <2> QED
    BY <2>4, <2>5
<1>4. CASE AcquireUnanswered(e, c)
  <2> DEFINE t == NewToken(n)
  <2>1. lock' = [lock EXCEPT ![n] = t] /\ UNCHANGED <<pc, cur, token>>
    BY <1>4 DEF AcquireUnanswered
  <2>2. lock[n] = None /\ t \in Tokens /\ \A d \in Engines : t # token[d]
    BY <1>4, AcquireFacts DEF AcquireUnanswered
  <2>3. \A d \in Engines : LockPc(d, k)' = LockPc(d, k) /\ Shown(d, k)' = Shown(d, k)
    BY <1>1, <2>1, Still
  <2> HIDE DEF t
  <2>4. CASE k # n
    BY <2>1, <2>3, <2>4, LockUntouched DEF TypeInv, TypeOK
  <2>5. CASE k = n
    <3>1. t \in Lock(k)!NewTokens
      BY <2>2, <2>5, CronAssumption DEF Lock!NewTokens
    <3>2. lock[k] = None /\ lock'[k] = t
      BY <1>1, <2>1, <2>2, <2>5 DEF TypeInv, TypeOK
    <3>3. Lock(k)!AcquireUnanswered(e)
      BY <1>2, <2>3, <3>1, <3>2 DEF Lock!AcquireUnanswered, Lock!KeyFree, Shown
    <3> QED
      BY <3>3 DEF Lock!Next
  <2> QED
    BY <2>4, <2>5
<1>5. CASE NotAcquired(e, c)
  BY <1>1, <1>5, Still, LockUntouched DEF NotAcquired
<1> QED
  BY <1>3, <1>4, <1>5 DEF Visiting

LEMMA FiringLocks ==
    ASSUME TypeInv, NEW e \in Engines, Firing(e), NEW k \in Names
    PROVE  [Lock(k)!Next]_(Lock(k)!vars)
<1>1. /\ pc[e] \in {"fn", "spawned"}
      /\ pc' = [pc EXCEPT ![e] = "spawned"] \/ pc' = [pc EXCEPT ![e] = "release"]
      /\ UNCHANGED <<lock, now, cur, token>>
  BY DEF Firing, Disable, DisableFails, Spawn, SpawnRefused, SpawnFails, SpawnFailed, UpdateFireTimes, UpdateFails,
         FnReturns
<1>2. cur[e] \in Crons /\ cur[e] # None
  BY <1>1 DEF TypeInv, TypeOK, EngineOK
<1>3. /\ pc'[e] \in {"spawned", "release"}
      /\ \A d \in Engines \ {e} : pc'[d] = pc[d]
  BY <1>1 DEF TypeInv, TypeOK
<1>4. \A d \in Engines \ {e} : LockPc(d, k)' = LockPc(d, k) /\ Shown(d, k)' = Shown(d, k)
  BY <1>1, <1>3, Still
<1>5. CASE k # Name(cur[e], now[e]) \/ pc'[e] = "spawned"
  <2>1. LockPc(e, k)' = LockPc(e, k) /\ Shown(e, k)' = Shown(e, k)
    BY <1>1, <1>5 DEF LockPc, Shown, Name
  <2> QED
    BY <1>1, <1>4, <2>1, LockUntouched
<1>6. CASE k = Name(cur[e], now[e]) /\ pc'[e] = "release"
  <2>1. LockPc(e, k) = "fn" /\ LockPc(e, k)' = "release" /\ Shown(e, k)' = Shown(e, k)
    BY <1>1, <1>2, <1>6 DEF LockPc, Shown, Name
  <2>2. [d \in Engines |-> Shown(d, k)]' = [d \in Engines |-> Shown(d, k)]
    BY <1>4, <2>1
  <2>3. Lock(k)!FnReturns(e)
    BY <1>1, <1>4, <2>1, <2>2, Moves DEF Lock!FnReturns, Shown
  <2> QED
    BY <2>3 DEF Lock!Next, Lock!Client
<1> QED
  BY <1>3, <1>5, <1>6

LEMMA LeavingLocks ==
    ASSUME TypeInv, NEW e \in Engines, Leaving(e), NEW k \in Names
    PROVE  [Lock(k)!Next]_(Lock(k)!vars)
<1> DEFINE n == Name(cur[e], now[e])
<1>1. \A d \in Engines \ {e} :
        now'[d] = now[d] /\ cur'[d] = cur[d] /\ token'[d] = token[d] /\ pc'[d] = pc[d]
  BY DEF Leaving, ReleaseGet, ReleaseDel, ReleaseFails, Crash, Unlock, TypeInv, TypeOK
<1>2. \A d \in Engines \ {e} : LockPc(d, k)' = LockPc(d, k) /\ Shown(d, k)' = Shown(d, k)
  BY <1>1, Still
<1>3. lock'[k] = lock[k] \/ (ReleaseDel(e) /\ k = n)
  BY DEF Leaving, ReleaseGet, ReleaseDel, ReleaseFails, Crash, TypeInv, TypeOK
<1>4. \/ ReleaseGet(e) /\ lock[n] = token[e] /\ pc'[e] = "delete" /\ UNCHANGED <<cur, token>>
      \/ cur'[e] = None
  BY DEF Leaving, ReleaseGet, Owns, ReleaseDel, ReleaseFails, Crash, Unlock, TypeInv, TypeOK
<1>5. CASE cur[e] = None \/ k # n
  <2>1. LockPc(e, k) = "out" /\ Shown(e, k) = None
    BY <1>5 DEF LockPc, Shown
  <2>2. LockPc(e, k)' = "out" /\ Shown(e, k)' = None
    <3>1. CASE cur'[e] = None
      BY <3>1 DEF LockPc, Shown
    <3>2. CASE ReleaseGet(e) /\ UNCHANGED <<cur, token>>
      BY <1>5, <3>2 DEF ReleaseGet, LockPc, Shown
    <3> QED
      BY <1>4, <3>1, <3>2
  <2>3. ~(ReleaseDel(e) /\ k = n)
    BY <1>5 DEF ReleaseDel, TypeInv, EngineOK
  <2> QED
    BY <1>2, <1>3, <2>1, <2>2, <2>3, LockUntouched
<1>6. CASE cur[e] # None /\ k = n
  <2>0. pc[e] \in {"fn", "spawned", "release", "delete"}
    BY <1>6 DEF TypeInv, TypeOK, EngineOK
  <2>1. LockPc(e, k) # "out" /\ Shown(e, k) = token[e]
    BY <1>6, <2>0 DEF LockPc, Shown
  <2>2. CASE ReleaseGet(e) /\ lock[n] = token[e] /\ pc'[e] = "delete" /\ UNCHANGED <<cur, token>>
    <3>1. LockPc(e, k) = "release" /\ LockPc(e, k)' = "delete" /\ Shown(e, k)' = Shown(e, k)
      BY <1>6, <2>2 DEF ReleaseGet, LockPc, Shown
    <3>2. [d \in Engines |-> Shown(d, k)]' = [d \in Engines |-> Shown(d, k)]
      BY <1>2, <3>1
    <3>3. Lock(k)!ReleaseGet(e)
      BY <1>2, <1>6, <2>1, <2>2, <3>1, <3>2, Moves
         DEF ReleaseGet, Owns, Lock!ReleaseGet, Lock!Matches, Shown
    <3> QED
      BY <3>3 DEF Lock!Next, Lock!Client
  <2>3. CASE cur'[e] = None
    <3>1. LockPc(e, k)' = "out" /\ Shown(e, k)' = None
      BY <2>3 DEF LockPc, Shown
    <3>2. Lock(k)!Out(e)
      BY <1>2, <3>1, Moves DEF Lock!Out, Shown
    <3>3. CASE ReleaseDel(e)
      <4>1. LockPc(e, k) = "delete" /\ lock'[k] = None
        BY <1>6, <3>3 DEF ReleaseDel, LockPc, TypeInv, TypeOK
      <4>2. Lock(k)!ReleaseDel(e)
        BY <3>2, <4>1 DEF Lock!ReleaseDel
      <4> QED
        BY <4>2 DEF Lock!Next, Lock!Client
    <3>4. CASE ~ReleaseDel(e)
      <4>1. Lock(k)!Leave(e)
        BY <1>3, <2>1, <3>2, <3>4 DEF Lock!Leave
      <4> QED
        BY <4>1 DEF Lock!Next
    <3> QED
      BY <3>3, <3>4
  <2> QED
    BY <1>4, <2>2, <2>3
<1> QED
  BY <1>5, <1>6

LEMMA LockSteps ==
    Deployed /\ TypeInv /\ [Next]_vars => \A k \in Names : [Lock(k)!Next]_(Lock(k)!vars)
<1> SUFFICES ASSUME Deployed, TypeInv, [Next]_vars, NEW k \in Names
             PROVE  [Lock(k)!Next]_(Lock(k)!vars)
  OBVIOUS
<1>1. TypeInv'
  BY TypeStep
<1>2. CASE Next
  BY <1>1, <1>2, Steps, WorldLocks, ListLocks, VisitLocks, FiringLocks, LeavingLocks
     DEF Deployed
<1>3. CASE UNCHANGED vars
  <2>1. UNCHANGED <<lock, pc, now, cur, token>>
    BY <1>3 DEF vars, engine
  <2> QED
    BY <2>1, Still, LockUntouched
<1> QED
  BY <1>2, <1>3

LEMMA LocksInit == Init => \A k \in Names : Lock(k)!Init
<1> SUFFICES ASSUME Init, NEW k \in Names
             PROVE  Lock(k)!Init
  OBVIOUS
<1>1. lock[k] = None /\ \A e \in Engines : LockPc(e, k) = "out"
  BY DEF Init, LockPc
<1> QED
  BY <1>1 DEF Lock!Init

\* The engines use every lock name as RedisLock describes it.
THEOREM EnginesUseLock == Spec => UsesLock
<1>1. Init => Deployed
  BY DEF Init, Deployed
<1>2. Init => \A k \in Names : Lock(k)!Init
  BY LocksInit
<1>3. Deployed /\ TypeInv /\ [Next]_vars => \A k \in Names : [Lock(k)!Next]_(Lock(k)!vars)
  BY LockSteps
<1>4. Spec => [](Deployed /\ TypeInv)
  BY <1>1, TypeInit, TypeStep, DeployedStep, PTL DEF Spec
<1> QED
  BY <1>2, <1>3, <1>4, PTL DEF Spec, UsesLock

(***************************************************************************)
(* What the lock gives the engines.                                        *)
(***************************************************************************)
Locked == \A k \in Names : LockAt(k)

LEMMA LockedInit == Init => Locked
BY LocksInit, LockInit, TokensNames DEF Locked

LEMMA LockedStep ==
    ASSUME TtlCovers
    PROVE  Deployed /\ TypeInv /\ Locked /\ [Next]_vars => Locked'
<1> SUFFICES ASSUME Deployed, TypeInv, Locked, [Next]_vars, NEW k \in Names
             PROVE  LockAt(k)'
  BY DEF Locked, Names, Minutes
<1>1. LockAt(k) /\ [Lock(k)!Next]_(Lock(k)!vars)
  BY LockSteps DEF Locked
<1>2. Lock(k)!TypeOK'
  BY <1>1, LockTypeStep, TokensNames DEF LockAt
<1>3. Lock(k)!HolderInv'
  BY <1>1, LockHolderStep, TokensNames
<1> QED
  BY <1>2, <1>3 DEF LockAt

LEMMA LockedAlone == TypeInv /\ Locked => FiresAlone
<1> SUFFICES ASSUME TypeInv, Locked, NEW e \in Engines, NEW f \in Engines,
                    pc[e] \in {"fn", "spawned"}, pc[f] \in {"fn", "spawned"},
                    Name(cur[e], now[e]) = Name(cur[f], now[f])
             PROVE  e = f
  BY DEF FiresAlone
<1> DEFINE k == Name(cur[e], now[e])
<1>1. cur[e] \in Crons /\ cur[e] # None /\ cur[f] # None /\ now[e] \in Minutes
  BY DEF TypeInv, TypeOK, EngineOK
<1>2. k \in Names
  BY <1>1 DEF Name, Names
<1>3. LockPc(e, k) = "fn" /\ LockPc(f, k) = "fn"
  BY <1>1 DEF LockPc
<1>4. Lock(k)!HolderInv
  BY <1>2 DEF Locked, LockAt
<1> HIDE DEF k
<1> QED
  BY <1>3, <1>4 DEF Lock!HolderInv

\* The lock does for the engines what it is there for: with a time to live that
\* covers a firing, no two engines of a cluster fire a definition for the same
\* minute at the same time.  (One after the other they may: the lock is released.)
THEOREM EnginesFireAlone ==
    ASSUME TtlCovers
    PROVE  Spec => []FiresAlone
<1>1. Init => Deployed
  BY DEF Init, Deployed
<1> QED
  BY <1>1, TypeInit, TypeStep, DeployedStep, LockedInit, LockedStep, LockedAlone, PTL DEF Spec

Owned == \A k \in Names : LockOwned(k)

\* What Release promises, kept under every name by engines that may be slower
\* than their locks last.
THEOREM EnginesReleaseOwn ==
    ASSUME DelInTime
    PROVE  Spec => ReleasesOwnLocks
<1>1. Init => Deployed /\ Owned
  BY LocksInit, OwnedInit, TokensNames DEF Init, Deployed, Owned
<1>2. Deployed /\ TypeInv /\ Owned /\ [Next]_vars => Owned'
  <2> SUFFICES ASSUME Deployed, TypeInv, Owned, [Next]_vars, NEW k \in Names
               PROVE  LockOwned(k)'
    BY DEF Owned, Names, Minutes
  <2>1. LockOwned(k) /\ [Lock(k)!Next]_(Lock(k)!vars)
    BY LockSteps DEF Owned
  <2>2. Lock(k)!TypeOK'
    BY <2>1, LockTypeStep, TokensNames DEF LockOwned
  <2>3. Lock(k)!OwnerInv'
    BY <2>1, LockOwnerStep, TokensNames
  <2> QED
    BY <2>2, <2>3 DEF LockOwned
<1>3. Owned => [\A k \in Names : Lock(k)!ReleasesOwn]_vars
  BY OwnerReleases DEF Owned
<1> QED
  BY <1>1, <1>2, <1>3, TypeInit, TypeStep, DeployedStep, PTL DEF Spec, ReleasesOwnLocks

(***************************************************************************)
(* One engine.  Whatever fails, the date of a definition moves on only     *)
(* after its job has been inserted, and a job is inserted a second time    *)
(* for one date only after a failure.                                      *)
(***************************************************************************)
Spawned(e, c) == cur[e] = c /\ pc[e] = "spawned"
Pending(e, c) == c \in todo[e] \/ (cur[e] = c /\ pc[e] \in {"fn", "spawned"})

\* The other engines have nothing to do, and a definition is visited once.
QueueInv ==
    /\ faults \in Nat
    /\ \A e \in Engines : pc[e] = "idle" => todo[e] = {}
    /\ \A e \in Engines \ deployed.engines : pc[e] = "idle"
    /\ \A e \in Engines, c \in Crons : c \in todo[e] => cur[e] # c

\* The date of a definition does not change between its listing and its firing.
DateInv ==
    /\ \A c \in Crons : row[c] = "absent" => next[c] = None
    /\ \A e \in Engines, c \in Crons : Pending(e, c) =>
         next[c] # None /\ listed[e][c] = next[c] /\ next[c] <= now[e]

\* Only a definition that has just been spawned, or can not be listed again, may
\* have one more job for its date than there were failures.
Settled(c) ==
    /\ next[c] # None
    /\ row[c] # "deleted" \/ \E e \in Engines : Pending(e, c)
    /\ \A e \in Engines : ~Spawned(e, c)
CountInv ==
    /\ \A c \in Crons, s \in Slots :
         /\ next[c] = None \/ s > next[c] => fired[c][s] = 0
         /\ fired[c][s] <= 1 + faults
    /\ \A c \in Crons : Settled(c) => fired[c][next[c]] <= faults
    /\ \A e \in Engines, c \in Crons : Spawned(e, c) => fired[c][next[c]] > 0

OneEngineInv == QueueInv /\ DateInv /\ CountInv

LEMMA OneEngineInit == Init => OneEngineInv
<1> SUFFICES ASSUME Init
             PROVE  OneEngineInv
  OBVIOUS
<1>1. QueueInv
  BY DEF Init, QueueInv
<1>2. \A e \in Engines, c \in Crons : ~Pending(e, c) /\ ~Spawned(e, c)
  BY DEF Init, Pending, Spawned
<1>3. DateInv
  BY <1>2 DEF Init, DateInv
<1>4. \A c \in Crons : ~Settled(c)
  BY DEF Init, Settled
<1>5. CountInv
  BY <1>2, <1>4 DEF Init, CountInv
<1> QED
  BY <1>1, <1>3, <1>5 DEF OneEngineInv

LEMMA CountTypes == TypeInv => \A c \in Crons, s \in Slots : fired[c][s] \in Nat /\ s \in Nat
BY SlotsNat, CronAssumption DEF TypeInv, TypeOK, Many

\* The steps that insert no job and move no date.
LEMMA CountKept ==
    ASSUME TypeInv, QueueInv, CountInv, faults' \in Nat, faults' >= faults,
           UNCHANGED <<next, fired>>,
           \A c \in Crons : Settled(c)' => Settled(c) \/ faults' > faults,
           \A e \in Engines, c \in Crons : Spawned(e, c)' => Spawned(e, c)
    PROVE  CountInv'
<1>1. faults \in Nat
  BY DEF QueueInv
<1>2. ASSUME NEW c \in Crons, NEW s \in Slots
      PROVE  /\ next'[c] = None \/ s > next'[c] => fired'[c][s] = 0
             /\ fired'[c][s] <= 1 + faults'
  BY <1>1, CountTypes DEF CountInv
<1>3. ASSUME NEW c \in Crons, Settled(c)'
      PROVE  fired'[c][next'[c]] <= faults'
  <2>1. next[c] \in Slots
    BY <1>3 DEF Settled, TypeInv, TypeOK
  <2>2. fired[c][next[c]] \in Nat /\ fired[c][next[c]] <= 1 + faults
    BY <2>1, CountTypes DEF CountInv
  <2>3. Settled(c) => fired[c][next[c]] <= faults
    BY DEF CountInv
  <2> QED
    BY <1>1, <1>3, <2>2, <2>3
<1>4. ASSUME NEW e \in Engines, NEW c \in Crons, Spawned(e, c)'
      PROVE  fired'[c][next'[c]] > 0
  BY <1>4 DEF CountInv
<1> QED
  BY <1>2, <1>3, <1>4 DEF CountInv

LEMMA DateKept ==
    ASSUME DateInv, UNCHANGED next,
           \A c \in Crons : row'[c] = "absent" => row[c] = "absent",
           \A e \in Engines, c \in Crons : Pending(e, c)' =>
               Pending(e, c) /\ listed'[e][c] = listed[e][c] /\ now'[e] = now[e]
    PROVE  DateInv'
BY DEF DateInv

\* Users, the clock and Redis.
LEMMA WorldOne ==
    ASSUME TypeInv, OneEngineInv, World, UNCHANGED deployed
    PROVE  OneEngineInv'
<1>1. /\ UNCHANGED <<pc, now, todo, listed, cur, fired, faults>>
      /\ \A e \in Engines, c \in Crons :
           Pending(e, c)' = Pending(e, c) /\ Spawned(e, c)' = Spawned(e, c)
  BY DEF World, Tick, Provide, Delete, Expire, engine, Pending, Spawned
<1>2. QueueInv' /\ faults \in Nat
  BY <1>1 DEF OneEngineInv, QueueInv
<1>3. CASE UNCHANGED next
  <2>1. \A c \in Crons : /\ row'[c] = "absent" => row[c] = "absent"
                         /\ row[c] = "deleted" => row'[c] = "deleted"
    <3>1. CASE UNCHANGED row
      BY <3>1
    <3>2. ASSUME NEW c \in Crons, row[c] \in {"absent", "active", "inactive"},
                 \E r \in {"active", "deleted"} : row' = [row EXCEPT ![c] = r]
          PROVE  \A d \in Crons : /\ row'[d] = "absent" => row[d] = "absent"
                                  /\ row[d] = "deleted" => row'[d] = "deleted"
      BY <3>2 DEF TypeInv, TypeOK
    <3>3. UNCHANGED row \/ \E c \in Crons :
             /\ row[c] \in {"absent", "active", "inactive"}
             /\ \E r \in {"active", "deleted"} : row' = [row EXCEPT ![c] = r]
      BY DEF World, Tick, Provide, Delete, Expire
    <3> QED
      BY <3>1, <3>2, <3>3
  <2>2. DateInv'
    BY <1>1, <1>3, <2>1, DateKept DEF OneEngineInv
  <2>3. \A c \in Crons : Settled(c)' => Settled(c)
    BY <1>1, <1>3, <2>1 DEF Settled
  <2>4. CountInv'
    BY <1>1, <1>2, <1>3, <2>3, CountKept DEF OneEngineInv
  <2> QED
    BY <1>2, <2>2, <2>4 DEF OneEngineInv
<1>4. CASE ~UNCHANGED next
  <2>1. PICK c \in Crons : Provide(c)
    BY <1>4 DEF World, Tick, Provide, Delete, Expire
  <2>2. row[c] = "absent" /\ next[c] = None /\ row'[c] = "active"
    BY <2>1 DEF Provide, OneEngineInv, DateInv, TypeInv, TypeOK
  <2>3. \A d \in Crons \ {c} : row'[d] = row[d] /\ next'[d] = next[d]
    BY <2>1 DEF Provide, TypeInv, TypeOK
  <2>4. \A e \in Engines : ~Pending(e, c) /\ ~Spawned(e, c)
    BY <2>2 DEF OneEngineInv, DateInv, Pending, Spawned
  <2>5. next'[c] \in Slots \cup {None}
    BY WorldTypes DEF World, TypeInv, TypeOK
  <2>6. \A s \in Slots : fired[c][s] = 0
    BY <2>2 DEF OneEngineInv, CountInv
  <2>7. DateInv'
    BY <1>1, <2>2, <2>3, <2>4 DEF OneEngineInv, DateInv
  <2>8. \A d \in Crons \ {c} : Settled(d)' => Settled(d)
    BY <1>1, <2>3 DEF Settled
  <2>9. \A d \in Crons : Settled(d)' => fired'[d][next'[d]] <= faults'
    <3> SUFFICES ASSUME NEW d \in Crons, Settled(d)'
                 PROVE  fired'[d][next'[d]] <= faults'
      OBVIOUS
    <3>1. CASE d = c
      BY <1>1, <1>2, <2>5, <2>6, <3>1 DEF Settled
    <3>2. CASE d # c
      BY <1>1, <2>3, <2>8, <3>2 DEF OneEngineInv, CountInv
    <3> QED
      BY <3>1, <3>2
  <2>10. \A d \in Crons, s \in Slots :
           /\ next'[d] = None \/ s > next'[d] => fired'[d][s] = 0
           /\ fired'[d][s] <= 1 + faults'
    BY <1>1, <2>3, <2>6 DEF OneEngineInv, CountInv
  <2>11. \A e \in Engines, d \in Crons : Spawned(e, d)' => fired'[d][next'[d]] > 0
    BY <1>1, <2>3, <2>4 DEF OneEngineInv, CountInv
  <2> QED
    BY <1>2, <2>7, <2>9, <2>10, <2>11 DEF OneEngineInv, CountInv
<1> QED
  BY <1>3, <1>4

\* The engine that runs has no other beside it.
LEMMA OthersIdle ==
    ASSUME QueueInv, OneEngine, NEW e \in deployed.engines
    PROVE  \A d \in Engines \ {e} :
             /\ pc[d] = "idle" /\ todo[d] = {}
             /\ \A c \in Crons : ~Pending(d, c) /\ ~Spawned(d, c)
BY DEF QueueInv, OneEngine, Pending, Spawned

LEMMA QueueKept ==
    ASSUME QueueInv, NEW e \in Engines, e \in deployed.engines, UNCHANGED deployed,
           faults' \in Nat,
           \A d \in Engines \ {e} : pc'[d] = pc[d] /\ todo'[d] = todo[d] /\ cur'[d] = cur[d],
           pc'[e] = "idle" => todo'[e] = {},
           \A c \in Crons : c \in todo'[e] => cur'[e] # c
    PROVE  QueueInv'
BY DEF QueueInv

LEMMA ListOne ==
    ASSUME TypeInv, OneEngineInv, OneEngine, UNCHANGED deployed,
           NEW e \in Engines, e \in deployed.engines, Listing(e)
    PROVE  OneEngineInv'
<1>1. \A d \in Engines \ {e} : \A c \in Crons : ~Pending(d, c) /\ ~Spawned(d, c)
  BY OthersIdle DEF OneEngineInv
<1>2. /\ pc[e] \in {"idle", "loop"} /\ pc'[e] \in {"idle", "loop"}
      /\ cur[e] = None /\ UNCHANGED <<row, next, fired, cur, faults>>
      /\ \A d \in Engines \ {e} : pc'[d] = pc[d] /\ todo'[d] = todo[d]
      /\ pc'[e] = "idle" => todo'[e] = {}
  BY DEF Listing, ListDue, EndList, TypeInv, TypeOK, EngineOK
<1>3. faults \in Nat
  BY DEF OneEngineInv, QueueInv
<1>4. QueueInv'
  <2>1. \A c \in Crons : c \in todo'[e] => cur'[e] # c
    BY <1>2, CronAssumption
  <2> QED
    BY <1>2, <1>3, <2>1, QueueKept DEF OneEngineInv
<1>5. \A d \in Engines, c \in Crons : ~Spawned(d, c)'
  BY <1>1, <1>2 DEF Spawned
<1>6. \A d \in Engines \ {e} : \A c \in Crons : ~Pending(d, c)'
  BY <1>1, <1>2 DEF Pending
<1>7. \A c \in Crons : Pending(e, c)' =>
        /\ next'[c] # None /\ listed'[e][c] = next'[c] /\ next'[c] <= now'[e]
        /\ row'[c] = "active"
  <2> SUFFICES ASSUME NEW c \in Crons, Pending(e, c)'
               PROVE  /\ next'[c] # None /\ listed'[e][c] = next'[c] /\ next'[c] <= now'[e]
                      /\ row'[c] = "active"
    OBVIOUS
  <2>1. c \in todo'[e]
    BY <1>2 DEF Pending
  <2>2. CASE ListDue(e)
    <3> DEFINE due == {d \in Crons : Due(d, minute)}
               dates == [d \in Crons |-> IF d \in due THEN next[d] ELSE None]
    <3>1. todo' = [todo EXCEPT ![e] = due] /\ listed' = [listed EXCEPT ![e] = dates]
          /\ now' = [now EXCEPT ![e] = minute]
      BY <2>2 DEF ListDue
    <3>2. todo'[e] = due /\ listed'[e] = dates /\ now'[e] = minute
      BY <3>1 DEF TypeInv, TypeOK
    <3>3. Due(c, minute) /\ dates[c] = next[c]
      BY <2>1, <3>2
    <3> QED
      BY <1>2, <3>2, <3>3 DEF Due
  <2>3. CASE EndList(e)
    BY <2>1, <2>3 DEF EndList
  <2> QED
    BY <2>2, <2>3 DEF Listing
<1>8. DateInv'
  BY <1>2, <1>6, <1>7 DEF OneEngineInv, DateInv
<1>9. \A c \in Crons : Settled(c)' => Settled(c)
  BY <1>1, <1>2, <1>6, <1>7 DEF Settled, Spawned
<1>10. CountInv'
  BY <1>2, <1>3, <1>5, <1>9, CountKept DEF OneEngineInv
<1> QED
  BY <1>4, <1>8, <1>10 DEF OneEngineInv

LEMMA VisitOne ==
    ASSUME TypeInv, OneEngineInv, OneEngine, UNCHANGED deployed,
           NEW e \in Engines, e \in deployed.engines, NEW c \in Crons, Visiting(e, c)
    PROVE  OneEngineInv'
<1>1. \A d \in Engines \ {e} : \A b \in Crons : ~Pending(d, b) /\ ~Spawned(d, b)
  BY OthersIdle DEF OneEngineInv
<1>2. /\ pc[e] = "loop" /\ c \in todo[e] /\ todo'[e] = todo[e] \ {c}
      /\ \/ pc'[e] = "fn" /\ cur'[e] = c
         \/ pc'[e] = "loop" /\ cur'[e] = cur[e]
      /\ UNCHANGED <<row, next, fired, now, listed>>
      /\ \A d \in Engines \ {e} : pc'[d] = pc[d] /\ todo'[d] = todo[d] /\ cur'[d] = cur[d]
  BY DEF Visiting, Acquire, AcquireUnanswered, NotAcquired, Visits, TypeInv, TypeOK
<1>3. faults \in Nat /\ faults' \in Nat /\ faults' >= faults
  BY DEF Visiting, Acquire, AcquireUnanswered, NotAcquired, Fault, OneEngineInv, QueueInv
<1>4. cur[e] = None
  BY <1>2 DEF TypeInv, EngineOK
<1>5. QueueInv'
  <2>1. \A b \in Crons : b \in todo'[e] => cur'[e] # b
    BY <1>2, <1>4, CronAssumption
  <2> QED
    BY <1>2, <1>3, <2>1, QueueKept DEF OneEngineInv
<1>6. \A d \in Engines, b \in Crons : Pending(d, b)' => Pending(d, b)
  BY <1>1, <1>2, <1>4, CronAssumption DEF Pending
<1>7. \A d \in Engines, b \in Crons : ~Spawned(d, b) /\ ~Spawned(d, b)'
  BY <1>1, <1>2 DEF Spawned
<1>8. DateInv'
  BY <1>2, <1>6, DateKept DEF OneEngineInv
<1>9. \A b \in Crons : Settled(b)' => Settled(b)
  BY <1>2, <1>6, <1>7 DEF Settled
<1>10. CountInv'
  BY <1>2, <1>3, <1>7, <1>9, CountKept DEF OneEngineInv
<1> QED
  BY <1>5, <1>8, <1>10 DEF OneEngineInv

LEMMA LeavingOne ==
    ASSUME TypeInv, OneEngineInv, OneEngine, UNCHANGED deployed,
           NEW e \in Engines, e \in deployed.engines, Leaving(e)
    PROVE  OneEngineInv'
<1>1. \A d \in Engines \ {e} : \A b \in Crons : ~Pending(d, b) /\ ~Spawned(d, b)
  BY OthersIdle DEF OneEngineInv
<1>2. /\ UNCHANGED <<row, next, fired>>
      /\ \A d \in Engines \ {e} : pc'[d] = pc[d] /\ todo'[d] = todo[d] /\ cur'[d] = cur[d]
  BY DEF Leaving, ReleaseGet, ReleaseDel, ReleaseFails, Crash, Unlock, TypeInv, TypeOK
<1>3. \/ /\ pc[e] \in {"release", "delete"} /\ todo'[e] = todo[e]
         /\ UNCHANGED <<now, listed>>
         /\ pc'[e] \in {"loop", "delete"} /\ cur'[e] \in {cur[e], None}
         /\ faults' \in {faults, faults + 1}
      \/ pc'[e] = "idle" /\ todo'[e] = {} /\ cur'[e] = None /\ faults' = faults + 1
  BY DEF Leaving, ReleaseGet, ReleaseDel, ReleaseFails, Crash, Unlock, Fault, TypeInv, TypeOK
<1>4. faults \in Nat /\ faults' \in Nat /\ faults' >= faults
  BY <1>3 DEF OneEngineInv, QueueInv
<1>5. QueueInv'
  <2>1. \A c \in Crons : c \in todo'[e] => cur'[e] # c
    BY <1>3, CronAssumption DEF OneEngineInv, QueueInv
  <2>2. pc'[e] = "idle" => todo'[e] = {}
    BY <1>3
  <2> QED
    BY <1>2, <1>4, <2>1, <2>2, QueueKept DEF OneEngineInv
<1>6. \A d \in Engines, b \in Crons : Pending(d, b)' =>
        Pending(d, b) /\ d = e /\ UNCHANGED <<now, listed>>
  BY <1>1, <1>2, <1>3 DEF Pending
<1>7. \A d \in Engines, b \in Crons : ~Spawned(d, b)'
  BY <1>1, <1>2, <1>3 DEF Spawned
<1>8. DateInv'
  BY <1>2, <1>6, DateKept DEF OneEngineInv
<1>9. \A b \in Crons : Settled(b)' => Settled(b) \/ faults' > faults
  <2>1. CASE faults' = faults + 1
    BY <1>4, <2>1
  <2>2. CASE pc[e] \in {"release", "delete"}
    BY <1>1, <1>2, <1>6, <2>2 DEF Settled, Spawned
  <2> QED
    BY <1>3, <2>1, <2>2
<1>10. CountInv'
  BY <1>2, <1>4, <1>7, <1>9, CountKept DEF OneEngineInv
<1> QED
  BY <1>5, <1>8, <1>10 DEF OneEngineInv

\* The definition being fired is pending, and its date is its own.
LEMMA InHand ==
    ASSUME TypeInv, OneEngineInv, NEW e \in Engines, pc[e] \in {"fn", "spawned"}
    PROVE  /\ cur[e] \in Crons /\ next[cur[e]] \in Slots
           /\ listed[e][cur[e]] = next[cur[e]] /\ next[cur[e]] <= now[e]
           /\ cur[e] \notin todo[e] /\ now[e] \in Minutes
<1>1. cur[e] \in Crons
  BY DEF TypeInv, TypeOK, EngineOK
<1>2. Pending(e, cur[e])
  BY DEF Pending
<1>3. next[cur[e]] # None /\ listed[e][cur[e]] = next[cur[e]] /\ next[cur[e]] <= now[e]
  BY <1>1, <1>2 DEF OneEngineInv, DateInv
<1> QED
  BY <1>1, <1>3 DEF OneEngineInv, QueueInv, TypeInv, TypeOK

\* A firing that ends without a job: nothing is counted.
LEMMA FailedOne ==
    ASSUME TypeInv, OneEngineInv, OneEngine, UNCHANGED deployed,
           NEW e \in Engines, e \in deployed.engines,
           \/ Disable(e) \/ DisableFails(e) \/ SpawnRefused(e) \/ SpawnFails(e)
           \/ UpdateFails(e)
    PROVE  OneEngineInv'
<1> DEFINE c == cur[e]
<1>1. \A d \in Engines \ {e} : \A b \in Crons : ~Pending(d, b) /\ ~Spawned(d, b)
  BY OthersIdle DEF OneEngineInv
<1>2. /\ pc[e] \in {"fn", "spawned"} /\ pc' = [pc EXCEPT ![e] = "release"]
      /\ UNCHANGED <<next, fired, now, todo, listed, cur>>
      /\ pc[e] = "spawned" => faults' = faults + 1
      /\ faults' \in {faults, faults + 1}
  BY DEF Disable, DisableFails, SpawnRefused, SpawnFails, SpawnFailed, UpdateFails, FnReturns, Fault
<1>3. faults \in Nat /\ faults' \in Nat /\ faults' >= faults
  BY <1>2 DEF OneEngineInv, QueueInv
<1>4. \A b \in Crons : /\ row'[b] = "absent" => row[b] = "absent"
                       /\ row[b] = "deleted" => row'[b] = "deleted"
  BY <1>2, InHand DEF Disable, DisableFails, SpawnRefused, SpawnFails, UpdateFails, TypeInv, TypeOK
<1>5. pc'[e] = "release" /\ \A d \in Engines \ {e} : pc'[d] = pc[d]
  BY <1>2 DEF TypeInv, TypeOK
<1>6. QueueInv'
  <2>1. \A b \in Crons : b \in todo'[e] => cur'[e] # b
    BY <1>2 DEF OneEngineInv, QueueInv
  <2>2. \A d \in Engines \ {e} : pc'[d] = pc[d] /\ todo'[d] = todo[d] /\ cur'[d] = cur[d]
    BY <1>2, <1>5
  <2> QED
    BY <1>3, <1>5, <2>1, <2>2, QueueKept DEF OneEngineInv
<1>7. \A d \in Engines, b \in Crons : Pending(d, b)' => Pending(d, b)
  BY <1>2, <1>5 DEF Pending
<1>8. \A d \in Engines, b \in Crons : ~Spawned(d, b)'
  BY <1>1, <1>2, <1>5 DEF Spawned
<1>9. DateInv'
  BY <1>2, <1>4, <1>7, DateKept DEF OneEngineInv
<1>10. \A b \in Crons : Settled(b)' => Settled(b) \/ faults' > faults
  <2>1. CASE pc[e] = "spawned"
    BY <1>2, <1>3, <2>1
  <2>2. CASE pc[e] = "fn"
    BY <1>1, <1>2, <1>4, <1>7, <2>2 DEF Settled, Spawned
  <2> QED
    BY <1>2, <2>1, <2>2
<1>11. CountInv'
  BY <1>2, <1>3, <1>8, <1>10, CountKept DEF OneEngineInv
<1> QED
  BY <1>6, <1>9, <1>11 DEF OneEngineInv

LEMMA SpawnOne ==
    ASSUME TypeInv, OneEngineInv, OneEngine, UNCHANGED deployed,
           NEW e \in Engines, e \in deployed.engines, Spawn(e)
    PROVE  OneEngineInv'
<1> DEFINE c == cur[e]
           s == next[c]
           n == IF fired[c][s] < Many THEN fired[c][s] + 1 ELSE fired[c][s]
<1>1. \A d \in Engines \ {e} : \A b \in Crons : ~Pending(d, b) /\ ~Spawned(d, b)
  BY OthersIdle DEF OneEngineInv
<1>2. /\ pc[e] = "fn" /\ pc' = [pc EXCEPT ![e] = "spawned"]
      /\ UNCHANGED <<row, next, now, todo, listed, cur, faults>>
  BY DEF Spawn
<1>3. c \in Crons /\ s \in Slots /\ listed[e][c] = s /\ c \notin todo[e]
  BY <1>2, InHand
<1>4. pc'[e] = "spawned" /\ \A d \in Engines \ {e} : pc'[d] = pc[d]
  BY <1>2 DEF TypeInv, TypeOK
<1>5. faults \in Nat /\ Many \in Nat \ {0}
  BY CronAssumption DEF OneEngineInv, QueueInv, Many
<1>6. fired[c][s] \in Nat /\ fired[c][s] <= faults
  <2>1. Pending(e, c)
    BY <1>2 DEF Pending
  <2>2. \A d \in Engines : ~Spawned(d, c)
    BY <1>1, <1>2, <1>3 DEF Spawned
  <2>3. Settled(c)
    BY <1>3, <2>1, <2>2, SlotsNat DEF Settled
  <2> QED
    BY <1>3, <2>3, CountTypes DEF OneEngineInv, CountInv
<1>7. n \in Nat /\ n > 0 /\ n <= 1 + faults
  BY <1>5, <1>6
<1>8. fired' = [fired EXCEPT ![c] = [fired[c] EXCEPT ![s] = n]]
  BY <1>3 DEF Spawn, TypeInv, TypeOK
<1> HIDE DEF n
<1>9. /\ fired'[c][s] = n
      /\ \A b \in Crons, u \in Slots : b # c \/ u # s => fired'[b][u] = fired[b][u]
  BY <1>3, <1>8 DEF TypeInv, TypeOK
<1> HIDE DEF c, s
<1>10. QueueInv'
  <2>1. \A b \in Crons : b \in todo'[e] => cur'[e] # b
    BY <1>2 DEF OneEngineInv, QueueInv
  <2>2. \A d \in Engines \ {e} : pc'[d] = pc[d] /\ todo'[d] = todo[d] /\ cur'[d] = cur[d]
    BY <1>2, <1>4
  <2> QED
    BY <1>2, <1>4, <1>5, <2>1, <2>2, QueueKept DEF OneEngineInv
<1>11. \A d \in Engines, b \in Crons : Pending(d, b)' => Pending(d, b)
  BY <1>2, <1>4 DEF Pending
<1>12. DateInv'
  BY <1>2, <1>11, DateKept DEF OneEngineInv
<1>13. \A d \in Engines, b \in Crons : Spawned(d, b)' => b = c
  BY <1>1, <1>2, <1>4 DEF Spawned, c
<1>14. \A b \in Crons : Settled(b)' => Settled(b) /\ b # c
  <2>1. ASSUME NEW b \in Crons, b = c
        PROVE  ~Settled(b)'
    <3>1. Spawned(e, b)'
      BY <1>2, <1>4, <2>1 DEF Spawned, c
    <3> QED
      BY <3>1 DEF Settled
  <2>2. ASSUME NEW b \in Crons, b # c, Settled(b)'
        PROVE  Settled(b)
    <3>1. \A d \in Engines : ~Spawned(d, b)
      BY <1>1, <1>2, <2>2 DEF Spawned
    <3> QED
      BY <1>2, <1>11, <2>2, <3>1 DEF Settled
  <2> QED
    BY <2>1, <2>2
<1>15. s = next[c] /\ next' = next
  BY <1>2 DEF s
<1>16. CountInv'
  <2>1. ASSUME NEW b \in Crons, NEW u \in Slots
        PROVE  /\ next'[b] = None \/ u > next'[b] => fired'[b][u] = 0
               /\ fired'[b][u] <= 1 + faults'
    <3>1. CASE b = c /\ u = s
      BY <1>2, <1>3, <1>7, <1>9, <1>15, <3>1, SlotsNat
    <3>2. CASE b # c \/ u # s
      BY <1>2, <1>9, <3>2 DEF OneEngineInv, CountInv
    <3> QED
      BY <3>1, <3>2
  <2>2. ASSUME NEW b \in Crons, Settled(b)'
        PROVE  fired'[b][next'[b]] <= faults'
    <3>1. Settled(b) /\ b # c /\ next[b] \in Slots
      BY <1>14, <2>2 DEF Settled, TypeInv, TypeOK
    <3> QED
      BY <1>2, <1>9, <3>1 DEF OneEngineInv, CountInv
  <2>3. ASSUME NEW d \in Engines, NEW b \in Crons, Spawned(d, b)'
        PROVE  fired'[b][next'[b]] > 0
    BY <1>7, <1>9, <1>13, <1>15, <2>3
  <2> QED
    BY <2>1, <2>2, <2>3 DEF CountInv
<1> QED
  BY <1>10, <1>12, <1>16 DEF OneEngineInv

LEMMA UpdateOne ==
    ASSUME TypeInv, OneEngineInv, OneEngine, UNCHANGED deployed,
           NEW e \in Engines, e \in deployed.engines, UpdateFireTimes(e)
    PROVE  OneEngineInv'
<1> DEFINE c == cur[e]
           s == NextFire(c, now[e])
<1>1. \A d \in Engines \ {e} : \A b \in Crons : ~Pending(d, b) /\ ~Spawned(d, b)
  BY OthersIdle DEF OneEngineInv
<1>2. /\ pc[e] = "spawned" /\ pc' = [pc EXCEPT ![e] = "release"]
      /\ UNCHANGED <<row, fired, now, todo, listed, cur, faults>>
      /\ next' = IF row[c] = "deleted" THEN next ELSE [next EXCEPT ![c] = s]
  BY DEF UpdateFireTimes, FnReturns
<1>3. c \in Crons /\ next[c] \in Slots /\ next[c] <= now[e] /\ c \notin todo[e]
      /\ now[e] \in Minutes
  BY <1>2, InHand
<1>4. pc'[e] = "release" /\ \A d \in Engines \ {e} : pc'[d] = pc[d]
  BY <1>2 DEF TypeInv, TypeOK
<1>5. s \in Slots /\ s > next[c]
  <2>0. Minutes \subseteq Nat
    BY CronAssumption DEF Minutes
  <2>1. now[e] \in Nat /\ next[c] \in Nat
    BY <1>3, <2>0, SlotsNat
  <2>2. s > now[e] /\ s \in Nat
    BY <1>3, <2>1, NextFireAfter
  <2> QED
    BY <1>3, <2>1, <2>2, NextFireSlot
<1>6. faults \in Nat
  BY DEF OneEngineInv, QueueInv
<1> HIDE DEF s
<1>7. /\ next'[c] \in {next[c], s} /\ (row[c] # "deleted" => next'[c] = s)
      /\ \A b \in Crons \ {c} : next'[b] = next[b]
  BY <1>2, <1>3 DEF TypeInv, TypeOK
<1> HIDE DEF c
<1>8. QueueInv'
  <2>1. \A b \in Crons : b \in todo'[e] => cur'[e] # b
    BY <1>2 DEF OneEngineInv, QueueInv
  <2>2. \A d \in Engines \ {e} : pc'[d] = pc[d] /\ todo'[d] = todo[d] /\ cur'[d] = cur[d]
    BY <1>2, <1>4
  <2> QED
    BY <1>2, <1>4, <1>6, <2>1, <2>2, QueueKept DEF OneEngineInv
<1>9. \A d \in Engines, b \in Crons : Pending(d, b)' => Pending(d, b) /\ b # c
  BY <1>1, <1>2, <1>3, <1>4 DEF Pending, c
<1>10. \A d \in Engines, b \in Crons : ~Spawned(d, b)' /\ (Spawned(d, b) => b = c)
  BY <1>1, <1>2, <1>4 DEF Spawned, c
<1>11. row[c] # "absent"
  BY <1>3, SlotsNat DEF OneEngineInv, DateInv
<1>12. DateInv'
  BY <1>2, <1>7, <1>9, <1>11 DEF OneEngineInv, DateInv
<1>13. CountInv'
  <2>1. ASSUME NEW b \in Crons, NEW u \in Slots
        PROVE  /\ next'[b] = None \/ u > next'[b] => fired'[b][u] = 0
               /\ fired'[b][u] <= 1 + faults'
    <3>1. CASE b = c
      <4>1. next'[b] # None /\ (u > next'[b] => u > next[b])
        BY <1>3, <1>5, <1>7, <3>1, SlotsNat
      <4> QED
        BY <1>2, <4>1 DEF OneEngineInv, CountInv
    <3>2. CASE b # c
      BY <1>2, <1>7, <3>2 DEF OneEngineInv, CountInv
    <3> QED
      BY <3>1, <3>2
  <2>2. ASSUME NEW b \in Crons, Settled(b)'
        PROVE  fired'[b][next'[b]] <= faults'
    <3>1. CASE b = c
      <4>1. row[c] # "deleted"
        BY <1>2, <1>9, <2>2, <3>1 DEF Settled
      <4>2. fired[c][s] = 0
        BY <1>3, <1>5 DEF OneEngineInv, CountInv
      <4> QED
        BY <1>2, <1>6, <1>7, <3>1, <4>1, <4>2
    <3>2. CASE b # c
      <4>1. Settled(b)
        BY <1>2, <1>7, <1>9, <1>10, <2>2, <3>2 DEF Settled
      <4> QED
        BY <1>2, <1>7, <3>2, <4>1 DEF OneEngineInv, CountInv
    <3> QED
      BY <3>1, <3>2
  <2> QED
    BY <1>10, <2>1, <2>2 DEF CountInv
<1> QED
  BY <1>8, <1>12, <1>13 DEF OneEngineInv

OneEngineHolds == OneEngine => OneEngineInv

LEMMA OneEngineStep ==
    Deployed /\ TypeInv /\ OneEngineHolds /\ [Next]_vars => OneEngineHolds'
<1> SUFFICES ASSUME Deployed, TypeInv, OneEngineHolds, [Next]_vars, OneEngine'
             PROVE  OneEngineInv'
  BY DEF OneEngineHolds
<1>1. UNCHANGED deployed
  BY DEF Next, vars
<1>2. OneEngine /\ OneEngineInv
  BY <1>1 DEF OneEngineHolds, OneEngine
<1>3. CASE Next
  <2>1. ASSUME NEW e \in Engines, e \in deployed.engines, Firing(e)
        PROVE  OneEngineInv'
    BY <1>1, <1>2, <2>1, FailedOne, SpawnOne, UpdateOne DEF Firing
  <2> QED
    BY <1>1, <1>2, <1>3, <2>1, Steps, WorldOne, ListOne, VisitOne, LeavingOne DEF Deployed
<1>4. CASE UNCHANGED vars
  BY <1>2, <1>4 DEF vars, engine, OneEngineInv, QueueInv, DateInv, CountInv, Settled,
                    Pending, Spawned
<1> QED
  BY <1>3, <1>4

LEMMA OneEngineInvariant == Spec => [](Deployed /\ TypeInv /\ OneEngineHolds)
<1>1. Init => Deployed /\ OneEngineHolds
  BY OneEngineInit DEF Init, Deployed, OneEngineHolds
<1> QED
  BY <1>1, TypeInit, TypeStep, DeployedStep, OneEngineStep, PTL DEF Spec

\* With one engine no date is served twice, but for the failures there were: a
\* crash, or an UPDATE that failed, after the INSERT.
THEOREM ServedOnce == Spec => []OncePerSlot
<1>1. OneEngineHolds => OncePerSlot
  BY DEF OneEngineHolds, OneEngineInv, CountInv, OncePerSlot
<1> QED
  BY <1>1, OneEngineInvariant, PTL

\* What NextFire passes over, from t on, is not after t.
LEMMA NoneBetween ==
    ASSUME NEW c \in Crons, NEW t \in Nat, NEW s \in Nat, OnSchedule(c, s),
           s < NextFire(c, t)
    PROVE  s <= t
<1> DEFINE p == Period[c]
           q == t \div p
<1>1. p \in Nat \ {0}
  BY CronAssumption
<1>2. PICK i \in Nat : s = i * p
  BY DEF OnSchedule
<1>3. q \in Nat /\ q * p <= t /\ i * p < (q + 1) * p
  BY <1>1, <1>2 DEF NextFire
<1> HIDE DEF p, q
<1>4. i <= q
  BY <1>1, <1>3
<1>5. i * p <= q * p
  BY <1>1, <1>3, <1>4
<1> QED
  BY <1>1, <1>2, <1>3, <1>5

\* With one engine next_fire_at never leaves a date that no job was inserted for,
\* whatever fails and in whatever order, and never passes over a minute of the
\* schedule that lay ahead of the evaluation.
THEOREM MovesOn == Spec => MovesOnAfterJob
<1> DEFINE Served(c) == fired[c][next[c]] > 0
           NoneAhead(c, e) ==
               \A s \in Slots :
                   next[c] < s /\ s < next'[c] /\ OnSchedule(c, s) => s <= now[e]
<1>1. Deployed /\ TypeInv /\ OneEngineHolds /\ [Next]_vars => [AfterJob]_vars
  <2> SUFFICES ASSUME Deployed, TypeInv, OneEngineInv, Next, NEW c \in Crons,
                      next[c] # None, next'[c] # next[c]
               PROVE  Served(c) /\ \E e \in Engines : cur[e] = c /\ NoneAhead(c, e)
    BY DEF OneEngineHolds, AfterJob
  <2>1. row[c] # "absent"
    BY DEF OneEngineInv, DateInv
  <2>2. ~World
    BY <2>1 DEF World, Tick, Provide, Delete, Expire, TypeInv, TypeOK
  <2>3. PICK e \in Engines : UpdateFireTimes(e)
    BY <2>2, Steps DEF Deployed, Listing, ListDue, EndList, Visiting, Acquire,
       AcquireUnanswered, NotAcquired, Firing, Disable, DisableFails, Spawn, SpawnRefused,
       SpawnFails, UpdateFails, Leaving, ReleaseGet, ReleaseDel, ReleaseFails, Crash
  <2>4. Spawned(e, c) /\ cur[e] = c /\ next'[c] = NextFire(c, now[e])
    BY <2>3 DEF UpdateFireTimes, Spawned, TypeInv, TypeOK
  <2>5. Served(c)
    BY <2>4 DEF OneEngineInv, CountInv
  <2>6. now[e] \in Nat /\ Slots \subseteq Nat
    BY SlotsNat, CronAssumption DEF TypeInv, TypeOK, Minutes
  <2>7. NoneAhead(c, e)
    BY <2>4, <2>6, NoneBetween
  <2> QED
    BY <2>4, <2>5, <2>7
<1> QED
  BY <1>1, OneEngineInvariant, PTL DEF Spec, MovesOnAfterJob
==============================================================================
