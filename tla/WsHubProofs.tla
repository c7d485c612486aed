----------------------------- MODULE WsHubProofs -----------------------------
(***************************************************************************)
(* Theorems about WsHub, for any number of connections and events.  The    *)
(* argument is the lock's: while the broadcast loop holds the read lock no *)
(* handler changes the map, so the connections it goes through stay        *)
(* registered, and a handler returns only after it has unregistered.       *)
(***************************************************************************)
EXTENDS WsHub, TLAPS

(***************************************************************************)
(* Types.                                                                  *)
(***************************************************************************)
LEMMA EmptyEvents == <<>> \in Seq(Nat) /\ Len(<<>>) = 0
OBVIOUS

LEMMA TypeInit == Init => TypeOK
<1> SUFFICES ASSUME Init
             PROVE  TypeOK
  OBVIOUS
<1>1. Len(channel) <= ChanCap
  BY ConstantsAssumption DEF Init
<1>2. published \in Nat /\ joins \in Nat /\ handoff \in Nat /\ current \in Nat
  BY DEF Init
<1>3. linked \in BOOLEAN /\ locked \in BOOLEAN /\ down \in BOOLEAN
  BY DEF Init
<1>4. /\ joined \in [Clients -> Nat]
      /\ received \in [Clients -> Seq(Nat)]
  BY EmptyEvents DEF Init
<1>5. /\ handler \in [Clients -> {"none", "joining", "serving", "leaving", "closing"}]
      /\ peer \in [Clients -> {"reading", "slow", "gone"}]
  BY DEF Init
<1> QED
  BY <1>1, <1>2, <1>3, <1>4, <1>5, EmptyEvents DEF Init, TypeOK

LEMMA SourceType ==
    ASSUME TypeOK, Publish \/ LinkBreaks \/ Subscriber, UNCHANGED down
    PROVE  TypeOK'
<1> USE DEF TypeOK
<1>1. CASE Publish
  BY <1>1 DEF Publish, loop, conns
<1>2. CASE LinkBreaks
  BY <1>2, EmptyEvents DEF LinkBreaks, loop, conns
<1>3. CASE Relink
  BY <1>3 DEF Relink, loop, conns
<1>4. CASE Receive
  BY <1>4 DEF Receive, loop, conns
<1>5. CASE Send
  BY <1>5, ConstantsAssumption DEF Send, HasRoom, conns
<1> QED
  BY <1>1, <1>2, <1>3, <1>4, <1>5 DEF Subscriber

LEMMA BroadcastType ==
    ASSUME TypeOK, Broadcast, UNCHANGED down
    PROVE  TypeOK'
<1> USE DEF TypeOK
<1>1. CASE Take
  BY <1>1, ConstantsAssumption DEF Take, source, conns
<1>2. CASE RLock
  BY <1>2 DEF RLock, source, conns
<1>3. ASSUME NEW c \in Clients, StartWrite(c)
      PROVE  TypeOK'
  BY <1>3 DEF StartWrite, source, conns
<1>4. ASSUME NEW c \in Clients, WriteDone(c)
      PROVE  TypeOK'
  <2>1. received' \in [Clients -> Seq(Nat)]
    <3>1. Append(received[c], current) \in Seq(Nat)
      OBVIOUS
    <3> QED
      BY <1>4, <3>1 DEF WriteDone
  <2>2. closed' \subseteq Clients
    BY <1>4 DEF WriteDone
  <2>3. writing' \in Clients \cup {None}
    BY <1>4 DEF WriteDone
  <2> QED
    BY <1>4, <2>1, <2>2, <2>3 DEF WriteDone, source
<1>5. CASE RUnlock
  BY <1>5 DEF RUnlock, source, conns
<1> QED
  BY <1>1, <1>2, <1>3, <1>4, <1>5 DEF Broadcast

LEMMA ConnectionType ==
    ASSUME TypeOK, NEW c \in Clients, UNCHANGED down,
           \/ Connect(c) \/ Ping(c) \/ Lock(c) \/ Serve(c)
           \/ SlowDown(c) \/ GoAway(c) \/ ReadOn(c)
    PROVE  TypeOK'
<1> USE DEF TypeOK
<1>1. CASE Connect(c)
  BY <1>1 DEF Connect, source, loop
<1>2. CASE Ping(c)
  BY <1>2 DEF Ping, source, loop
<1>3. CASE Register(c)
  <2>1. Len(sent) \in Nat /\ <<>> \in Seq(Nat)
    OBVIOUS
  <2> QED
    BY <1>3, <2>1 DEF Register, source, loop
<1>4. CASE Unregister(c)
  BY <1>4 DEF Unregister, source, loop
<1>5. CASE ReadFails(c)
  BY <1>5 DEF ReadFails, source, loop
<1>6. CASE Close(c)
  BY <1>6 DEF Close, source, loop
<1>7. CASE Pong(c) \/ BothWrite(c)
  BY <1>7 DEF Pong, BothWrite, source, loop
<1>8. CASE HandlerPanics(c)
  BY <1>8 DEF HandlerPanics, source, loop
<1>9. CASE SlowDown(c) \/ GoAway(c) \/ ReadOn(c)
  BY <1>9 DEF SlowDown, GoAway, ReadOn, PeerBecomes, source, loop
<1> QED
  BY <1>1, <1>2, <1>3, <1>4, <1>5, <1>6, <1>7, <1>8, <1>9 DEF Lock, Serve

LEMMA TypeStep == TypeOK /\ [Next]_vars => TypeOK'
<1> SUFFICES ASSUME TypeOK, [Next]_vars
             PROVE  TypeOK'
  OBVIOUS
<1>1. ASSUME NEW c \in Clients, LoopPanics(c)
      PROVE  TypeOK'
  BY <1>1 DEF LoopPanics, TypeOK, source, loop, conns
<1>2. CASE UNCHANGED vars
  BY <1>2 DEF vars, TypeOK, source, loop, conns
<1> QED
  BY <1>1, <1>2, SourceType, BroadcastType, ConnectionType DEF Next

\* The counters, the channel within its capacity, the connections and the
\* histories keep their types.
THEOREM TypeCorrect == Spec => []TypeOK
BY TypeInit, TypeStep, PTL DEF Spec

(***************************************************************************)
(* The lock and the map.                                                   *)
(***************************************************************************)
\* What the loop has still to write to is registered, and what is registered has
\* a handler that has not returned.
MapInv ==
    /\ todo \subseteq clients
    /\ writing # None => writing \in clients
    /\ ~locked => todo = {} /\ writing = None
    /\ \A c \in clients : handler[c] \in {"serving", "leaving"}

LEMMA MapInit == Init => MapInv
BY DEF Init, MapInv

LEMMA MapStep == TypeOK /\ MapInv /\ [Next]_vars => MapInv'
<1> SUFFICES ASSUME TypeOK, MapInv, [Next]_vars
             PROVE  MapInv'
  OBVIOUS
<1> USE DEF MapInv
<1>1. CASE Publish \/ LinkBreaks \/ Subscriber
  BY <1>1 DEF Publish, LinkBreaks, Subscriber, Relink, Receive, Send, loop, conns
<1>2. CASE Take \/ RLock
  BY <1>2 DEF Take, RLock, conns
<1>3. ASSUME NEW c \in Clients, StartWrite(c)
      PROVE  MapInv'
  BY <1>3 DEF StartWrite, conns
<1>4. ASSUME NEW c \in Clients, WriteDone(c)
      PROVE  MapInv'
  BY <1>4 DEF WriteDone
<1>5. CASE RUnlock
  BY <1>5 DEF RUnlock, AllWritten, conns
<1>6. ASSUME NEW c \in Clients, Connect(c) \/ Close(c)
      PROVE  MapInv'
  <2>1. c \notin clients
    BY <1>6 DEF Connect, Close
  <2> QED
    BY <1>6, <2>1 DEF Connect, Close, loop, TypeOK
<1>7. ASSUME NEW c \in Clients, Register(c) \/ Unregister(c)
      PROVE  MapInv'
  BY <1>7 DEF Register, Unregister, CanLock, loop, TypeOK
<1>8. ASSUME NEW c \in Clients, ReadFails(c) \/ HandlerPanics(c)
      PROVE  MapInv'
  BY <1>8 DEF ReadFails, HandlerPanics, loop, TypeOK
<1>9. ASSUME NEW c \in Clients, Ping(c) \/ Pong(c) \/ BothWrite(c)
      PROVE  MapInv'
  BY <1>9 DEF Ping, Pong, BothWrite, loop
<1>10. ASSUME NEW c \in Clients, SlowDown(c) \/ GoAway(c) \/ ReadOn(c)
       PROVE  MapInv'
  BY <1>10 DEF SlowDown, GoAway, ReadOn, PeerBecomes, loop
<1>11. ASSUME NEW c \in Clients, LoopPanics(c)
       PROVE  MapInv'
  BY <1>11 DEF LoopPanics, loop, conns
<1>12. CASE UNCHANGED vars
  BY <1>12 DEF vars, loop, conns
<1> QED
  BY <1>1, <1>2, <1>3, <1>4, <1>5, <1>6, <1>7, <1>8, <1>9, <1>10, <1>11, <1>12
     DEF Next, Broadcast, Lock, Serve

\* The broadcast loop never writes to a connection that the library may have
\* given to somebody else: between its RLock and its RUnlock no handler returns.
THEOREM WritesToRegistered == Spec => []NoWriteAfterReturn
<1>1. MapInv => NoWriteAfterReturn
  BY DEF MapInv, NoWriteAfterReturn
<1> QED
  BY <1>1, MapInit, MapStep, TypeInit, TypeStep, PTL DEF Spec

(***************************************************************************)
(* Delivery.  The lock again: a client joins between two broadcasts, so it *)
(* is owed either all of an event or nothing of it.                        *)
(***************************************************************************)
\* What a client has is, event by event, what was broadcast since it joined.
Upto(c) ==
    /\ joined[c] <= Len(sent)
    /\ Len(received[c]) <= Len(sent) - joined[c]
    /\ \A i \in 1..Len(received[c]) : received[c][i] = sent[joined[c] + i]

\* The event under way, as long as the client has not had it.
Owed(c) == IF c \in todo \/ writing = c THEN 1 ELSE 0

Delivered(c) ==
    /\ Upto(c)
    /\ c \notin closed => Len(received[c]) = Len(sent) - joined[c] - Owed(c)

DeliveryInv ==
    /\ locked => current # 0 /\ Len(sent) > 0 /\ sent[Len(sent)] = current
    /\ writing \notin todo
    /\ \A c \in clients : Delivered(c)

LEMMA AppendIsLast ==
    ASSUME NEW s \in Seq(Nat), NEW x \in Nat
    PROVE  /\ Append(s, x) \in Seq(Nat) /\ Len(s) \in Nat
           /\ Len(Append(s, x)) = Len(s) + 1
           /\ Append(s, x)[Len(s) + 1] = x
           /\ \A i \in 1..Len(s) : Append(s, x)[i] = s[i]
OBVIOUS

\* Sequences that agree event by event are a prefix and the whole.
LEMMA PrefixOfTail ==
    ASSUME NEW s \in Seq(Nat), NEW r \in Seq(Nat), NEW j \in Nat,
           j <= Len(s), Len(r) <= Len(s) - j,
           \A i \in 1..Len(r) : r[i] = s[j + i]
    PROVE  /\ IsPrefix(r, SubSeq(s, j + 1, Len(s)))
           /\ Len(r) = Len(s) - j => r = SubSeq(s, j + 1, Len(s))
<1> DEFINE due == SubSeq(s, j + 1, Len(s))
<1>1. due \in Seq(Nat) /\ Len(due) = Len(s) - j
  OBVIOUS
<1>2. \A i \in 1..Len(due) : due[i] = s[j + i]
  OBVIOUS
<1> HIDE DEF due
<1>3. \A i \in 1..Len(r) : r[i] = due[i]
  BY <1>1, <1>2
<1>4. SubSeq(r, 1, Len(r)) = SubSeq(due, 1, Len(r))
  BY <1>1, <1>3
<1>5. IsPrefix(r, due)
  BY <1>1, <1>4 DEF IsPrefix
<1>6. Len(r) = Len(s) - j => r = due
  BY <1>1, <1>3
<1> QED
  BY <1>5, <1>6 DEF due

LEMMA DeliveryInit == Init => DeliveryInv
BY ConstantsAssumption DEF Init, DeliveryInv

\* The steps that touch neither the histories nor the event under way.
LEMMA DeliveryKept ==
    ASSUME DeliveryInv, UNCHANGED <<sent, joined, received, todo, writing>>,
           locked' => locked /\ current' = current,
           clients' \subseteq clients, \A c \in clients' : c \in closed => c \in closed'
    PROVE  DeliveryInv'
BY DEF DeliveryInv, Delivered, Upto, Owed

LEMMA RLockDelivers ==
    ASSUME TypeOK, MapInv, DeliveryInv, RLock
    PROVE  DeliveryInv'
<1>1. /\ ~locked /\ current # 0 /\ todo = {} /\ writing = None /\ writing' = None /\ todo' = clients
      /\ sent' = Append(sent, current) /\ UNCHANGED <<current, joined, received, clients, closed>>
  BY DEF RLock, MapInv, conns
<1>2. /\ sent \in Seq(Nat) /\ current \in Nat /\ received \in [Clients -> Seq(Nat)]
      /\ joined \in [Clients -> Nat] /\ clients \subseteq Clients
  BY DEF TypeOK
<1>3. /\ Len(sent) \in Nat /\ Len(sent') = Len(sent) + 1 /\ sent'[Len(sent) + 1] = current
      /\ \A i \in 1..Len(sent) : sent'[i] = sent[i]
  BY <1>1, <1>2, AppendIsLast
<1>4. ASSUME NEW c \in clients
      PROVE  Delivered(c)'
  <2>1. /\ received[c] \in Seq(Nat) /\ Len(received[c]) \in Nat /\ joined[c] \in Nat
        /\ Delivered(c)
    BY <1>2 DEF DeliveryInv
  <2>2. \A i \in 1..Len(received[c]) : received[c][i] = sent'[joined[c] + i]
    <3> SUFFICES ASSUME NEW i \in 1..Len(received[c])
                 PROVE  received[c][i] = sent'[joined[c] + i]
      OBVIOUS
    <3>1. joined[c] + i \in 1..Len(sent)
      BY <1>3, <2>1 DEF Delivered, Upto
    <3> QED
      BY <1>3, <2>1, <3>1 DEF Delivered, Upto
  <2>3. Upto(c)'
    <3>1. joined[c] <= Len(sent') /\ Len(received[c]) <= Len(sent') - joined[c]
      BY <1>3, <2>1 DEF Delivered, Upto
    <3>2. joined'[c] = joined[c] /\ received'[c] = received[c]
      BY <1>1
    <3> QED
      BY <2>2, <3>1, <3>2 DEF Upto
  <2>4. Owed(c) = 0 /\ Owed(c)' = 1
    BY <1>1, <1>2, ConstantsAssumption DEF Owed
  <2> QED
    BY <1>1, <1>3, <2>1, <2>3, <2>4 DEF Delivered
<1> QED
  BY <1>1, <1>2, <1>3, <1>4, ConstantsAssumption DEF DeliveryInv

LEMMA WriteDelivers ==
    ASSUME TypeOK, MapInv, DeliveryInv, NEW c \in Clients, WriteDone(c)
    PROVE  DeliveryInv'
<1>1. /\ writing = c /\ writing' = None /\ c \notin todo /\ locked
      /\ UNCHANGED <<todo, sent, joined, clients, current, locked>>
  BY ConstantsAssumption DEF WriteDone, DeliveryInv, MapInv
<1>2. /\ sent \in Seq(Nat) /\ current \in Nat /\ received \in [Clients -> Seq(Nat)]
      /\ joined \in [Clients -> Nat] /\ clients \subseteq Clients /\ todo \subseteq Clients
      /\ Len(sent) \in Nat /\ received[c] \in Seq(Nat) /\ joined[c] \in Nat
      /\ Len(received[c]) \in Nat
  BY DEF TypeOK
<1>3. None \notin todo /\ c # None
  BY <1>2, ConstantsAssumption
<1>4. c \in clients /\ Delivered(c) /\ Owed(c) = 1 /\ Owed(c)' = 0
  BY <1>1, <1>3 DEF MapInv, DeliveryInv, Owed
<1>5. ASSUME NEW d \in clients, d # c
      PROVE  Delivered(d)'
  <2>1. received'[d] = received[d] /\ (d \in closed' <=> d \in closed)
    BY <1>2, <1>5 DEF WriteDone
  <2>2. Owed(d)' = Owed(d)
    BY <1>1, <1>2, <1>5, ConstantsAssumption DEF Owed
  <2> QED
    BY <1>1, <1>5, <2>1, <2>2 DEF DeliveryInv, Delivered, Upto
<1>6. CASE /\ c \notin closed /\ UNCHANGED closed
           /\ received' = [received EXCEPT ![c] = Append(@, current)]
  <2> DEFINE n == Len(received[c])
  <2>1. received'[c] = Append(received[c], current)
    BY <1>2, <1>6
  <2>2. /\ Len(received'[c]) = n + 1 /\ received'[c][n + 1] = current
        /\ \A i \in 1..n : received'[c][i] = received[c][i]
    BY <1>2, <2>1, AppendIsLast
  <2>3. n = Len(sent) - joined[c] - 1 /\ joined[c] <= Len(sent)
    BY <1>4, <1>6 DEF Delivered, Upto
  <2>4. sent[joined[c] + (n + 1)] = current
    BY <1>1, <1>2, <2>3 DEF DeliveryInv
  <2>5. \A i \in 1..(n + 1) : received'[c][i] = sent[joined[c] + i]
    <3> SUFFICES ASSUME NEW i \in 1..(n + 1)
                 PROVE  received'[c][i] = sent[joined[c] + i]
      OBVIOUS
    <3>1. CASE i = n + 1
      BY <2>2, <2>4, <3>1
    <3>2. CASE i # n + 1
      <4>1. i \in 1..n
        BY <1>2, <3>2
      <4> QED
        BY <1>4, <2>2, <4>1 DEF Delivered, Upto
    <3> QED
      BY <3>1, <3>2
  <2> HIDE DEF n
  <2>6. Upto(c)'
    BY <1>1, <1>2, <2>2, <2>3, <2>5 DEF Upto
  <2> QED
    BY <1>1, <1>2, <1>3, <1>4, <1>5, <1>6, <2>2, <2>3, <2>6 DEF DeliveryInv, Delivered
<1>7. CASE closed' = closed \cup {c} /\ UNCHANGED received
  <2>1. Delivered(c)'
    BY <1>1, <1>4, <1>7 DEF Delivered, Upto
  <2> QED
    BY <1>1, <1>3, <1>5, <2>1 DEF DeliveryInv
<1> QED
  BY <1>6, <1>7 DEF WriteDone

LEMMA RegisterDelivers ==
    ASSUME TypeOK, MapInv, DeliveryInv, NEW c \in Clients, Register(c)
    PROVE  DeliveryInv'
<1>1. /\ ~locked /\ todo = {} /\ writing = None
      /\ clients' = clients \cup {c} /\ joined'[c] = Len(sent) /\ received'[c] = <<>>
      /\ UNCHANGED <<sent, todo, writing, locked, current, closed>>
      /\ \A d \in Clients \ {c} : joined'[d] = joined[d] /\ received'[d] = received[d]
  BY DEF Register, CanLock, MapInv, TypeOK, loop
<1>2. Len(sent) \in Nat
  BY DEF TypeOK
<1>3. Owed(c)' = 0
  BY <1>1, ConstantsAssumption DEF Owed
<1>4. Delivered(c)'
  BY <1>1, <1>2, <1>3, EmptyEvents DEF Delivered, Upto
<1>5. ASSUME NEW d \in clients, d # c
      PROVE  Delivered(d)'
  <2>1. joined'[d] = joined[d] /\ received'[d] = received[d]
    BY <1>1, <1>5 DEF TypeOK
  <2>2. Owed(d)' = Owed(d) /\ Delivered(d)
    BY <1>1, <1>5 DEF Owed, DeliveryInv
  <2> QED
    BY <1>1, <2>1, <2>2 DEF Delivered, Upto
<1> QED
  BY <1>1, <1>4, <1>5 DEF DeliveryInv

LEMMA DeliveryStep == TypeOK /\ MapInv /\ DeliveryInv /\ [Next]_vars => DeliveryInv'
<1> SUFFICES ASSUME TypeOK, MapInv, DeliveryInv, [Next]_vars
             PROVE  DeliveryInv'
  OBVIOUS
<1>1. CASE Publish \/ LinkBreaks \/ Subscriber
  BY <1>1, DeliveryKept
     DEF Publish, LinkBreaks, Subscriber, Relink, Receive, Send, loop, conns
<1>2. CASE Take
  <2>1. ~locked
    BY <1>2 DEF Take, DeliveryInv
  <2> QED
    BY <1>2, <2>1, DeliveryKept DEF Take, conns
<1>3. ASSUME NEW c \in Clients, StartWrite(c)
      PROVE  DeliveryInv'
  <2>1. /\ writing = None /\ c \in todo /\ writing' = c /\ todo' = todo \ {c}
        /\ UNCHANGED <<sent, joined, received, clients, closed, locked, current>>
    BY <1>3 DEF StartWrite, conns
  <2>2. \A d \in clients : Owed(d)' = Owed(d)
    BY <2>1, ConstantsAssumption DEF Owed, TypeOK
  <2> QED
    BY <2>1, <2>2 DEF DeliveryInv, Delivered, Upto
<1>4. CASE RUnlock
  BY <1>4, DeliveryKept DEF RUnlock, AllWritten, conns
<1>5. ASSUME NEW c \in Clients, Connect(c) \/ Ping(c) \/ ReadFails(c) \/ Unregister(c)
      PROVE  DeliveryInv'
  BY <1>5, DeliveryKept DEF Connect, Ping, ReadFails, Unregister, loop
<1>6. ASSUME NEW c \in Clients, Close(c)
      PROVE  DeliveryInv'
  <2>1. c \notin clients
    BY <1>6 DEF Close, MapInv
  <2> QED
    BY <1>6, <2>1, DeliveryKept DEF Close, loop
<1>7. ASSUME NEW c \in Clients, Pong(c) \/ BothWrite(c) \/ HandlerPanics(c)
      PROVE  DeliveryInv'
  BY <1>7, DeliveryKept DEF Pong, BothWrite, HandlerPanics, loop
<1>8. ASSUME NEW c \in Clients, SlowDown(c) \/ GoAway(c) \/ ReadOn(c)
      PROVE  DeliveryInv'
  BY <1>8, DeliveryKept DEF SlowDown, GoAway, ReadOn, PeerBecomes, loop
<1>9. ASSUME NEW c \in Clients, LoopPanics(c)
      PROVE  DeliveryInv'
  BY <1>9, DeliveryKept DEF LoopPanics, loop, conns
<1>10. CASE UNCHANGED vars
  BY <1>10, DeliveryKept DEF vars, loop, conns
<1> QED
  BY <1>1, <1>2, <1>3, <1>4, <1>5, <1>6, <1>7, <1>8, <1>9, <1>10,
     RLockDelivers, WriteDelivers, RegisterDelivers
     DEF Next, Broadcast, Lock, Serve

LEMMA DeliveredNothingSkipped == TypeOK /\ DeliveryInv => NothingSkipped
<1> SUFFICES ASSUME TypeOK, DeliveryInv, NEW c \in clients
             PROVE  LET due == SubSeq(sent, joined[c] + 1, Len(sent)) IN
                    /\ IsPrefix(received[c], due)
                    /\ c \notin closed /\ c \notin todo /\ writing # c => received[c] = due
  BY DEF NothingSkipped
<1>1. /\ sent \in Seq(Nat) /\ received[c] \in Seq(Nat) /\ joined[c] \in Nat
      /\ Len(sent) \in Nat /\ Len(received[c]) \in Nat
  BY DEF TypeOK
<1>2. Delivered(c)
  BY DEF DeliveryInv
<1>3. c \notin closed /\ c \notin todo /\ writing # c => Len(received[c]) = Len(sent) - joined[c]
  BY <1>1, <1>2 DEF Delivered, Owed
<1> QED
  BY <1>1, <1>2, <1>3, PrefixOfTail DEF Delivered, Upto

\* A client gets the events broadcast since it joined in order and without gaps,
\* all of them while its writes succeed, however joining, leaving, slow peers and
\* broadcasts interleave.
THEOREM NothingIsSkipped == Spec => []NothingSkipped
BY TypeInit, TypeStep, MapInit, MapStep, DeliveryInit, DeliveryStep,
   DeliveredNothingSkipped, PTL DEF Spec
=============================================================================
