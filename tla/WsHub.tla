------------------------------- MODULE WsHub -------------------------------
(***************************************************************************)
(* The WebSocket hub of an API server: a goroutine that receives events    *)
(* from Redis Pub/Sub and hands them over a bounded channel, the broadcast *)
(* loop that writes each event to every registered client under the read   *)
(* lock, and a handler per client that registers it, reads from it until   *)
(* the connection breaks, and unregisters it, both under the write lock.   *)
(*                                                                         *)
(* An event is its number.  A write to a client that has stopped reading   *)
(* does not return (no write deadline is set).  Two concurrent writes to   *)
(* one connection make the library panic: in the broadcast loop, which     *)
(* ends the process, or in the handler, which recovers and closes.         *)
(***************************************************************************)
EXTENDS Integers, Sequences, SequencesExt

CONSTANTS
    Clients,    \* connections, in the pool of connections of the library
    Pingers,    \* the clients that send the text message "ping"
    ChanCap,    \* capacity of the channel broadcast (256)
    MaxEvents,  \* bound: events published
    MaxJoins,   \* bound: connections made
    None

ASSUME ConstantsAssumption ==
    /\ Pingers \subseteq Clients
    /\ ChanCap \in Nat \ {0}
    /\ MaxEvents \in Nat
    /\ MaxJoins \in Nat
    /\ None \notin Clients

VARIABLES
    published,  \* the number of events published so far
    linked,     \* is the subscription to Redis up?
    inbox,      \* events delivered to the subscription and not received yet
    handoff,    \* the event the subscriber holds, 0 if none
    channel,    \* the channel broadcast
    current,    \* the event being broadcast, 0 if none
    locked,     \* the broadcast loop holds the read lock
    todo,       \* the clients it has still to write the event to
    writing,    \* the client it is writing to
    clients,    \* the map of registered clients
    handler,    \* the handler of each connection
    peer,       \* the other end: "reading", "slow" or "gone"
    closed,     \* connections closed by the broadcast loop
    ponging,    \* connections whose handler is writing a pong
    sent,       \* history: the events broadcast, in order
    joined,     \* history: how many had been broadcast when a client joined
    received,   \* history: the events each client got since it joined
    joins,      \* connections made so far
    down        \* the process has panicked

source == <<published, linked, inbox, handoff>>
loop   == <<channel, current, locked, todo, writing, sent>>
conns  == <<clients, handler, peer, closed, ponging, joined, received, joins>>
vars   == <<source, loop, conns, down>>

TypeOK ==
    /\ published \in Nat /\ joins \in Nat
    /\ linked \in BOOLEAN /\ locked \in BOOLEAN /\ down \in BOOLEAN
    /\ inbox \in Seq(Nat) /\ channel \in Seq(Nat) /\ sent \in Seq(Nat)
    /\ Len(channel) <= ChanCap
    /\ handoff \in Nat /\ current \in Nat
    /\ todo \subseteq Clients
    /\ writing \in Clients \cup {None}
    /\ clients \subseteq Clients
    /\ handler \in [Clients -> {"none", "joining", "serving", "leaving", "closing"}]
    /\ peer \in [Clients -> {"reading", "slow", "gone"}]
    /\ closed \subseteq Clients /\ ponging \subseteq Clients
    /\ joined \in [Clients -> Nat]
    /\ received \in [Clients -> Seq(Nat)]

Init ==
    /\ published = 0 /\ linked = TRUE /\ inbox = <<>> /\ handoff = 0
    /\ channel = <<>> /\ current = 0 /\ locked = FALSE /\ todo = {} /\ writing = None
    /\ sent = <<>>
    /\ clients = {}
    /\ handler = [c \in Clients |-> "none"]
    /\ peer = [c \in Clients |-> "gone"]
    /\ closed = {} /\ ponging = {}
    /\ joined = [c \in Clients |-> 0]
    /\ received = [c \in Clients |-> <<>>]
    /\ joins = 0 /\ down = FALSE

(***************************************************************************)
(* subscribeToRedis.  Pub/Sub keeps nothing for a subscriber that is away. *)
(***************************************************************************)
Publish ==
    /\ published < MaxEvents
    /\ published' = published + 1
    /\ inbox' = IF linked THEN Append(inbox, published + 1) ELSE inbox
    /\ UNCHANGED <<linked, handoff, loop, conns>>

LinkBreaks ==
    /\ linked /\ published < MaxEvents
    /\ linked' = FALSE
    /\ inbox' = <<>>
    /\ UNCHANGED <<published, handoff, loop, conns>>

\* ReceiveMessage returned an error; a second later it is called again.
Relink ==
    /\ ~linked /\ handoff = 0
    /\ linked' = TRUE
    /\ UNCHANGED <<published, inbox, handoff, loop, conns>>

Receive ==
    /\ inbox # <<>> /\ handoff = 0
    /\ handoff' = Head(inbox)
    /\ inbox' = Tail(inbox)
    /\ UNCHANGED <<published, linked, loop, conns>>

HasRoom == Len(channel) < ChanCap

Send ==
    /\ handoff # 0 /\ HasRoom
    /\ channel' = Append(channel, handoff)
    /\ handoff' = 0
    /\ UNCHANGED <<published, linked, inbox, current, locked, todo, writing, sent, conns>>

(***************************************************************************)
(* run: the broadcast loop.                                                *)
(***************************************************************************)
Take ==
    /\ current = 0 /\ channel # <<>>
    /\ current' = Head(channel)
    /\ channel' = Tail(channel)
    /\ UNCHANGED <<source, locked, todo, writing, sent, conns>>

RLock ==
    /\ current # 0 /\ ~locked
    /\ locked' = TRUE
    /\ todo' = clients
    /\ sent' = Append(sent, current)
    /\ UNCHANGED <<source, channel, current, writing, conns>>

StartWrite(c) ==
    /\ locked /\ writing = None /\ c \in todo
    /\ writing' = c
    /\ todo' = todo \ {c}
    /\ UNCHANGED <<source, channel, current, locked, sent, conns>>

\* WriteMessage returns: the event is with the peer, or the connection is
\* closed or broken, and then the loop closes it and goes on.
WriteDone(c) ==
    /\ writing = c /\ c \notin ponging
    /\ \/ /\ c \notin closed /\ peer[c] = "reading"
          /\ received' = [received EXCEPT ![c] = Append(@, current)]
          /\ UNCHANGED closed
       \/ /\ c \in closed \/ peer[c] = "gone"
          /\ closed' = closed \cup {c}
          /\ UNCHANGED received
    /\ writing' = None
    /\ UNCHANGED <<source, channel, current, locked, todo, sent, clients, handler, peer,
                   ponging, joined, joins>>

UnlockAfterGood == writing = None /\ todo = {} /\ closed = {}   \* mutant: a failed write keeps the lock
UnlockEarly == TRUE                               \* mutant: the first write ends the event

AllWritten == writing = None /\ todo = {}

RUnlock ==
    /\ locked /\ AllWritten
    /\ locked' = FALSE
    /\ current' = 0
    /\ todo' = {}
    /\ UNCHANGED <<source, channel, writing, sent, conns>>

(***************************************************************************)
(* The handler of a connection.                                            *)
(***************************************************************************)
Connect(c) ==
    /\ handler[c] = "none" /\ joins < MaxJoins
    /\ handler' = [handler EXCEPT ![c] = "joining"]
    /\ peer' = [peer EXCEPT ![c] = "reading"]
    /\ joins' = joins + 1
    /\ UNCHANGED <<source, loop, clients, closed, ponging, joined, received>>

CanLockAlways == TRUE   \* mutant: the map is changed without the lock

\* Lock waits for the broadcast loop to release the read lock.
CanLock == ~locked

Register(c) ==
    /\ handler[c] = "joining" /\ CanLock
    /\ clients' = clients \cup {c}
    /\ handler' = [handler EXCEPT ![c] = "serving"]
    /\ joined' = [joined EXCEPT ![c] = Len(sent)]
    /\ received' = [received EXCEPT ![c] = <<>>]
    /\ UNCHANGED <<source, loop, peer, closed, ponging, joins>>

\* ReadMessage fails: the peer has gone, or the broadcast loop has closed.
ReadFails(c) ==
    /\ handler[c] = "serving" /\ c \notin ponging
    /\ c \in closed \/ peer[c] = "gone"
    /\ handler' = [handler EXCEPT ![c] = "leaving"]
    /\ UNCHANGED <<source, loop, clients, peer, closed, ponging, joined, received, joins>>

Unregister(c) ==
    /\ handler[c] = "leaving" /\ CanLock
    /\ clients' = clients \ {c}
    /\ handler' = [handler EXCEPT ![c] = "closing"]
    /\ UNCHANGED <<source, loop, peer, closed, ponging, joined, received, joins>>

\* The handler returns, and the connection goes back to the library's pool.
Close(c) ==
    /\ handler[c] = "closing"
    /\ handler' = [handler EXCEPT ![c] = "none"]
    /\ peer' = [peer EXCEPT ![c] = "gone"]
    /\ closed' = closed \ {c}
    /\ UNCHANGED <<source, loop, clients, ponging, joined, received, joins>>

Ping(c) ==
    /\ c \in Pingers /\ handler[c] = "serving" /\ c \notin ponging
    /\ peer[c] = "reading" /\ c \notin closed
    /\ ponging' = ponging \cup {c}
    /\ UNCHANGED <<source, loop, clients, handler, peer, closed, joined, received, joins>>

\* A write does not return while the peer has stopped reading.
TakesWrites(c) == c \in closed \/ peer[c] # "slow"

Pong(c) ==
    /\ c \in ponging /\ writing # c /\ TakesWrites(c)
    /\ ponging' = ponging \ {c}
    /\ UNCHANGED <<source, loop, clients, handler, peer, closed, joined, received, joins>>

\* Both goroutines write to c.
ConcurrentWrite(c) == writing = c /\ c \in ponging

\* The handler's write panics and is recovered; its defers run.
HandlerPanics(c) ==
    /\ ConcurrentWrite(c)
    /\ ponging' = ponging \ {c}
    /\ handler' = [handler EXCEPT ![c] = "leaving"]
    /\ UNCHANGED <<source, loop, clients, peer, closed, joined, received, joins>>

LoopPanics(c) ==
    /\ ConcurrentWrite(c)
    /\ down' = TRUE
    /\ UNCHANGED <<source, loop, conns>>

\* The two writes do not collide.
BothWrite(c) ==
    /\ ConcurrentWrite(c) /\ TakesWrites(c)
    /\ ponging' = ponging \ {c}
    /\ UNCHANGED <<source, loop, clients, handler, peer, closed, joined, received, joins>>

(***************************************************************************)
(* The peers.                                                              *)
(***************************************************************************)
PeerBecomes(c, from, to) ==
    /\ handler[c] # "none" /\ peer[c] \in from
    /\ peer' = [peer EXCEPT ![c] = to]
    /\ UNCHANGED <<source, loop, clients, handler, closed, ponging, joined, received, joins>>

SlowDown(c) == PeerBecomes(c, {"reading"}, "slow")
GoAway(c)   == PeerBecomes(c, {"reading", "slow"}, "gone")
ReadOn(c)   == PeerBecomes(c, {"slow"}, "reading")

(***************************************************************************)
Subscriber == Relink \/ Receive \/ Send
Broadcast == Take \/ RLock \/ (\E c \in Clients : StartWrite(c) \/ WriteDone(c)) \/ RUnlock
Lock(c) == Register(c) \/ Unregister(c)
Serve(c) == ReadFails(c) \/ Close(c) \/ Pong(c) \/ HandlerPanics(c) \/ BothWrite(c)

Next ==
    /\ ~down
    /\ \/ UNCHANGED down /\
           \/ Publish \/ LinkBreaks \/ Subscriber \/ Broadcast
           \/ \E c \in Clients :
                \/ Connect(c) \/ Ping(c) \/ Lock(c) \/ Serve(c)
                \/ SlowDown(c) \/ GoAway(c) \/ ReadOn(c)
       \/ \E c \in Clients : LoopPanics(c)

Spec == Init /\ [][Next]_vars

\* The goroutines run; a waiting Lock of a RWMutex comes before the next RLock,
\* so it is not overtaken for ever, and a write gets on whenever the peer reads
\* (strong fairness).
Fairness ==
    /\ WF_vars(~down /\ UNCHANGED down /\ Subscriber)
    /\ SF_vars(~down /\ UNCHANGED down /\ Broadcast)
    /\ \A c \in Clients :
         /\ SF_vars(~down /\ UNCHANGED down /\ Lock(c))
         /\ WF_vars(~down /\ UNCHANGED down /\ Serve(c))

\* A peer that has stopped reading reads on or is given up by TCP.
PeersReturn ==
    \A c \in Clients : WF_vars(~down /\ UNCHANGED down /\ (ReadOn(c) \/ GoAway(c)))

FairSpec == Spec /\ Fairness /\ PeersReturn
StuckSpec == Spec /\ Fairness

(***************************************************************************)
(* Properties.                                                             *)
(***************************************************************************)
\* A client gets the events broadcast since it joined, all of them, in order
\* and once, up to the one under way or the write that failed.
NothingSkipped ==
    \A c \in clients :
        LET due == SubSeq(sent, joined[c] + 1, Len(sent)) IN
        /\ IsPrefix(received[c], due)
        /\ c \notin closed /\ c \notin todo /\ writing # c => received[c] = due

\* The broadcast loop never writes to a connection whose handler has returned:
\* the library may have given it to another client.
NoWriteAfterReturn ==
    \A c \in todo \cup ({writing} \ {None}) : handler[c] \in {"serving", "leaving"}

\* Every event that the subscriber has received is broadcast, unless the
\* process panics.
EveryEventSent ==
    \A e \in 1..MaxEvents : [](handoff = e => <>(down \/ \E i \in DOMAIN sent : sent[i] = e))

\* A handler that is done is not kept waiting for the lock for ever.
LeaversGo ==
    \A c \in Clients : [](handler[c] = "leaving" => <>(down \/ handler[c] = "none"))

(***************************************************************************)
(* What the code does not keep.                                            *)
(***************************************************************************)
\* A connection has one writer at a time, as the library demands.
OneWriter == \A c \in Clients : ~ConcurrentWrite(c)
=============================================================================
