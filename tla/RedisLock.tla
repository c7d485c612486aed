----------------------------- MODULE RedisLock -----------------------------
(***************************************************************************)
(* The distributed lock of pkg/lock: SETNX with a token and a time to live *)
(* to acquire, GET, compare and DEL to release.  One lock name, and the    *)
(* processes that contend for it through TryWithLock.                      *)
(***************************************************************************)
CONSTANTS
    Clients,      \* processes that call TryWithLock
    TtlCovers,    \* the time to live outlasts every fn and its release
    DelInTime,    \* no key expires between the GET and the DEL of one release
    Tokens,       \* uuids.  One more than there are clients is enough: only those
                  \* that someone still holds can be compared with a new one
    None          \* no key in Redis

\* What the theorems of CronEngineProofs suppose.
LockAssumption == None \notin Tokens

VARIABLES
    store,   \* the value of the key in Redis: a token, or None
    pc,      \* where each client is in TryWithLock
    token    \* the token of its Lock, None when it has none

vars == <<store, pc, token>>

TypeOK ==
    /\ store \in Tokens \cup {None}
    /\ pc \in [Clients -> {"out", "fn", "release", "delete"}]
    /\ token \in [Clients -> Tokens \cup {None}]
    /\ \A c \in Clients : pc[c] = "out" <=> token[c] = None

Init ==
    /\ store = None
    /\ pc = [c \in Clients |-> "out"]
    /\ token = [c \in Clients |-> None]

KeyFree == store = None

\* uuid.NewString
NewTokens == {t \in Tokens : t # store /\ \A c \in Clients : t # token[c]}

\* Acquire: SETNX of a new token.  If the key exists, ErrNotAcquired: no effect.
Acquire(c) ==
    /\ pc[c] = "out" /\ KeyFree
    /\ \E t \in NewTokens :
         /\ store' = t
         /\ token' = [token EXCEPT ![c] = t]
    /\ pc' = [pc EXCEPT ![c] = "fn"]

\* SETNX took effect but its answer was lost: an error is returned, and the key
\* stays until it expires.
AcquireUnanswered(c) ==
    /\ pc[c] = "out" /\ KeyFree
    /\ \E t \in NewTokens : store' = t
    /\ UNCHANGED <<pc, token>>

\* fn returns, with or without an error; the deferred Release begins.
FnReturns(c) ==
    /\ pc[c] = "fn"
    /\ pc' = [pc EXCEPT ![c] = "release"]
    /\ UNCHANGED <<store, token>>

Out(c) ==
    /\ pc' = [pc EXCEPT ![c] = "out"]
    /\ token' = [token EXCEPT ![c] = None]

Matches(c) == store = token[c]

\* Release, first round trip: GET.  Only the token of this Lock goes on.
ReleaseGet(c) ==
    /\ pc[c] = "release"
    /\ IF Matches(c)
       THEN pc' = [pc EXCEPT ![c] = "delete"] /\ UNCHANGED token
       ELSE Out(c)
    /\ UNCHANGED store

\* Release, second round trip: DEL, whatever the key holds by then.
ReleaseDel(c) ==
    /\ pc[c] = "delete"
    /\ store' = None
    /\ Out(c)

\* The process dies, or its call of GET or DEL fails: the key stays.
Leave(c) ==
    /\ pc[c] # "out"
    /\ Out(c)
    /\ UNCHANGED store

Holds(c) == pc[c] # "out" /\ token[c] = store

Expires ==
    \A c \in Clients : Holds(c) => ~TtlCovers /\ (pc[c] = "delete" => ~DelInTime)

\* Redis drops the key.  Extend (never called) would only put this off.
Expire ==
    /\ store # None /\ Expires
    /\ store' = None
    /\ UNCHANGED <<pc, token>>

Client(c) == FnReturns(c) \/ ReleaseGet(c) \/ ReleaseDel(c)

Next ==
    \/ \E c \in Clients :
         Acquire(c) \/ AcquireUnanswered(c) \/ Client(c) \/ Leave(c)
    \/ Expire

Spec == Init /\ [][Next]_vars

\* fn and the calls of Redis return, and time passes.
FairSpec == Spec /\ WF_vars(Expire) /\ \A c \in Clients : WF_vars(Client(c))

(***************************************************************************)
(* Properties.                                                             *)
(***************************************************************************)
\* With a time to live that covers fn, two functions never run under the lock.
MutualExclusion ==
    \A c, d \in Clients : pc[c] = "fn" /\ pc[d] = "fn" => c = d

\* If the key does not expire under its holder, whoever is inside TryWithLock
\* has the token that Redis holds, and is alone there.
HolderInv ==
    /\ \A c \in Clients : pc[c] # "out" => token[c] = store
    /\ \A c, d \in Clients : pc[c] # "out" /\ pc[d] # "out" => c = d
    /\ \A c \in Clients : pc[c] # "out" => store # None

\* "prevents accidental release of another holder's lock": a DEL only ever
\* removes the token of the Lock that is released (Lock.Release).
ReleasesOwn ==
    \A c \in Clients : pc[c] = "delete" /\ store' = None /\ pc'[c] = "out"
        => store \in {token[c], None}
ReleasesOnlyOwn == [][ReleasesOwn]_vars

\* What keeps it, if only DEL comes in time: fn may run on while its key expires
\* and others take the lock, but whoever goes on to DEL has found its own token,
\* which nobody else has.
OwnerInv ==
    /\ \A c \in Clients : pc[c] = "delete" => token[c] = store
    /\ \A c, d \in Clients : token[c] = token[d] => c = d \/ token[c] = None

\* Whatever client dies while it holds the lock, the lock becomes free again.
BecomesFree == (store # None) ~> (store = None)
=============================================================================
