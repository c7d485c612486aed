------------------------------ MODULE Sessions ------------------------------
(***************************************************************************)
(* Accounts and sessions: the tables users and refresh_tokens, and the     *)
(* requests of the API server that register, log in, refresh and log out.  *)
(*                                                                         *)
(* A refresh token is a row that can be revoked; an access token is a      *)
(* signed JWT that nobody can take back, valid until it expires.  Refresh  *)
(* and Logout each read the row before they act on what they have read.    *)
(* Nothing in the code deactivates a user: an operator does, by hand.      *)
(***************************************************************************)
EXTENDS Integers, FiniteSets

CONSTANTS
    Spellings,   \* the ways clients may write e-mail addresses
    Lower,       \* what ToLower(TrimSpace(.)) makes of each of them
    Tokens,      \* ids of the refresh tokens that may be created
    Clients,     \* connections to the API server, with one request each
    MaxFaults,   \* bound: failed statements, lost answers and crashes
    None         \* no row

ASSUME ConstantsAssumption ==
    /\ Lower \in [Spellings -> Spellings]
    /\ \A s \in Spellings : Lower[Lower[s]] = Lower[s]
    /\ MaxFaults \in Nat
    /\ None \notin Spellings \cup Tokens

VARIABLES
    users,      \* the row of each e-mail: "absent", "active" or "inactive"
    owner,      \* refresh_tokens: the user of each row, None before the INSERT
    revoked,    \* the rows with revoked = true
    expired,    \* the rows whose expires_at has passed
    given,      \* the tokens that a login response has delivered
    access,     \* the tokens through which an unexpired access token was issued
    req,        \* the request each client has in progress
    loggedOut,  \* the tokens whose logout was answered with 204
    ignored,    \* the tokens of which a logout statement failed
    faults

tokens == <<owner, revoked, expired>>
vars   == <<users, tokens, given, access, req, loggedOut, ignored, faults>>

Request == [step : {"idle", "create", "getUser", "revoke"},
            user : Spellings \cup {None}, token : Tokens \cup {None}]
NoRequest == [step |-> "idle", user |-> None, token |-> None]

TypeOK ==
    /\ users \in [Spellings -> {"absent", "active", "inactive"}]
    /\ owner \in [Tokens -> Spellings \cup {None}]
    /\ revoked \subseteq Tokens
    /\ expired \subseteq Tokens
    /\ given \subseteq Tokens
    /\ access \subseteq Tokens
    /\ req \in [Clients -> Request]
    /\ loggedOut \subseteq Tokens
    /\ ignored \subseteq Tokens
    /\ faults \in Nat

Init ==
    /\ users = [s \in Spellings |-> "absent"]
    /\ owner = [t \in Tokens |-> None]
    /\ revoked = {} /\ expired = {}
    /\ given = {} /\ access = {}
    /\ req = [c \in Clients |-> NoRequest]
    /\ loggedOut = {} /\ ignored = {}
    /\ faults = 0

At(c, step) == req[c].step = step
Goto(c, step, user, token) ==
    req' = [req EXCEPT ![c] = [step |-> step, user |-> user, token |-> token]]
Answered(c) == req' = [req EXCEPT ![c] = NoRequest]

(***************************************************************************)
(* Register: one INSERT; the unique index on email refuses a second row.   *)
(***************************************************************************)
EmailAsGiven(s) == s   \* mutant: the address is stored as it was typed

Email(s) == Lower[s]

InsertUser(u) ==
    /\ users[u] = "absent"
    /\ users' = [users EXCEPT ![u] = "active"]

Register(c, s) ==
    /\ At(c, "idle") /\ InsertUser(Email(s))
    /\ UNCHANGED <<tokens, given, access, req, loggedOut, ignored, faults>>

Deactivate(s) ==
    /\ users[s] = "active"
    /\ users' = [users EXCEPT ![s] = "inactive"]
    /\ UNCHANGED <<tokens, given, access, req, loggedOut, ignored, faults>>

(***************************************************************************)
(* Login with the right password: read the user, store a refresh token.    *)
(***************************************************************************)
\* WHERE email = lower($1)
ByEmail(s) == Lower[s]

Login(c, s) ==
    /\ At(c, "idle") /\ users[ByEmail(s)] = "active"
    /\ Goto(c, "create", ByEmail(s), None)
    /\ UNCHANGED <<users, tokens, given, access, loggedOut, ignored, faults>>

Insert(c, t) ==
    /\ At(c, "create") /\ owner[t] = None
    /\ owner' = [owner EXCEPT ![t] = req[c].user]
    /\ Answered(c)
    /\ UNCHANGED <<users, revoked, expired, loggedOut, ignored>>

CreateToken(c, t) ==
    /\ Insert(c, t)
    /\ given' = given \cup {t}
    /\ access' = access \cup {t}
    /\ UNCHANGED faults

(***************************************************************************)
(* Refresh: read the token, check it, read its user, issue a JWT.          *)
(***************************************************************************)
IsValidUnrevoked(t) == t \notin expired   \* mutant: revoked is not looked at

IsValid(t) == t \notin revoked /\ t \notin expired

Refresh(c, t) ==
    /\ At(c, "idle") /\ t \in given /\ IsValid(t)
    /\ Goto(c, "getUser", owner[t], t)
    /\ UNCHANGED <<users, tokens, given, access, loggedOut, ignored, faults>>

AnyUser(u) == users[u] # "absent"   \* mutant: an inactive user is let through

IsActive(u) == users[u] = "active"

IssueAccess(c) ==
    /\ At(c, "getUser")
    /\ access' = IF IsActive(req[c].user) THEN access \cup {req[c].token} ELSE access
    /\ Answered(c)
    /\ UNCHANGED <<users, tokens, given, loggedOut, ignored, faults>>

(***************************************************************************)
(* Logout: read the token, revoke it.  The handler answers 204 whatever    *)
(* the service returns, and a failed read passes for an unknown token.     *)
(***************************************************************************)
Logout(c, t) ==
    /\ At(c, "idle") /\ t \in given
    /\ Goto(c, "revoke", None, t)
    /\ UNCHANGED <<users, tokens, given, access, loggedOut, ignored, faults>>

RevokeNothing(t) == revoked            \* mutant: the UPDATE matches no row
RevokeByID(t) == revoked \cup {t}

Revoke(c) ==
    LET t == req[c].token IN
    /\ At(c, "revoke")
    /\ revoked' = RevokeByID(t)
    /\ loggedOut' = loggedOut \cup {t}
    /\ Answered(c)
    /\ UNCHANGED <<users, owner, expired, given, access, ignored, faults>>

(***************************************************************************)
(* Time: tokens expire.                                                    *)
(***************************************************************************)
ExpireRefresh(t) ==
    /\ owner[t] # None /\ t \notin expired
    /\ expired' = expired \cup {t}
    /\ UNCHANGED <<users, owner, revoked, given, access, req, loggedOut, ignored, faults>>

ExpireAccess(t) ==
    /\ t \in access
    /\ access' = access \ {t}
    /\ UNCHANGED <<users, tokens, given, req, loggedOut, ignored, faults>>

(***************************************************************************)
(* Faults: a statement fails, the INSERT takes effect and its answer is    *)
(* lost, or the API server dies with all its requests.                     *)
(***************************************************************************)
Fault == faults < MaxFaults /\ faults' = faults + 1

CreateTokenLost(c, t) ==
    /\ Insert(c, t) /\ Fault
    /\ UNCHANGED <<given, access>>

FailStatement(c) ==
    /\ ~At(c, "idle") /\ ~At(c, "revoke") /\ Fault
    /\ Answered(c)
    /\ UNCHANGED <<users, tokens, given, access, loggedOut, ignored>>

\* The read or the UPDATE of a logout fails: success all the same.
FailLogout(c) ==
    LET t == req[c].token IN
    /\ At(c, "revoke") /\ Fault
    /\ loggedOut' = loggedOut \cup {t}
    /\ ignored' = ignored \cup {t}
    /\ Answered(c)
    /\ UNCHANGED <<users, tokens, given, access>>

Crash ==
    /\ Fault
    /\ req' = [c \in Clients |-> NoRequest]
    /\ UNCHANGED <<users, tokens, given, access, loggedOut, ignored>>

(***************************************************************************)
\* The statements of the requests in progress.
Proceed(c) == (\E t \in Tokens : CreateToken(c, t)) \/ IssueAccess(c) \/ Revoke(c)

Begin(c) ==
    \/ \E s \in Spellings : Register(c, s) \/ Login(c, s)
    \/ \E t \in Tokens : Refresh(c, t) \/ Logout(c, t)

RequestFault(c) ==
    \/ \E t \in Tokens : CreateTokenLost(c, t)
    \/ FailStatement(c)
    \/ FailLogout(c)

Next ==
    \/ \E c \in Clients : Begin(c) \/ Proceed(c) \/ RequestFault(c)
    \/ \E s \in Spellings : Deactivate(s)
    \/ \E t \in Tokens : ExpireRefresh(t) \/ ExpireAccess(t)
    \/ Crash

Spec == Init /\ [][Next]_vars

\* Statements return, and access tokens, valid for minutes, expire.
Fairness ==
    /\ \A c \in Clients : WF_vars(Proceed(c))
    /\ \A t \in Tokens : WF_vars(ExpireAccess(t))

FairSpec == Spec /\ Fairness

(***************************************************************************)
(* Properties.                                                             *)
(***************************************************************************)
\* However clients spell it, an e-mail address has at most one account, and a
\* login finds it.
OneAccountPerAddress ==
    \A s, r \in Spellings :
        users[s] # "absent" /\ Lower[s] = Lower[r] => s = Lower[r]

\* A logout that was answered has revoked its token, unless a statement of it
\* failed.
LoggedOutRevoked == loggedOut \ ignored \subseteq revoked

\* A revoked session comes to an end: some time later no access token that was
\* obtained through it is valid, and none ever will be, although refreshes may
\* have been under way when it was revoked.
SessionEnds ==
    \A t \in Tokens : [](t \in revoked => <>[](t \notin access))

\* The same for the sessions of a user who was deactivated, logins under way
\* included.
DeactivationEnds ==
    \A t \in Tokens, s \in Spellings :
        [](users[s] = "inactive" /\ owner[t] = s => <>[](t \notin access))

(***************************************************************************)
(* What the documentation says and the code does not keep.                 *)
(***************************************************************************)
\* "Revoke the current refresh token ... Success 204" (Logout).
LogoutRevokes == loggedOut \subseteq revoked
=============================================================================
