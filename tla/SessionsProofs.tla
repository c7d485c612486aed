--------------------------- MODULE SessionsProofs ---------------------------
(***************************************************************************)
(* Theorems about Sessions, for any number of clients, tokens, spellings   *)
(* and faults.  What a request has read is not typed by its record alone:  *)
(* that a logout or a refresh carries a token, and a login a user, is part *)
(* of the invariant.                                                       *)
(***************************************************************************)
EXTENDS Sessions, TLAPS

RequestsOK ==
    /\ req \in [Clients -> Request]
    /\ \A c \in Clients :
         /\ req[c].step \in {"getUser", "revoke"} => req[c].token \in Tokens
         /\ req[c].step = "create" => req[c].user \in Spellings

TypeInv == TypeOK /\ RequestsOK

(***************************************************************************)
(* Types: the requests, then each action.                                  *)
(***************************************************************************)
LEMMA AnsweredOK ==
    ASSUME RequestsOK, NEW c \in Clients, Answered(c)
    PROVE  RequestsOK'
<1>1. NoRequest \in Request /\ NoRequest.step = "idle"
  BY DEF NoRequest, Request
<1> QED
  BY <1>1 DEF RequestsOK, Answered

LEMMA GotoOK ==
    ASSUME RequestsOK, NEW c \in Clients, NEW step \in {"create", "getUser", "revoke"},
           NEW u \in Spellings \cup {None}, NEW t \in Tokens \cup {None},
           step = "create" => u \in Spellings,
           step # "create" => t \in Tokens,
           Goto(c, step, u, t)
    PROVE  RequestsOK'
<1> DEFINE r == [step |-> step, user |-> u, token |-> t]
<1>1. r \in Request
  BY DEF Request
<1>2. req' = [req EXCEPT ![c] = r]
  BY DEF Goto
<1>3. r.step = step /\ r.user = u /\ r.token = t
  OBVIOUS
<1> HIDE DEF r
<1> QED
  BY <1>1, <1>2, <1>3 DEF RequestsOK

\* One step for every action of the module, each of them used by name below.
LEMMA TypeStep == TypeInv /\ [Next]_vars => TypeInv'
<1> SUFFICES ASSUME TypeInv, [Next]_vars
             PROVE  TypeInv'
  OBVIOUS
<1> USE DEF TypeInv
<1>1. ASSUME NEW c \in Clients, NEW s \in Spellings, Register(c, s)
      PROVE  TypeInv'
  BY <1>1, ConstantsAssumption DEF Register, InsertUser, Email, tokens, TypeOK, RequestsOK
<1>2. ASSUME NEW c \in Clients, NEW s \in Spellings, Login(c, s)
      PROVE  TypeInv'
  <2>1. ByEmail(s) \in Spellings
    BY ConstantsAssumption DEF ByEmail
  <2>2. RequestsOK'
    BY <1>2, <2>1, GotoOK DEF Login
  <2> QED
    BY <1>2, <2>2 DEF Login, tokens, TypeOK, RequestsOK
<1>3. ASSUME NEW c \in Clients, NEW t \in Tokens, Refresh(c, t)
      PROVE  TypeInv'
  <2>1. owner[t] \in Spellings \cup {None}
    BY DEF TypeOK
  <2>2. RequestsOK'
    BY <1>3, <2>1, GotoOK DEF Refresh
  <2> QED
    BY <1>3, <2>2 DEF Refresh, tokens, TypeOK, RequestsOK
<1>4. ASSUME NEW c \in Clients, NEW t \in Tokens, Logout(c, t)
      PROVE  TypeInv'
  <2>1. RequestsOK'
    BY <1>4, GotoOK DEF Logout
  <2> QED
    BY <1>4, <2>1 DEF Logout, tokens, TypeOK, RequestsOK
<1>5. ASSUME NEW c \in Clients, NEW t \in Tokens, CreateToken(c, t)
      PROVE  TypeInv'
  <2>1. RequestsOK'
    BY <1>5, AnsweredOK DEF CreateToken, Insert
  <2> QED
    BY <1>5, <2>1 DEF CreateToken, Insert, At, TypeOK, RequestsOK
<1>6. ASSUME NEW c \in Clients, NEW t \in Tokens, CreateTokenLost(c, t)
      PROVE  TypeInv'
  <2>1. RequestsOK'
    BY <1>6, AnsweredOK DEF CreateTokenLost, Insert
  <2>2. faults' \in Nat
    BY <1>6 DEF CreateTokenLost, Fault, TypeOK
  <2> QED
    BY <1>6, <2>1, <2>2 DEF CreateTokenLost, Insert, At, TypeOK, RequestsOK
<1>7. ASSUME NEW c \in Clients, IssueAccess(c)
      PROVE  TypeInv'
  <2>1. RequestsOK'
    BY <1>7, AnsweredOK DEF IssueAccess
  <2>2. access' \subseteq Tokens
    BY <1>7 DEF IssueAccess, At, TypeOK, RequestsOK
  <2> QED
    BY <1>7, <2>1, <2>2 DEF IssueAccess, tokens, TypeOK, RequestsOK
<1>8. ASSUME NEW c \in Clients, Revoke(c)
      PROVE  TypeInv'
  <2>1. RequestsOK'
    BY <1>8, AnsweredOK DEF Revoke
  <2>2. req[c].token \in Tokens
    BY <1>8 DEF Revoke, At, RequestsOK
  <2> QED
    BY <1>8, <2>1, <2>2 DEF Revoke, RevokeByID, TypeOK, RequestsOK
<1>9. ASSUME NEW c \in Clients, FailStatement(c)
      PROVE  TypeInv'
  <2>1. RequestsOK'
    BY <1>9, AnsweredOK DEF FailStatement
  <2>2. faults' \in Nat
    BY <1>9 DEF FailStatement, Fault, TypeOK
  <2> QED
    BY <1>9, <2>1, <2>2 DEF FailStatement, tokens, TypeOK, RequestsOK
<1>10. ASSUME NEW c \in Clients, FailLogout(c)
       PROVE  TypeInv'
  <2>1. RequestsOK'
    BY <1>10, AnsweredOK DEF FailLogout
  <2>2. faults' \in Nat
    BY <1>10 DEF FailLogout, Fault, TypeOK
  <2>3. req[c].token \in Tokens
    BY <1>10 DEF FailLogout, At, RequestsOK
  <2> QED
    BY <1>10, <2>1, <2>2, <2>3 DEF FailLogout, tokens, TypeOK, RequestsOK
<1>11. ASSUME NEW s \in Spellings, Deactivate(s)
       PROVE  TypeInv'
  BY <1>11 DEF Deactivate, tokens, TypeOK, RequestsOK
<1>12. ASSUME NEW t \in Tokens, ExpireRefresh(t) \/ ExpireAccess(t)
       PROVE  TypeInv'
  BY <1>12 DEF ExpireRefresh, ExpireAccess, tokens, TypeOK, RequestsOK
<1>13. CASE Crash
  <2>1. NoRequest \in Request /\ NoRequest.step = "idle"
    BY DEF NoRequest, Request
  <2>2. RequestsOK'
    BY <1>13, <2>1 DEF Crash, RequestsOK
  <2>3. faults' \in Nat
    BY <1>13 DEF Crash, Fault, TypeOK
  <2> QED
    BY <1>13, <2>2, <2>3 DEF Crash, tokens, TypeOK, RequestsOK
<1>14. CASE UNCHANGED vars
  BY <1>14 DEF vars, tokens, TypeOK, RequestsOK
<1> QED
  BY <1>1, <1>2, <1>3, <1>4, <1>5, <1>6, <1>7, <1>8, <1>9, <1>10, <1>11, <1>12, <1>13, <1>14
     DEF Next, Begin, Proceed, RequestFault

LEMMA TypeInit == Init => TypeInv
<1> SUFFICES ASSUME Init
             PROVE  TypeInv
  OBVIOUS
<1>1. NoRequest \in Request /\ NoRequest.step = "idle"
  BY DEF NoRequest, Request
<1> QED
  BY <1>1 DEF Init, TypeInv, TypeOK, RequestsOK

\* The tables, the histories and the requests keep their types.
THEOREM TypeCorrect == Spec => []TypeOK
<1>1. TypeInv => TypeOK
  BY DEF TypeInv
<1> QED
  BY <1>1, TypeInit, TypeStep, PTL DEF Spec

(***************************************************************************)
(* Accounts.                                                               *)
(***************************************************************************)
\* Every address in the table is in lower case: only Register adds one.
Stored == \A s \in Spellings : users[s] # "absent" => Lower[s] = s

LEMMA StoredStep == TypeInv /\ Stored /\ [Next]_vars => Stored'
<1> SUFFICES ASSUME TypeInv, Stored, [Next]_vars
             PROVE  Stored'
  OBVIOUS
<1>1. ASSUME NEW c \in Clients, NEW s \in Spellings, Register(c, s)
      PROVE  Stored'
  <2>1. Lower[s] \in Spellings /\ Lower[Lower[s]] = Lower[s]
    BY ConstantsAssumption
  <2> QED
    BY <1>1, <2>1 DEF Register, InsertUser, Email, Stored, TypeInv, TypeOK
<1>2. ASSUME NEW s \in Spellings, Deactivate(s)
      PROVE  Stored'
  BY <1>2 DEF Deactivate, Stored, TypeInv, TypeOK
<1>3. CASE UNCHANGED users
  BY <1>3 DEF Stored
<1>4. ASSUME NEW c \in Clients, NEW s \in Spellings, Login(c, s)
      PROVE  UNCHANGED users
  BY <1>4 DEF Login
<1>5. ASSUME NEW c \in Clients, NEW t \in Tokens,
             Refresh(c, t) \/ Logout(c, t) \/ CreateToken(c, t) \/ CreateTokenLost(c, t)
      PROVE  UNCHANGED users
  BY <1>5 DEF Refresh, Logout, CreateToken, CreateTokenLost, Insert
<1>6. ASSUME NEW c \in Clients, IssueAccess(c) \/ Revoke(c) \/ FailStatement(c) \/ FailLogout(c)
      PROVE  UNCHANGED users
  BY <1>6 DEF IssueAccess, Revoke, FailStatement, FailLogout
<1>7. ASSUME NEW t \in Tokens, ExpireRefresh(t) \/ ExpireAccess(t)
      PROVE  UNCHANGED users
  BY <1>7 DEF ExpireRefresh, ExpireAccess
<1>8. CASE Crash \/ UNCHANGED vars
  BY <1>3, <1>8 DEF Crash, vars
<1> QED
  BY <1>1, <1>2, <1>3, <1>4, <1>5, <1>6, <1>7, <1>8 DEF Next, Begin, Proceed, RequestFault

\* Of two spellings of one address at most one is registered, and it is the one
\* that Login looks for.
THEOREM OneAccount == Spec => []OneAccountPerAddress
<1>1. Init => Stored
  BY DEF Init, Stored
<1>2. Stored => OneAccountPerAddress
  BY DEF Stored, OneAccountPerAddress
<1> QED
  BY <1>1, <1>2, TypeInit, TypeStep, StoredStep, PTL DEF Spec

(***************************************************************************)
(* Logout.                                                                 *)
(***************************************************************************)
\* Nothing takes a revocation back, and a logout counts as answered only with
\* its UPDATE or among those whose statement failed.
LEMMA LogoutStep == LoggedOutRevoked /\ [Next]_vars => LoggedOutRevoked'
<1> SUFFICES ASSUME LoggedOutRevoked, [Next]_vars
             PROVE  LoggedOutRevoked'
  OBVIOUS
<1> USE DEF LoggedOutRevoked
<1>1. ASSUME NEW c \in Clients, Revoke(c)
      PROVE  LoggedOutRevoked'
  BY <1>1 DEF Revoke, RevokeByID
<1>2. ASSUME NEW c \in Clients, FailLogout(c)
      PROVE  LoggedOutRevoked'
  BY <1>2 DEF FailLogout, tokens
<1>3. ASSUME NEW c \in Clients, NEW s \in Spellings, Register(c, s) \/ Login(c, s)
      PROVE  LoggedOutRevoked'
  BY <1>3 DEF Register, Login, tokens
<1>4. ASSUME NEW c \in Clients, NEW t \in Tokens,
             Refresh(c, t) \/ Logout(c, t) \/ CreateToken(c, t) \/ CreateTokenLost(c, t)
      PROVE  LoggedOutRevoked'
  BY <1>4 DEF Refresh, Logout, CreateToken, CreateTokenLost, Insert, tokens
<1>5. ASSUME NEW c \in Clients, IssueAccess(c) \/ FailStatement(c)
      PROVE  LoggedOutRevoked'
  BY <1>5 DEF IssueAccess, FailStatement, tokens
<1>6. ASSUME NEW t \in Tokens, ExpireRefresh(t) \/ ExpireAccess(t)
      PROVE  LoggedOutRevoked'
  BY <1>6 DEF ExpireRefresh, ExpireAccess, tokens
<1>7. ASSUME NEW s \in Spellings, Deactivate(s)
      PROVE  LoggedOutRevoked'
  BY <1>7 DEF Deactivate, tokens
<1>8. CASE Crash \/ UNCHANGED vars
  BY <1>8 DEF Crash, vars, tokens
<1> QED
  BY <1>1, <1>2, <1>3, <1>4, <1>5, <1>6, <1>7, <1>8 DEF Next, Begin, Proceed, RequestFault

\* A logout whose statements all succeeded has revoked its token for good,
\* whatever refreshes, logins and other logouts run beside it.
THEOREM LogoutHolds == Spec => []LoggedOutRevoked
<1>1. Init => LoggedOutRevoked
  BY DEF Init, LoggedOutRevoked
<1> QED
  BY <1>1, LogoutStep, PTL DEF Spec
=============================================================================
