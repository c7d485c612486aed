--------------------------- MODULE TenancyProofs ---------------------------
(***************************************************************************)
(* Theorems about Tenancy, for any number of organisations, projects,      *)
(* users, clients, keys and faults.                                        *)
(***************************************************************************)
EXTENDS Tenancy, TLAPS

(***************************************************************************)
(* Types: the requests, the tables, the histories.                         *)
(***************************************************************************)
MemberSteps  == {"addMember", "changeRole", "removeMember"}
CheckedSteps == MemberSteps \cup {"deleteOrg", "insertProject"}
ProjectSteps == {"insertProject", "addAdmin", "dropProject", "readUpdate", "writeUpdate",
                 "readRotate", "writeRotate", "deleteProject"}

\* What a request carries with it, by its step.
WellFormed(r) ==
    /\ r \in Request
    /\ r.step \in CheckedSteps \cup {"addOwner", "dropOrg"} => r.org \in Orgs
    /\ r.step \in CheckedSteps \cup {"addOwner", "addAdmin"} => r.user \in Users
    /\ r.step \in MemberSteps => r.member \in Users
    /\ r.step \in {"addMember", "changeRole"} => r.role \in Roles
    /\ r.step \in ProjectSteps => r.project \in Projects

RequestsOK ==
    /\ DOMAIN req = Clients
    /\ req = [c \in Clients |-> req[c]]
    /\ \A c \in Clients : WellFormed(req[c])
    /\ keys \in Nat

LEMMA Idle == WellFormed(NoRequest) /\ NoRequest.step = "idle"
BY DEF WellFormed, NoRequest, Request, Steps, CheckedSteps, MemberSteps, ProjectSteps

LEMMA Becomes ==
    ASSUME RequestsOK, NEW c \in Clients, NEW r, WellFormed(r),
           req' = [req EXCEPT ![c] = r], keys' \in Nat
    PROVE  RequestsOK'
BY DEF RequestsOK

\* Between the statements of one request only its step changes, and its key.
LEMMA GoesOn ==
    ASSUME RequestsOK, NEW c \in Clients, NEW step \in Steps, NEW k \in Nat,
           \/ req[c].step = "addOwner" /\ step = "dropOrg"
           \/ req[c].step = "insertProject" /\ step = "addAdmin"
           \/ req[c].step \in ProjectSteps /\ step \in ProjectSteps \ {"insertProject", "addAdmin"},
           \/ req' = [req EXCEPT ![c].step = step, ![c].key = k]
           \/ req' = [req EXCEPT ![c].step = step],
           keys' \in Nat
    PROVE  RequestsOK'
<1> DEFINE r == req[c]
           s == [r EXCEPT !.step = step]
           t == [r EXCEPT !.step = step, !.key = k]
<1>1. WellFormed(r)
  BY DEF RequestsOK
<1>2. WellFormed(s) /\ WellFormed(t)
  <2>1. r \in Request /\ s \in Request /\ t \in Request
    BY <1>1 DEF WellFormed, Request
  <2>2. /\ s.step = step /\ s.org = r.org /\ s.user = r.user /\ s.project = r.project
        /\ t.step = step /\ t.org = r.org /\ t.user = r.user /\ t.project = r.project
    BY <2>1 DEF Request
  <2>3. /\ step \notin CheckedSteps \cup MemberSteps \cup {"addOwner"}
        /\ step = "dropOrg" => r.org \in Orgs
        /\ step = "addAdmin" => r.user \in Users
        /\ step \in ProjectSteps => r.project \in Projects
    BY <1>1 DEF WellFormed, CheckedSteps, MemberSteps, ProjectSteps
  <2> HIDE DEF s, t
  <2> QED
    BY <2>1, <2>2, <2>3 DEF WellFormed, MemberSteps
<1>3. req' = [req EXCEPT ![c] = s] \/ req' = [req EXCEPT ![c] = t]
  BY <1>1 DEF RequestsOK, WellFormed, Request
<1> HIDE DEF s, t
<1> QED
  BY <1>2, <1>3, Becomes

LEMMA RequestsInit == Init => RequestsOK
BY Idle DEF Init, RequestsOK

LEMMA CreateRequestsOK ==
    ASSUME RequestsOK, NEW c \in Clients, CreateRequest(c)
    PROVE  RequestsOK'
<1>0. keys \in Nat /\ keys + 1 \in Nat
  BY DEF RequestsOK
<1>1. ASSUME NEW u \in Users, NEW o \in Orgs, CreateOrg(c, u, o)
      PROVE  RequestsOK'
  <2> DEFINE r == [NoRequest EXCEPT !.step = "addOwner", !.user = u, !.org = o]
  <2>1. WellFormed(r)
    BY DEF WellFormed, NoRequest, Request, Steps, CheckedSteps, MemberSteps, ProjectSteps
  <2> HIDE DEF r
  <2> QED
    BY <1>0, <1>1, <2>1, Becomes DEF CreateOrg, r
<1>2. CASE AddOwner(c) \/ DropOrg(c) \/ AddAdmin(c) \/ DropProject(c)
  BY <1>0, <1>2, Idle, Becomes DEF AddOwner, DropOrg, AddAdmin, DropProject, Answered, Done
<1>3. ASSUME NEW u \in Users, NEW o \in Orgs, NEW p \in Projects, CheckCreateProject(c, u, o, p)
      PROVE  RequestsOK'
  <2> DEFINE r == [NoRequest EXCEPT !.step = "insertProject", !.user = u, !.org = o,
                                    !.project = p]
  <2>1. WellFormed(r)
    BY DEF WellFormed, NoRequest, Request, Steps, CheckedSteps, MemberSteps, ProjectSteps
  <2> HIDE DEF r
  <2> QED
    BY <1>0, <1>3, <2>1, Becomes DEF CheckCreateProject, r
<1>4. CASE InsertProject(c)
  BY <1>0, <1>4, GoesOn DEF InsertProject, Insert, At, Steps
<1>5. CASE AddAdminRefused(c)
  BY <1>0, <1>5, GoesOn DEF AddAdminRefused, Goto, At, Steps, ProjectSteps
<1> QED
  BY <1>1, <1>2, <1>3, <1>4, <1>5 DEF CreateRequest

LEMMA OrgRequestsOK ==
    ASSUME RequestsOK, NEW c \in Clients, OrgRequest(c)
    PROVE  RequestsOK'
<1>0. keys \in Nat
  BY DEF RequestsOK
<1>1. ASSUME NEW u \in Users, NEW o \in Orgs, NEW step \in MemberSteps \cup {"deleteOrg"},
             CheckOrgRole(c, u, o, step)
      PROVE  RequestsOK'
  <2>1. PICK m \in Users, r \in Roles :
           req' = [req EXCEPT ![c] =
                    [NoRequest EXCEPT !.step = step, !.user = u, !.org = o,
                                      !.member = IF step = "deleteOrg" THEN None ELSE m,
                                      !.role = IF step \in {"addMember", "changeRole"}
                                               THEN r ELSE None]]
    BY <1>1 DEF CheckOrgRole
  <2> DEFINE q == [NoRequest EXCEPT !.step = step, !.user = u, !.org = o,
                                    !.member = IF step = "deleteOrg" THEN None ELSE m,
                                    !.role = IF step \in {"addMember", "changeRole"}
                                             THEN r ELSE None]
  <2>2. WellFormed(q)
    BY DEF WellFormed, NoRequest, Request, Steps, CheckedSteps, MemberSteps, ProjectSteps
  <2>3. req' = [req EXCEPT ![c] = q] /\ keys' = keys
    BY <1>1, <2>1 DEF CheckOrgRole
  <2> HIDE DEF q
  <2> QED
    BY <1>0, <2>2, <2>3, Becomes
<1>2. CASE AddMember(c) \/ ChangeRole(c) \/ RemoveMember(c) \/ DeleteOrg(c)
  BY <1>0, <1>2, Idle, Becomes
     DEF AddMember, ChangeRole, RemoveMember, DeleteOrg, MembersChanged, Done
<1> QED
  BY <1>1, <1>2 DEF OrgRequest, MemberSteps

LEMMA ProjectRequestsOK ==
    ASSUME RequestsOK, TypeOK, NEW c \in Clients, ProjectRequest(c)
    PROVE  RequestsOK'
<1>0. keys \in Nat /\ keys + 1 \in Nat
  BY DEF RequestsOK
<1>1. ASSUME NEW u \in Users, NEW p \in Projects,
             NEW step \in {"readUpdate", "readRotate", "deleteProject"},
             CheckProjectRole(c, u, p, step)
      PROVE  RequestsOK'
  <2> DEFINE r == [NoRequest EXCEPT !.step = step, !.user = u, !.project = p]
  <2>1. WellFormed(r)
    BY DEF WellFormed, NoRequest, Request, Steps, CheckedSteps, MemberSteps, ProjectSteps
  <2> HIDE DEF r
  <2> QED
    BY <1>0, <1>1, <2>1, Becomes DEF CheckProjectRole, r
<1>2. CASE ReadProject(c)
  <2>1. req[c].step \in {"readUpdate", "readRotate"} /\ WellFormed(req[c])
    BY <1>2 DEF ReadProject, RequestsOK
  <2>2. req[c].project \in Projects
    BY <2>1 DEF WellFormed, ProjectSteps
  <2>3. project[req[c].project].key \in Nat
    BY <2>2 DEF TypeOK
  <2> DEFINE step == IF req[c].step = "readUpdate" THEN "writeUpdate" ELSE "writeRotate"
  <2>4. req' = [req EXCEPT ![c].step = step, ![c].key = project[req[c].project].key]
    BY <1>2, <2>1 DEF ReadProject, RequestsOK, WellFormed, Request
  <2>5. step \in Steps /\ step \in ProjectSteps \ {"insertProject", "addAdmin"}
    BY DEF Steps, ProjectSteps
  <2>6. req[c].step \in ProjectSteps
    BY <2>1 DEF ProjectSteps
  <2>7. keys' \in Nat
    BY <1>0, <1>2 DEF ReadProject
  <2> HIDE DEF step
  <2> QED
    BY <2>3, <2>4, <2>5, <2>6, <2>7, GoesOn
<1>3. CASE UpdateProject(c) \/ RotateAPIKey(c) \/ DeleteProject(c)
  BY <1>0, <1>3, Idle, Becomes
     DEF UpdateProject, RotateAPIKey, WriteRotated, DeleteProject, Answered, Done
<1> QED
  BY <1>1, <1>2, <1>3 DEF ProjectRequest

LEMMA FaultRequestsOK ==
    ASSUME RequestsOK, NEW c \in Clients, RequestFault(c)
    PROVE  RequestsOK'
<1>0. keys \in Nat /\ keys + 1 \in Nat
  BY DEF RequestsOK
<1>1. CASE FailStatement(c)
  <2>1. keys' \in Nat
    BY <1>0, <1>1 DEF FailStatement
  <2>2. CASE At(c, "addOwner")
    BY <1>1, <2>1, <2>2, GoesOn DEF FailStatement, Goto, At, Steps
  <2>3. CASE At(c, "addAdmin")
    BY <1>1, <2>1, <2>3, GoesOn DEF FailStatement, Goto, At, Steps, ProjectSteps
  <2>4. CASE ~At(c, "addOwner") /\ ~At(c, "addAdmin")
    <3>1. req' = [req EXCEPT ![c] = NoRequest]
      BY <1>1, <2>4 DEF FailStatement, Answered, Done
    <3> QED
      BY <2>1, <3>1, Idle, Becomes
  <2> QED
    BY <2>2, <2>3, <2>4
<1>2. CASE AddOwnerLost(c)
  BY <1>0, <1>2, GoesOn DEF AddOwnerLost, Goto, At, Steps
<1>3. CASE InsertProjectLost(c) \/ RotateLost(c)
  BY <1>0, <1>3, Idle, Becomes DEF InsertProjectLost, Insert, RotateLost, WriteRotated, Answered, Done
<1>4. CASE AddAdminLost(c)
  BY <1>0, <1>4, GoesOn DEF AddAdminLost, Goto, At, Steps, ProjectSteps
<1> QED
  BY <1>1, <1>2, <1>3, <1>4 DEF RequestFault

LEMMA RequestsStep == TypeOK /\ RequestsOK /\ [Next]_vars => RequestsOK'
<1> SUFFICES ASSUME TypeOK, RequestsOK, [Next]_vars
             PROVE  RequestsOK'
  OBVIOUS
<1>1. ASSUME NEW c \in Clients, NotFound(c)
      PROVE  RequestsOK'
  BY <1>1, Idle, Becomes DEF NotFound, Answered, Done, RequestsOK
<1>2. ASSUME NEW o \in Orgs, CreateOrgLost(o)
      PROVE  RequestsOK'
  BY <1>2 DEF CreateOrgLost, RequestsOK
<1>3. CASE Crash
  BY <1>3, Idle DEF Crash, RequestsOK
<1>4. CASE UNCHANGED vars
  BY <1>4 DEF vars, RequestsOK
<1> QED
  BY <1>1, <1>2, <1>3, <1>4, CreateRequestsOK, OrgRequestsOK, ProjectRequestsOK, FaultRequestsOK
     DEF Next

(***************************************************************************)
(* The tables.                                                             *)
(***************************************************************************)
TablesOK ==
    /\ org \in [Orgs -> {"absent", "live", "deleted"}]
    /\ role \in [Orgs -> [Users -> Roles \cup {None}]]
    /\ project \in [Projects -> [org : Orgs \cup {None}, key : Nat]]
    /\ admins \in [Projects -> SUBSET Users]

LEMMA RoleWritten ==
    ASSUME TablesOK, NEW o \in Orgs, NEW u \in Users, NEW r \in Roles \cup {None},
           role' = [role EXCEPT ![o][u] = r]
    PROVE  role' \in [Orgs -> [Users -> Roles \cup {None}]]
BY DEF TablesOK

LEMMA CascadeOK ==
    ASSUME TablesOK, NEW o \in Orgs, Cascade(o)
    PROVE  /\ role' \in [Orgs -> [Users -> Roles \cup {None}]]
           /\ project' \in [Projects -> [org : Orgs \cup {None}, key : Nat]]
           /\ admins' \in [Projects -> SUBSET Users]
BY DEF TablesOK, Cascade

LEMMA RemoveOK ==
    ASSUME TablesOK, NEW p \in Projects, Remove(p)
    PROVE  /\ project' \in [Projects -> [org : Orgs \cup {None}, key : Nat]]
           /\ admins' \in [Projects -> SUBSET Users]
BY DEF TablesOK, Remove

LEMMA KeyWritten ==
    ASSUME TablesOK, NEW p \in Projects, NEW k \in Nat,
           project' = [project EXCEPT ![p].key = k]
    PROVE  project' \in [Projects -> [org : Orgs \cup {None}, key : Nat]]
BY DEF TablesOK

LEMMA TablesStep == TablesOK /\ RequestsOK /\ [Next]_vars => TablesOK'
<1> SUFFICES ASSUME TablesOK, RequestsOK, [Next]_vars
             PROVE  TablesOK'
  OBVIOUS
<1>0. /\ keys + 1 \in Nat
      /\ \A c \in Clients : WellFormed(req[c]) /\ req[c].key \in Nat
  BY DEF RequestsOK, WellFormed, Request
<1>1. ASSUME NEW c \in Clients, NEW u \in Users, NEW o \in Orgs, CreateOrg(c, u, o)
      PROVE  TablesOK'
  BY <1>1 DEF CreateOrg, TablesOK
<1>2. ASSUME NEW c \in Clients, AddOwner(c) \/ AddOwnerLost(c)
      PROVE  TablesOK'
  <2>1. req[c].org \in Orgs /\ req[c].user \in Users
    BY <1>0, <1>2 DEF AddOwner, AddOwnerLost, At, WellFormed
  <2>2. role' \in [Orgs -> [Users -> Roles \cup {None}]]
    BY <1>2, <2>1, RoleWritten DEF AddOwner, AddOwnerLost, Upsert, FirstRole, Roles
  <2> QED
    BY <1>2, <2>2 DEF AddOwner, AddOwnerLost, TablesOK
<1>3. ASSUME NEW c \in Clients, DropOrg(c)
      PROVE  TablesOK'
  <2>1. req[c].org \in Orgs
    BY <1>0, <1>3 DEF DropOrg, At, WellFormed
  <2> QED
    BY <1>3, <2>1, CascadeOK DEF DropOrg, CleanedUp, TablesOK
<1>4. ASSUME NEW c \in Clients, NEW u \in Users, NEW o \in Orgs, NEW p \in Projects,
             CheckCreateProject(c, u, o, p)
      PROVE  TablesOK'
  BY <1>4 DEF CheckCreateProject, tables, TablesOK
<1>5. ASSUME NEW c \in Clients, InsertProject(c) \/ InsertProjectLost(c)
      PROVE  TablesOK'
  <2>1. Insert(c)
    BY <1>5 DEF InsertProject, InsertProjectLost
  <2>2. req[c].org \in Orgs /\ req[c].project \in Projects
    BY <1>0, <2>1 DEF Insert, At, WellFormed, CheckedSteps, ProjectSteps
  <2>3. project' \in [Projects -> [org : Orgs \cup {None}, key : Nat]]
    BY <1>0, <2>1, <2>2 DEF Insert, TablesOK
  <2> QED
    BY <1>5, <2>3 DEF InsertProject, InsertProjectLost, TablesOK
<1>6. ASSUME NEW c \in Clients, AddAdmin(c) \/ AddAdminLost(c)
      PROVE  TablesOK'
  <2>1. req[c].user \in Users /\ req[c].project \in Projects
    BY <1>0, <1>6 DEF AddAdmin, AddAdminLost, At, WellFormed, ProjectSteps
  <2> QED
    BY <1>6, <2>1 DEF AddAdmin, AddAdminLost, TablesOK
<1>7. ASSUME NEW c \in Clients, AddAdminRefused(c) \/ ReadProject(c) \/ NotFound(c) \/ FailStatement(c)
      PROVE  TablesOK'
  BY <1>7 DEF AddAdminRefused, ReadProject, NotFound, FailStatement, tables, TablesOK
<1>8. ASSUME NEW c \in Clients, DropProject(c) \/ DeleteProject(c)
      PROVE  TablesOK'
  <2>1. req[c].project \in Projects
    BY <1>0, <1>8 DEF DropProject, DeleteProject, At, WellFormed, ProjectSteps
  <2> QED
    BY <1>8, <2>1, RemoveOK DEF DropProject, DeleteProject, TablesOK
<1>9. ASSUME NEW c \in Clients, NEW u \in Users, NEW o \in Orgs, NEW step, CheckOrgRole(c, u, o, step)
      PROVE  TablesOK'
  BY <1>9 DEF CheckOrgRole, tables, TablesOK
<1>10. ASSUME NEW c \in Clients, AddMember(c) \/ ChangeRole(c) \/ RemoveMember(c)
       PROVE  TablesOK'
  <2>1. req[c].org \in Orgs /\ req[c].member \in Users
    BY <1>0, <1>10 DEF AddMember, ChangeRole, RemoveMember, At, WellFormed, CheckedSteps, MemberSteps
  <2>2. AddMember(c) \/ ChangeRole(c) => req[c].role \in Roles
    BY <1>0 DEF AddMember, ChangeRole, At, WellFormed
  <2>3. role' \in [Orgs -> [Users -> Roles \cup {None}]]
    BY <1>10, <2>1, <2>2, RoleWritten DEF AddMember, ChangeRole, RemoveMember, Upsert
  <2> QED
    BY <1>10, <2>3 DEF AddMember, ChangeRole, RemoveMember, TablesOK
<1>11. ASSUME NEW c \in Clients, DeleteOrg(c)
       PROVE  TablesOK'
  <2>1. req[c].org \in Orgs
    BY <1>0, <1>11 DEF DeleteOrg, At, WellFormed, CheckedSteps
  <2> QED
    BY <1>11, <2>1, CascadeOK DEF DeleteOrg, TablesOK
<1>12. ASSUME NEW c \in Clients, NEW u \in Users, NEW p \in Projects, NEW step,
              CheckProjectRole(c, u, p, step)
       PROVE  TablesOK'
  BY <1>12 DEF CheckProjectRole, tables, TablesOK
<1>13. ASSUME NEW c \in Clients, UpdateProject(c)
       PROVE  TablesOK'
  <2>1. req[c].project \in Projects
    BY <1>0, <1>13 DEF UpdateProject, At, WellFormed, ProjectSteps
  <2> QED
    BY <1>0, <1>13, <2>1, KeyWritten DEF UpdateProject, UpdatedKey, TablesOK
<1>14. ASSUME NEW c \in Clients, RotateAPIKey(c) \/ RotateLost(c)
       PROVE  TablesOK'
  <2>1. WriteRotated(c)
    BY <1>14 DEF RotateAPIKey, RotateLost
  <2>2. req[c].project \in Projects
    BY <1>0, <2>1 DEF WriteRotated, At, WellFormed, ProjectSteps
  <2>3. project' \in [Projects -> [org : Orgs \cup {None}, key : Nat]]
    BY <1>0, <2>1, <2>2, KeyWritten DEF WriteRotated, RotatedKey
  <2> QED
    BY <1>14, <2>3 DEF RotateAPIKey, RotateLost, TablesOK
<1>15. ASSUME NEW o \in Orgs, CreateOrgLost(o)
       PROVE  TablesOK'
  BY <1>15 DEF CreateOrgLost, TablesOK
<1>16. CASE Crash \/ UNCHANGED vars
  BY <1>16 DEF Crash, vars, tables, TablesOK
<1> QED
  BY <1>1, <1>2, <1>3, <1>4, <1>5, <1>6, <1>7, <1>8, <1>9, <1>10, <1>11, <1>12, <1>13,
     <1>14, <1>15, <1>16
     DEF Next, CreateRequest, OrgRequest, ProjectRequest, RequestFault

(***************************************************************************)
(* The histories, and TypeOK.                                              *)
(***************************************************************************)
HistoryOK ==
    /\ given \in [Projects -> SUBSET Nat] /\ retired \in [Projects -> SUBSET Nat]
    /\ raced \subseteq Projects
    /\ failed \subseteq Orgs \cup Projects /\ lost \subseteq Orgs \cup Projects
    /\ disowned \subseteq Orgs
    /\ outdated \subseteq Clients
    /\ faults \in Nat

LEMMA FaultCounts == faults \in Nat /\ Fault => faults' \in Nat
BY DEF Fault

LEMMA GiveOK ==
    ASSUME HistoryOK, NEW p \in Projects, NEW k \in Nat, Give(p, k)
    PROVE  given' \in [Projects -> SUBSET Nat]
BY DEF HistoryOK, Give

LEMMA HistoryStep == HistoryOK /\ TablesOK /\ RequestsOK /\ [Next]_vars => HistoryOK'
<1> SUFFICES ASSUME HistoryOK, TablesOK, RequestsOK, [Next]_vars
             PROVE  HistoryOK'
  OBVIOUS
<1>0. /\ keys + 1 \in Nat
      /\ \A c \in Clients : WellFormed(req[c]) /\ req[c].key \in Nat
  BY DEF RequestsOK, WellFormed, Request
<1>1. CASE UNCHANGED <<history, faults>>
  BY <1>1 DEF history, HistoryOK
<1>2. ASSUME NEW c \in Clients,
             \/ \E u \in Users, o \in Orgs : CreateOrg(c, u, o)
             \/ \E u \in Users, o \in Orgs, p \in Projects : CheckCreateProject(c, u, o, p)
             \/ \E u \in Users, o \in Orgs,
                   step \in {"addMember", "changeRole", "removeMember", "deleteOrg"} :
                     CheckOrgRole(c, u, o, step)
             \/ \E u \in Users, p \in Projects,
                   step \in {"readUpdate", "readRotate", "deleteProject"} :
                     CheckProjectRole(c, u, p, step)
             \/ InsertProject(c) \/ AddAdminRefused(c) \/ ReadProject(c)
      PROVE  HistoryOK'
  BY <1>1, <1>2 DEF CreateOrg, CheckCreateProject, CheckOrgRole, CheckProjectRole,
                    InsertProject, AddAdminRefused, ReadProject
<1>3. ASSUME NEW c \in Clients,
             AddOwner(c) \/ UpdateProject(c) \/ DeleteProject(c) \/ NotFound(c)
      PROVE  HistoryOK'
  BY <1>3 DEF AddOwner, UpdateProject, DeleteProject, NotFound, Answered, HistoryOK
<1>4. ASSUME NEW c \in Clients, DropOrg(c)
      PROVE  HistoryOK'
  <2>1. req[c].org \in Orgs
    BY <1>0, <1>4 DEF DropOrg, At, WellFormed
  <2> QED
    BY <1>4, <2>1 DEF DropOrg, Answered, HistoryOK
<1>5. ASSUME NEW c \in Clients, AddAdmin(c)
      PROVE  HistoryOK'
  <2>1. req[c].project \in Projects
    BY <1>0, <1>5 DEF AddAdmin, At, WellFormed, ProjectSteps
  <2>2. given' \in [Projects -> SUBSET Nat]
    BY <1>0, <1>5, <2>1, GiveOK DEF AddAdmin
  <2> QED
    BY <1>5, <2>2 DEF AddAdmin, Answered, HistoryOK
<1>6. ASSUME NEW c \in Clients, DropProject(c)
      PROVE  HistoryOK'
  <2>1. req[c].project \in Projects
    BY <1>0, <1>6 DEF DropProject, At, WellFormed, ProjectSteps
  <2> QED
    BY <1>6, <2>1 DEF DropProject, Answered, HistoryOK
<1>7. ASSUME NEW c \in Clients, AddMember(c) \/ ChangeRole(c) \/ RemoveMember(c)
      PROVE  HistoryOK'
  <2>1. MembersChanged(c)
    BY <1>7 DEF AddMember, ChangeRole, RemoveMember
  <2> QED
    BY <2>1 DEF MembersChanged, Overtaken, HistoryOK
<1>8. ASSUME NEW c \in Clients, DeleteOrg(c)
      PROVE  HistoryOK'
  BY <1>8 DEF DeleteOrg, Overtaken, HistoryOK
<1>9. ASSUME NEW c \in Clients, RotateAPIKey(c) \/ RotateLost(c)
      PROVE  HistoryOK'
  <2>1. WriteRotated(c)
    BY <1>9 DEF RotateAPIKey, RotateLost
  <2>2. req[c].project \in Projects
    BY <1>0, <2>1 DEF WriteRotated, At, WellFormed, ProjectSteps
  <2>3. raced' \subseteq Projects
    BY <2>1, <2>2 DEF WriteRotated, HistoryOK
  <2>4. CASE RotateAPIKey(c)
    <3>1. given' \in [Projects -> SUBSET Nat]
      BY <1>0, <2>2, <2>4, GiveOK DEF RotateAPIKey
    <3>2. project[req[c].project].key \in Nat
      BY <2>2 DEF TablesOK
    <3>3. retired' \in [Projects -> SUBSET Nat]
      BY <1>0, <2>2, <2>4, <3>2 DEF RotateAPIKey, HistoryOK
    <3> QED
      BY <2>3, <2>4, <3>1, <3>3 DEF RotateAPIKey, Answered, HistoryOK
  <2>5. CASE RotateLost(c)
    <3>1. faults' \in Nat
      BY <2>5, FaultCounts DEF RotateLost, HistoryOK
    <3> QED
      BY <2>2, <2>3, <2>5, <3>1 DEF RotateLost, Answered, HistoryOK
  <2> QED
    BY <1>9, <2>4, <2>5
<1>10. ASSUME NEW c \in Clients, FailStatement(c)
       PROVE  HistoryOK'
  <2>1. faults' \in Nat
    BY <1>10, FaultCounts DEF FailStatement, HistoryOK
  <2>2. At(c, "dropOrg") => req[c].org \in Orgs
    BY <1>0 DEF At, WellFormed
  <2>3. At(c, "dropProject") => req[c].project \in Projects
    BY <1>0 DEF At, WellFormed, ProjectSteps
  <2>4. /\ failed' \subseteq Orgs \cup Projects
        /\ outdated' \subseteq Clients
    <3>1. CASE At(c, "addOwner") \/ At(c, "addAdmin")
      BY <1>10, <3>1 DEF FailStatement, HistoryOK, At
    <3>2. CASE At(c, "dropOrg") \/ At(c, "dropProject")
      BY <1>10, <2>2, <2>3, <3>2 DEF FailStatement, HistoryOK, At, Answered
    <3>3. CASE ~(\/ At(c, "addOwner") \/ At(c, "addAdmin")
                 \/ At(c, "dropOrg") \/ At(c, "dropProject"))
      BY <1>10, <3>3 DEF FailStatement, HistoryOK, Answered
    <3> QED
      BY <3>1, <3>2, <3>3
  <2> QED
    BY <1>10, <2>1, <2>4 DEF FailStatement, HistoryOK
<1>11. ASSUME NEW c \in Clients, AddOwnerLost(c) \/ InsertProjectLost(c) \/ AddAdminLost(c)
       PROVE  HistoryOK'
  <2>1. faults' \in Nat
    BY <1>11, FaultCounts DEF AddOwnerLost, InsertProjectLost, AddAdminLost, HistoryOK
  <2>2. AddOwnerLost(c) => req[c].org \in Orgs
    BY <1>0 DEF AddOwnerLost, At, WellFormed
  <2>3. InsertProjectLost(c) \/ AddAdminLost(c) => req[c].project \in Projects
    BY <1>0 DEF InsertProjectLost, Insert, AddAdminLost, At, WellFormed, ProjectSteps
  <2>4. failed' \subseteq Orgs \cup Projects /\ lost' \subseteq Orgs \cup Projects
    BY <1>11, <2>2, <2>3 DEF AddOwnerLost, InsertProjectLost, AddAdminLost, HistoryOK
  <2> QED
    BY <1>11, <2>1, <2>4 DEF AddOwnerLost, InsertProjectLost, AddAdminLost, Answered, HistoryOK
<1>12. ASSUME NEW o \in Orgs, CreateOrgLost(o), Fault
       PROVE  HistoryOK'
  <2>1. faults' \in Nat
    BY <1>12, FaultCounts DEF HistoryOK
  <2> QED
    BY <1>12, <2>1 DEF CreateOrgLost, HistoryOK
<1>13. CASE Crash
  <2>1. faults' \in Nat
    BY <1>13, FaultCounts DEF Crash, HistoryOK
  <2>2. \A c \in Clients :
          /\ req[c].step \in {"addOwner", "dropOrg"} => req[c].org \in Orgs
          /\ req[c].step \in {"addAdmin", "dropProject"} => req[c].project \in Projects
    BY <1>0 DEF WellFormed, ProjectSteps
  <2>3. lost' \subseteq Orgs \cup Projects
    BY <1>13, <2>2 DEF Crash, HistoryOK
  <2> QED
    BY <1>13, <2>1, <2>3 DEF Crash, HistoryOK
<1>14. CASE UNCHANGED vars
  BY <1>1, <1>14 DEF vars
<1> QED
  BY <1>2, <1>3, <1>4, <1>5, <1>6, <1>7, <1>8, <1>9, <1>10, <1>11, <1>12, <1>13, <1>14
     DEF Next, CreateRequest, OrgRequest, ProjectRequest, RequestFault

TypeInv == TablesOK /\ RequestsOK /\ HistoryOK

LEMMA TypesTogether == TypeInv => TypeOK
<1> SUFFICES ASSUME TypeInv
             PROVE  TypeOK
  OBVIOUS
<1>1. req \in [Clients -> Request]
  BY DEF TypeInv, RequestsOK, WellFormed
<1> QED
  BY <1>1 DEF TypeInv, TablesOK, RequestsOK, HistoryOK, TypeOK

LEMMA TypeInit == Init => TypeInv
<1> SUFFICES ASSUME Init
             PROVE  TypeInv
  OBVIOUS
<1>1. TablesOK
  BY DEF Init, TablesOK
<1>2. HistoryOK
  BY DEF Init, HistoryOK
<1> QED
  BY <1>1, <1>2, RequestsInit DEF TypeInv

LEMMA TypeStep == TypeInv /\ [Next]_vars => TypeInv'
BY TypesTogether, TablesStep, RequestsStep, HistoryStep DEF TypeInv

\* The four tables, the requests in progress and the histories keep their types.
THEOREM TypeCorrect == Spec => []TypeOK
BY TypesTogether, TypeInit, TypeStep, PTL DEF Spec

(***************************************************************************)
(* API keys.  Keys are numbered as they are generated, so a new one was    *)
(* never replaced; an old one can come back only from the copy of the row  *)
(* that an update has read, and a rotation that finds such an update under *)
(* way marks the project as raced.                                         *)
(***************************************************************************)
KeyInv ==
    /\ \A p \in Projects : project[p].key <= keys /\ \A k \in retired[p] : k <= keys
    /\ \A c \in Clients : req[c].key <= keys
    /\ \A p \in Projects : project[p].key \in retired[p] => p \in raced
    /\ \A c \in Clients : At(c, "writeUpdate") /\ req[c].key \in retired[req[c].project]
                            => req[c].project \in raced

LEMMA KeyInit == Init => KeyInv
BY DEF Init, KeyInv, At, NoRequest

\* Most steps leave all keys alone, and give a client no copy of one to write.
LEMMA KeyFrame ==
    ASSUME TypeInv, KeyInv, UNCHANGED <<keys, retired, raced>>,
           \A p \in Projects : project'[p].key = project[p].key,
           \A c \in Clients : \/ req'[c] = req[c]
                              \/ req'[c].key <= keys /\ req'[c].step # "writeUpdate"
    PROVE  KeyInv'
BY DEF KeyInv, At

LEMMA IdleKey ==
    ASSUME TypeInv, NEW c \in Clients, req' = [req EXCEPT ![c] = NoRequest]
    PROVE  \A d \in Clients : \/ req'[d] = req[d]
                              \/ req'[d].key <= keys /\ req'[d].step # "writeUpdate"
BY DEF TypeInv, RequestsOK, NoRequest

LEMMA CreateKeys ==
    ASSUME TypeInv, KeyInv, NEW c \in Clients, CreateRequest(c)
    PROVE  KeyInv'
<1>0. /\ keys \in Nat /\ DOMAIN req = Clients
      /\ \A d \in Clients : req[d] \in Request /\ req[d].key \in Nat
      /\ \A p \in Projects : project[p] \in [org : Orgs \cup {None}, key : Nat]
      /\ DOMAIN project = Projects
  BY DEF TypeInv, RequestsOK, TablesOK, WellFormed, Request
<1>1. ASSUME NEW u \in Users, NEW o \in Orgs, CreateOrg(c, u, o)
      PROVE  KeyInv'
  BY <1>0, <1>1, KeyFrame DEF CreateOrg, NoRequest, history
<1>2. CASE AddOwner(c) \/ AddAdmin(c)
  BY <1>0, <1>2, KeyFrame, IdleKey DEF AddOwner, AddAdmin, Answered, Done
<1>3. CASE DropOrg(c)
  <2>1. \A p \in Projects : project'[p].key = project[p].key
    BY <1>0, <1>3 DEF DropOrg, Cascade
  <2> QED
    BY <1>3, <2>1, KeyFrame, IdleKey DEF DropOrg, Answered, Done
<1>4. ASSUME NEW u \in Users, NEW o \in Orgs, NEW p \in Projects, CheckCreateProject(c, u, o, p)
      PROVE  KeyInv'
  BY <1>0, <1>4, KeyFrame DEF CheckCreateProject, tables, history, NoRequest
<1>5. CASE InsertProject(c)
  <2>1. Insert(c)
    BY <1>5 DEF InsertProject
  <2>2. req[c].project \in Projects
    BY <2>1 DEF TypeInv, RequestsOK, Insert, At, WellFormed, ProjectSteps
  <2>3. \A p \in Projects : project'[p].key = project[p].key \/ project'[p].key = keys + 1
    BY <1>0, <2>1, <2>2 DEF Insert
  <2>4. \A d \in Clients : /\ d # c => req'[d] = req[d]
                           /\ d = c => req'[d].key = keys + 1 /\ req'[d].step = "addAdmin"
    BY <1>0, <1>5 DEF InsertProject, Request
  <2>5. keys' = keys + 1 /\ UNCHANGED <<retired, raced>>
    BY <1>5, <2>1 DEF InsertProject, Insert, history
  <2>6. \A p \in Projects : retired[p] \subseteq Nat
    BY DEF TypeInv, HistoryOK
  <2> QED
    BY <1>0, <2>3, <2>4, <2>5, <2>6 DEF KeyInv, At
<1>6. CASE AddAdminRefused(c)
  BY <1>0, <1>6, KeyFrame DEF AddAdminRefused, Goto, tables, history, KeyInv, Request
<1>7. CASE DropProject(c)
  <2>1. \A p \in Projects : project'[p].key = project[p].key
    BY <1>0, <1>7 DEF DropProject, Remove
  <2> QED
    BY <1>7, <2>1, KeyFrame, IdleKey DEF DropProject, Answered, Done
<1> QED
  BY <1>1, <1>2, <1>3, <1>4, <1>5, <1>6, <1>7 DEF CreateRequest

LEMMA OrgKeys ==
    ASSUME TypeInv, KeyInv, NEW c \in Clients, OrgRequest(c)
    PROVE  KeyInv'
<1>0. keys \in Nat /\ DOMAIN req = Clients /\ DOMAIN project = Projects
  BY DEF TypeInv, RequestsOK, TablesOK
<1>1. ASSUME NEW u \in Users, NEW o \in Orgs, NEW step \in MemberSteps \cup {"deleteOrg"},
             CheckOrgRole(c, u, o, step)
      PROVE  KeyInv'
  <2>1. /\ req'[c].key = 0 /\ req'[c].step = step
        /\ \A d \in Clients \ {c} : req'[d] = req[d]
    BY <1>0, <1>1 DEF CheckOrgRole, NoRequest
  <2>2. step # "writeUpdate"
    BY DEF MemberSteps
  <2> QED
    BY <1>0, <1>1, <2>1, <2>2, KeyFrame DEF CheckOrgRole, tables, history
<1>2. CASE AddMember(c) \/ ChangeRole(c) \/ RemoveMember(c)
  BY <1>0, <1>2, KeyFrame, IdleKey DEF AddMember, ChangeRole, RemoveMember, MembersChanged, Done
<1>3. CASE DeleteOrg(c)
  <2>1. \A p \in Projects : project'[p].key = project[p].key
    BY <1>0, <1>3 DEF DeleteOrg, Cascade, TypeInv, TablesOK
  <2> QED
    BY <1>3, <2>1, KeyFrame, IdleKey DEF DeleteOrg, Done
<1> QED
  BY <1>1, <1>2, <1>3 DEF OrgRequest, MemberSteps

\* A rotation: the new key is above all others, and whatever it replaces may
\* return only into a project that it has marked.
LEMMA RotationKeys ==
    ASSUME TypeInv, KeyInv, NEW c \in Clients, WriteRotated(c),
           req' = [req EXCEPT ![c] = NoRequest],
           \/ UNCHANGED retired
           \/ retired' = [retired EXCEPT ![req[c].project] =
                              @ \cup {project[req[c].project].key, req[c].key}]
    PROVE  KeyInv'
<1> DEFINE p == req[c].project
<1>0. /\ keys \in Nat /\ DOMAIN req = Clients /\ p \in Projects
      /\ \A d \in Clients : req[d].key \in Nat
      /\ \A q \in Projects : project[q].key \in Nat /\ retired[q] \subseteq Nat
      /\ DOMAIN project = Projects /\ DOMAIN retired = Projects
      /\ req[c].step = "writeRotate"
      /\ \A d \in Clients : req[d].step = "writeUpdate" => req[d].project \in Projects
  BY DEF TypeInv, RequestsOK, TablesOK, HistoryOK, WellFormed, Request, WriteRotated, At,
         ProjectSteps
<1>1. keys' = keys + 1 /\ raced \subseteq raced'
  BY DEF WriteRotated
<1>2. \A q \in Projects : IF q = p THEN project'[q].key = keys + 1
                                   ELSE project'[q].key = project[q].key
  BY <1>0 DEF WriteRotated, RotatedKey, TypeInv, TablesOK
<1>3. \A q \in Projects : \A k \in retired'[q] :
        \/ k \in retired[q]
        \/ q = p /\ (k = project[p].key \/ k = req[c].key)
  BY <1>0
<1>4. \A d \in Clients : IF d = c THEN req'[d].key = 0 /\ req'[d].step = "idle"
                                  ELSE req'[d] = req[d]
  BY <1>0 DEF NoRequest
<1>5. \A d \in Clients \ {c} : req[d].step = "writeUpdate" /\ req[d].project = p => p \in raced'
  BY DEF WriteRotated, At
<1>6. /\ \A q \in Projects : project'[q].key <= keys' /\ \A k \in retired'[q] : k <= keys'
      /\ \A d \in Clients : req'[d].key <= keys'
  BY <1>0, <1>1, <1>2, <1>3, <1>4 DEF KeyInv
<1>7. ASSUME NEW q \in Projects, project'[q].key \in retired'[q]
      PROVE  q \in raced'
  <2>1. q # p
    BY <1>0, <1>2, <1>3, <1>7 DEF KeyInv
  <2> QED
    BY <1>1, <1>2, <1>3, <1>7, <2>1 DEF KeyInv
<1>8. ASSUME NEW d \in Clients, req'[d].step = "writeUpdate",
             req'[d].key \in retired'[req'[d].project]
      PROVE  req'[d].project \in raced'
  <2>1. d # c /\ req'[d] = req[d] /\ req[d].project \in Projects
    BY <1>0, <1>4, <1>8
  <2>2. CASE req[d].project = p
    BY <1>5, <1>8, <2>1, <2>2
  <2>3. CASE req[d].project # p
    BY <1>1, <1>3, <1>8, <2>1, <2>3 DEF KeyInv, At
  <2> QED
    BY <2>2, <2>3
<1> QED
  BY <1>6, <1>7, <1>8 DEF KeyInv, At

LEMMA ProjectKeys ==
    ASSUME TypeInv, KeyInv, NEW c \in Clients, ProjectRequest(c)
    PROVE  KeyInv'
<1>0. /\ keys \in Nat /\ DOMAIN req = Clients
      /\ \A d \in Clients : req[d] \in Request /\ req[d].key \in Nat
      /\ \A p \in Projects : project[p] \in [org : Orgs \cup {None}, key : Nat]
      /\ DOMAIN project = Projects
  BY DEF TypeInv, RequestsOK, TablesOK, WellFormed, Request
<1>1. ASSUME NEW u \in Users, NEW p \in Projects,
             NEW step \in {"readUpdate", "readRotate", "deleteProject"},
             CheckProjectRole(c, u, p, step)
      PROVE  KeyInv'
  BY <1>0, <1>1, KeyFrame DEF CheckProjectRole, tables, history, NoRequest
<1>2. CASE ReadProject(c)
  <2>1. req[c].project \in Projects
    BY <1>2 DEF TypeInv, RequestsOK, ReadProject, WellFormed, ProjectSteps
  <2>2. /\ req'[c].key = project[req[c].project].key
        /\ req'[c].project = req[c].project
        /\ \A d \in Clients \ {c} : req'[d] = req[d]
    BY <1>0, <1>2 DEF ReadProject, Request
  <2>3. UNCHANGED <<keys, project, retired, raced>>
    BY <1>2 DEF ReadProject, tables, history
  <2> QED
    BY <1>0, <2>1, <2>2, <2>3 DEF KeyInv, At
<1>3. CASE UpdateProject(c)
  <2>1. req[c].project \in Projects
    BY <1>3 DEF TypeInv, RequestsOK, UpdateProject, At, WellFormed, ProjectSteps
  <2>2. /\ project'[req[c].project].key = req[c].key
        /\ \A p \in Projects \ {req[c].project} : project'[p] = project[p]
    BY <1>0, <1>3, <2>1 DEF UpdateProject, UpdatedKey
  <2>3. \A d \in Clients : req'[d] = req[d] \/ (req'[d].key <= keys /\ req'[d].step # "writeUpdate")
    BY <1>3, IdleKey DEF UpdateProject, Answered, Done
  <2>4. UNCHANGED <<keys, retired, raced>> /\ At(c, "writeUpdate")
    BY <1>3 DEF UpdateProject
  <2> QED
    BY <1>0, <2>1, <2>2, <2>3, <2>4 DEF KeyInv, At
<1>4. CASE RotateAPIKey(c)
  BY <1>4, RotationKeys DEF RotateAPIKey, Answered, Done
<1>5. CASE DeleteProject(c)
  <2>1. \A p \in Projects : project'[p].key = project[p].key
    BY <1>0, <1>5 DEF DeleteProject, Remove
  <2> QED
    BY <1>5, <2>1, KeyFrame, IdleKey DEF DeleteProject, Answered, Done
<1> QED
  BY <1>1, <1>2, <1>3, <1>4, <1>5 DEF ProjectRequest

LEMMA FaultKeys ==
    ASSUME TypeInv, KeyInv, NEW c \in Clients, RequestFault(c)
    PROVE  KeyInv'
<1>0. /\ keys \in Nat /\ DOMAIN req = Clients
      /\ \A d \in Clients : req[d] \in Request /\ req[d].key \in Nat
      /\ DOMAIN project = Projects
  BY DEF TypeInv, RequestsOK, TablesOK, WellFormed, Request
<1>1. CASE FailStatement(c)
  <2>1. CASE At(c, "addOwner") \/ At(c, "addAdmin")
    <3>1. \A d \in Clients : \/ req'[d] = req[d]
                             \/ req'[d].key = req[d].key /\ req'[d].step # "writeUpdate"
      BY <1>0, <1>1, <2>1 DEF FailStatement, Goto, At, Request
    <3> QED
      BY <1>1, <3>1, KeyFrame DEF FailStatement, tables, KeyInv
  <2>2. CASE ~At(c, "addOwner") /\ ~At(c, "addAdmin")
    <3>1. req' = [req EXCEPT ![c] = NoRequest]
      BY <1>1, <2>2 DEF FailStatement, Answered, Done
    <3> QED
      BY <1>1, <3>1, KeyFrame, IdleKey DEF FailStatement, tables
  <2> QED
    BY <2>1, <2>2
<1>2. CASE AddOwnerLost(c) \/ AddAdminLost(c)
  <2>1. \A d \in Clients : \/ req'[d] = req[d]
                           \/ req'[d].key = req[d].key /\ req'[d].step # "writeUpdate"
    BY <1>0, <1>2 DEF AddOwnerLost, AddAdminLost, Goto, Request
  <2> QED
    BY <1>2, <2>1, KeyFrame DEF AddOwnerLost, AddAdminLost, KeyInv
<1>3. CASE InsertProjectLost(c)
  <2>1. Insert(c)
    BY <1>3 DEF InsertProjectLost
  <2>2. req[c].project \in Projects
    BY <2>1 DEF TypeInv, RequestsOK, Insert, At, WellFormed, ProjectSteps
  <2>3. \A p \in Projects : project'[p].key = project[p].key \/ project'[p].key = keys + 1
    BY <1>0, <2>1, <2>2 DEF Insert
  <2>4. \A d \in Clients : req'[d] = req[d] \/ (req'[d].key <= keys /\ req'[d].step # "writeUpdate")
    BY <1>3, IdleKey DEF InsertProjectLost, Answered, Done
  <2>5. keys' = keys + 1 /\ UNCHANGED <<retired, raced>>
    BY <1>3, <2>1 DEF InsertProjectLost, Insert
  <2>6. \A p \in Projects : retired[p] \subseteq Nat /\ project[p].key \in Nat
    BY DEF TypeInv, HistoryOK, TablesOK
  <2>7. \A d \in Clients : req'[d].key <= keys'
    <3>1. \A d \in Clients : req'[d] = req[d] \/ req'[d].key = 0
      BY <1>0, <1>3 DEF InsertProjectLost, Answered, Done, NoRequest
    <3> QED
      BY <1>0, <2>5, <3>1 DEF KeyInv
  <2> QED
    BY <1>0, <2>3, <2>4, <2>5, <2>6, <2>7 DEF KeyInv, At
<1>4. CASE RotateLost(c)
  BY <1>4, RotationKeys DEF RotateLost, Answered, Done
<1> QED
  BY <1>1, <1>2, <1>3, <1>4 DEF RequestFault

LEMMA KeyStep == TypeInv /\ KeyInv /\ [Next]_vars => KeyInv'
<1> SUFFICES ASSUME TypeInv, KeyInv, [Next]_vars
             PROVE  KeyInv'
  OBVIOUS
<1>1. ASSUME NEW c \in Clients, NotFound(c)
      PROVE  KeyInv'
  BY <1>1, KeyFrame, IdleKey DEF NotFound, Answered, Done, tables
<1>2. ASSUME NEW o \in Orgs, CreateOrgLost(o)
      PROVE  KeyInv'
  BY <1>2, KeyFrame DEF CreateOrgLost
<1>3. CASE Crash
  <2>1. \A c \in Clients : req'[c].key <= keys /\ req'[c].step # "writeUpdate"
    BY <1>3 DEF Crash, NoRequest, TypeInv, RequestsOK
  <2> QED
    BY <1>3, <2>1, KeyFrame DEF Crash, tables
<1>4. CASE UNCHANGED vars
  BY <1>4, KeyFrame DEF vars, tables, history
<1> QED
  BY <1>1, <1>2, <1>3, <1>4, CreateKeys, OrgKeys, ProjectKeys, FaultKeys DEF Next

\* A replaced key is dead, unless an update held the project's row when the key
\* was rotated.
THEOREM ReplacedKeysDead == Spec => []OldKeyDeadUnlessRaced
<1>1. TypeInv /\ KeyInv => OldKeyDeadUnlessRaced
  BY DEF KeyInv, OldKeyDeadUnlessRaced
<1> QED
  BY <1>1, TypeInit, TypeStep, KeyInit, KeyStep, PTL DEF Spec

(***************************************************************************)
(* Roles.  A checked request keeps the role it was admitted with until the *)
(* role is changed, and then it counts as outdated; an organisation that   *)
(* is gone has no members for it to act on.                                *)
(***************************************************************************)
Entitled(c) == AtLeast(role[req[c].org][req[c].user], MinRole(req[c].step))

RoleInv ==
    /\ \A o \in Orgs : org[o] # "live" => \A u \in Users : role[o][u] = None
    /\ \A c \in Clients : req[c].step \in CheckedSteps =>
         /\ org[req[c].org] # "absent"
         /\ org[req[c].org] = "live" => Entitled(c) \/ c \in outdated

LEMMA RoleInit == Init => RoleInv
BY DEF Init, RoleInv, NoRequest, CheckedSteps, MemberSteps

\* A step that writes neither organisations nor members, and admits nobody.
LEMMA RoleFrame ==
    ASSUME TypeInv, RoleInv, UNCHANGED <<org, role>>,
           \A c \in Clients : \/ req'[c].step \notin CheckedSteps
                              \/ req'[c] = req[c] /\ (c \in outdated => c \in outdated')
    PROVE  RoleInv'
BY DEF RoleInv, Entitled

\* A step of c that writes members: everybody whose role it changes is noted.
LEMMA RoleNoted ==
    ASSUME TypeInv, RoleInv, NEW c \in Clients, req' = [req EXCEPT ![c] = NoRequest],
           outdated' = (outdated \cup Overtaken) \ {c},
           \A o \in Orgs : org'[o] = org[o] \/ org'[o] = "deleted",
           \A o \in Orgs : org'[o] # "live" => \A u \in Users : role'[o][u] = None
    PROVE  RoleInv'
<1>1. ASSUME NEW d \in Clients, req'[d].step \in CheckedSteps
      PROVE  /\ org'[req'[d].org] # "absent"
             /\ org'[req'[d].org] = "live" => Entitled(d)' \/ d \in outdated'
  <2>1. d # c /\ req'[d] = req[d] /\ req[d].org \in Orgs
    BY <1>1 DEF TypeInv, RequestsOK, WellFormed, NoRequest, CheckedSteps, MemberSteps
  <2>2. org[req[d].org] # "absent" /\ (org[req[d].org] = "live" => Entitled(d) \/ d \in outdated)
    BY <1>1, <2>1 DEF RoleInv
  <2>3. CASE d \in outdated
    BY <2>1, <2>2, <2>3
  <2>4. CASE role'[req[d].org][req[d].user] # role[req[d].org][req[d].user]
    <3>1. req[d].step \in {"deleteOrg", "addMember", "changeRole", "removeMember",
                           "insertProject"}
      BY <1>1, <2>1 DEF CheckedSteps, MemberSteps
    <3>2. d \in Overtaken
      BY <2>4, <3>1 DEF Overtaken
    <3> QED
      BY <2>1, <2>2, <3>2
  <2>5. CASE role'[req[d].org][req[d].user] = role[req[d].org][req[d].user] /\ d \notin outdated
    BY <2>1, <2>2, <2>5 DEF Entitled
  <2> QED
    BY <2>3, <2>4, <2>5
<1> QED
  BY <1>1 DEF RoleInv

LEMMA IdleUnchecked ==
    ASSUME TypeInv, NEW c \in Clients, req' = [req EXCEPT ![c] = NoRequest],
           outdated \ {c} \subseteq outdated'
    PROVE  \A d \in Clients : \/ req'[d].step \notin CheckedSteps
                              \/ req'[d] = req[d] /\ (d \in outdated => d \in outdated')
BY DEF TypeInv, RequestsOK, NoRequest, CheckedSteps, MemberSteps

\* A request is admitted.
LEMMA Admitted ==
    ASSUME TypeInv, RoleInv, NEW c \in Clients, UNCHANGED <<org, role, outdated>>,
           NEW r, req' = [req EXCEPT ![c] = r],
           r.step \in CheckedSteps => /\ r.org \in Orgs /\ r.user \in Users
                                      /\ AtLeast(role[r.org][r.user], MinRole(r.step))
    PROVE  RoleInv'
<1>1. \A d \in Clients : req'[d] = IF d = c THEN r ELSE req[d]
  BY DEF TypeInv, RequestsOK
<1>2. ASSUME r.step \in CheckedSteps
      PROVE  org[r.org] = "live"
  BY <1>2 DEF RoleInv, AtLeast
<1> QED
  BY <1>1, <1>2 DEF RoleInv, Entitled

LEMMA CreateRoles ==
    ASSUME TypeInv, RoleInv, NEW c \in Clients, CreateRequest(c)
    PROVE  RoleInv'
<1>0. /\ DOMAIN req = Clients /\ DOMAIN org = Orgs
      /\ \A d \in Clients : req[d] \in Request
      /\ role \in [Orgs -> [Users -> Roles \cup {None}]]
      /\ \A d \in Clients : req[d].step \in CheckedSteps => req[d].org \in Orgs
  BY DEF TypeInv, RequestsOK, TablesOK, WellFormed
<1>1. ASSUME NEW u \in Users, NEW o \in Orgs, CreateOrg(c, u, o)
      PROVE  RoleInv'
  <2>1. /\ \A d \in Clients \ {c} : req'[d] = req[d]
        /\ req'[c].step = "addOwner"
    BY <1>0, <1>1 DEF CreateOrg, NoRequest
  <2>2. UNCHANGED <<role, outdated>> /\ org' = [org EXCEPT ![o] = "live"]
    BY <1>1 DEF CreateOrg, history
  <2>3. \A p \in Orgs : org'[p] = IF p = o THEN "live" ELSE org[p]
    BY <1>0, <2>2
  <2>4. ASSUME NEW d \in Clients, req'[d].step \in CheckedSteps
        PROVE  /\ org'[req'[d].org] # "absent"
               /\ org'[req'[d].org] = "live" => Entitled(d)' \/ d \in outdated'
    <3>1. req'[d] = req[d] /\ req[d].org \in Orgs
      BY <1>0, <2>1, <2>4 DEF CheckedSteps, MemberSteps
    <3>2. req[d].org # o
      BY <1>1, <2>4, <3>1 DEF CreateOrg, RoleInv
    <3> QED
      BY <2>2, <2>3, <2>4, <3>1, <3>2 DEF RoleInv, Entitled
  <2> QED
    BY <2>2, <2>3, <2>4 DEF RoleInv
<1>2. CASE AddOwner(c)
  <2> DEFINE o == req[c].org
             u == req[c].user
  <2>1. o \in Orgs /\ u \in Users /\ org[o] = "live"
    BY <1>2 DEF TypeInv, RequestsOK, WellFormed, AddOwner, At
  <2>2. /\ role' = [role EXCEPT ![o][u] = "owner"] /\ org' = org
        /\ req' = [req EXCEPT ![c] = NoRequest] /\ outdated' = outdated \ {c}
    BY <1>2 DEF AddOwner, Upsert, FirstRole, Answered, Done
  <2>3. \A p \in Orgs, v \in Users :
          role'[p][v] = IF p = o /\ v = u THEN "owner" ELSE role[p][v]
    BY <1>0, <2>1, <2>2
  <2>4. \A step \in CheckedSteps : AtLeast("owner", MinRole(step))
    BY ConstantsAssumption DEF AtLeast, MinRole, Rank
  <2>5. ASSUME NEW d \in Clients, req'[d].step \in CheckedSteps
        PROVE  /\ org'[req'[d].org] # "absent"
               /\ org'[req'[d].org] = "live" => Entitled(d)' \/ d \in outdated'
    <3>1. d # c /\ req'[d] = req[d] /\ req[d].org \in Orgs /\ req[d].user \in Users
      BY <2>2, <2>5 DEF TypeInv, RequestsOK, WellFormed, NoRequest, CheckedSteps, MemberSteps
    <3> QED
      BY <2>2, <2>3, <2>4, <2>5, <3>1 DEF RoleInv, Entitled
  <2> QED
    BY <2>1, <2>2, <2>3, <2>5 DEF RoleInv
<1>3. CASE DropOrg(c)
  <2> DEFINE o == req[c].org
  <2>1. o \in Orgs
    BY <1>3 DEF TypeInv, RequestsOK, WellFormed, DropOrg, At
  <2>2. \A p \in Orgs : /\ org'[p] = IF p = o THEN "deleted" ELSE org[p]
                        /\ role'[p] = IF p = o THEN [u \in Users |-> None] ELSE role[p]
    BY <1>0, <1>3, <2>1 DEF DropOrg, CleanedUp, Cascade
  <2>3. req' = [req EXCEPT ![c] = NoRequest] /\ outdated' = outdated \ {c}
    BY <1>3 DEF DropOrg, Answered, Done
  <2>4. ASSUME NEW d \in Clients, req'[d].step \in CheckedSteps
        PROVE  /\ org'[req'[d].org] # "absent"
               /\ org'[req'[d].org] = "live" => Entitled(d)' \/ d \in outdated'
    <3>1. d # c /\ req'[d] = req[d] /\ req[d].org \in Orgs
      BY <2>3, <2>4 DEF TypeInv, RequestsOK, WellFormed, NoRequest, CheckedSteps, MemberSteps
    <3> QED
      BY <2>2, <2>3, <2>4, <3>1 DEF RoleInv, Entitled
  <2> QED
    BY <2>2, <2>4 DEF RoleInv
<1>4. ASSUME NEW u \in Users, NEW o \in Orgs, NEW p \in Projects, CheckCreateProject(c, u, o, p)
      PROVE  RoleInv'
  <2> DEFINE r == [NoRequest EXCEPT !.step = "insertProject", !.user = u, !.org = o,
                                    !.project = p]
  <2>1. r.step = "insertProject" /\ r.org = o /\ r.user = u
    BY DEF NoRequest
  <2>2. AtLeast(role[o][u], MinRole("insertProject"))
    BY <1>4 DEF CheckCreateProject, MinRole
  <2>3. req' = [req EXCEPT ![c] = r] /\ UNCHANGED <<org, role, outdated>>
    BY <1>4 DEF CheckCreateProject, tables, history
  <2> HIDE DEF r
  <2> QED
    BY <2>1, <2>2, <2>3, Admitted
<1>5. CASE InsertProject(c) \/ AddAdminRefused(c)
  <2>1. /\ \A d \in Clients \ {c} : req'[d] = req[d]
        /\ req'[c].step \notin CheckedSteps
    BY <1>0, <1>5 DEF InsertProject, AddAdminRefused, Goto, Request, CheckedSteps, MemberSteps
  <2> QED
    BY <1>5, <2>1, RoleFrame DEF InsertProject, AddAdminRefused, tables, history
<1>6. CASE AddAdmin(c) \/ DropProject(c)
  BY <1>6, RoleFrame, IdleUnchecked DEF AddAdmin, DropProject, Answered, Done
<1> QED
  BY <1>1, <1>2, <1>3, <1>4, <1>5, <1>6 DEF CreateRequest

LEMMA OrgRoles ==
    ASSUME TypeInv, RoleInv, NEW c \in Clients, OrgRequest(c)
    PROVE  RoleInv'
<1>0. /\ role \in [Orgs -> [Users -> Roles \cup {None}]] /\ DOMAIN org = Orgs
      /\ WellFormed(req[c])
  BY DEF TypeInv, TablesOK, RequestsOK
<1>1. ASSUME NEW u \in Users, NEW o \in Orgs, NEW step \in MemberSteps \cup {"deleteOrg"},
             CheckOrgRole(c, u, o, step)
      PROVE  RoleInv'
  <2>1. PICK m \in Users, r \in Roles :
           req' = [req EXCEPT ![c] =
                    [NoRequest EXCEPT !.step = step, !.user = u, !.org = o,
                                      !.member = IF step = "deleteOrg" THEN None ELSE m,
                                      !.role = IF step \in {"addMember", "changeRole"}
                                               THEN r ELSE None]]
    BY <1>1 DEF CheckOrgRole
  <2> DEFINE q == [NoRequest EXCEPT !.step = step, !.user = u, !.org = o,
                                    !.member = IF step = "deleteOrg" THEN None ELSE m,
                                    !.role = IF step \in {"addMember", "changeRole"}
                                             THEN r ELSE None]
  <2>2. q.step = step /\ q.org = o /\ q.user = u
    BY DEF NoRequest
  <2>3. req' = [req EXCEPT ![c] = q]
    BY <2>1
  <2>4. UNCHANGED <<org, role, outdated>> /\ AtLeast(role[o][u], MinRole(step))
    BY <1>1 DEF CheckOrgRole, tables, history
  <2> HIDE DEF q
  <2> QED
    BY <2>2, <2>3, <2>4, Admitted
<1>2. CASE AddMember(c) \/ ChangeRole(c) \/ RemoveMember(c)
  <2> DEFINE o == req[c].org
             m == req[c].member
  <2>1. o \in Orgs /\ m \in Users /\ org[o] = "live"
    <3>1. o \in Orgs /\ m \in Users
      BY <1>0, <1>2 DEF AddMember, ChangeRole, RemoveMember, At, WellFormed, CheckedSteps,
                        MemberSteps
    <3> QED
      BY <1>2, <3>1 DEF AddMember, ChangeRole, RemoveMember, RoleInv
  <2>2. PICK r : role' = [role EXCEPT ![o][m] = r]
    BY <1>2 DEF AddMember, ChangeRole, RemoveMember, Upsert
  <2>3. \A p \in Orgs : p # o => role'[p] = role[p]
    BY <1>0, <2>1, <2>2
  <2>4. org' = org /\ MembersChanged(c)
    BY <1>2 DEF AddMember, ChangeRole, RemoveMember
  <2>5. \A p \in Orgs : org'[p] # "live" => \A u \in Users : role'[p][u] = None
    BY <2>1, <2>3, <2>4 DEF RoleInv
  <2>6. \A p \in Orgs : org'[p] = org[p] \/ org'[p] = "deleted"
    BY <2>4
  <2>7. /\ req' = [req EXCEPT ![c] = NoRequest]
        /\ outdated' = (outdated \cup Overtaken) \ {c}
    BY <2>4 DEF MembersChanged, Done
  <2> QED
    BY <2>5, <2>6, <2>7, RoleNoted
<1>3. CASE DeleteOrg(c)
  <2>1. req[c].org \in Orgs
    BY <1>0, <1>3 DEF DeleteOrg, At, WellFormed, CheckedSteps
  <2>2. \A p \in Orgs : /\ org'[p] = IF p = req[c].org THEN "deleted" ELSE org[p]
                        /\ role'[p] = IF p = req[c].org THEN [u \in Users |-> None] ELSE role[p]
    BY <1>0, <1>3, <2>1 DEF DeleteOrg, Cascade
  <2>3. req' = [req EXCEPT ![c] = NoRequest] /\ outdated' = (outdated \cup Overtaken) \ {c}
    BY <1>3 DEF DeleteOrg, Done
  <2>4. \A o \in Orgs : org'[o] # "live" => \A u \in Users : role'[o][u] = None
    BY <2>2 DEF RoleInv
  <2>5. \A o \in Orgs : org'[o] = org[o] \/ org'[o] = "deleted"
    BY <2>2
  <2> QED
    BY <2>3, <2>4, <2>5, RoleNoted
<1> QED
  BY <1>1, <1>2, <1>3 DEF OrgRequest, MemberSteps

LEMMA ProjectRoles ==
    ASSUME TypeInv, RoleInv, NEW c \in Clients, ProjectRequest(c)
    PROVE  RoleInv'
<1>0. DOMAIN req = Clients /\ \A d \in Clients : req[d] \in Request
  BY DEF TypeInv, RequestsOK, WellFormed
<1>1. ASSUME NEW u \in Users, NEW p \in Projects,
             NEW step \in {"readUpdate", "readRotate", "deleteProject"},
             CheckProjectRole(c, u, p, step)
      PROVE  RoleInv'
  <2>1. /\ \A d \in Clients \ {c} : req'[d] = req[d]
        /\ req'[c].step = step
    BY <1>0, <1>1 DEF CheckProjectRole, NoRequest
  <2> QED
    BY <1>1, <2>1, RoleFrame DEF CheckProjectRole, tables, history, CheckedSteps, MemberSteps
<1>2. CASE ReadProject(c)
  <2>1. /\ \A d \in Clients \ {c} : req'[d] = req[d]
        /\ req'[c].step \in {"writeUpdate", "writeRotate"}
    BY <1>0, <1>2 DEF ReadProject, Request
  <2> QED
    BY <1>2, <2>1, RoleFrame DEF ReadProject, tables, history, CheckedSteps, MemberSteps
<1>3. CASE UpdateProject(c) \/ RotateAPIKey(c) \/ DeleteProject(c)
  BY <1>3, RoleFrame, IdleUnchecked
     DEF UpdateProject, RotateAPIKey, WriteRotated, DeleteProject, Answered, Done
<1> QED
  BY <1>1, <1>2, <1>3 DEF ProjectRequest

LEMMA FaultRoles ==
    ASSUME TypeInv, RoleInv, NEW c \in Clients, RequestFault(c)
    PROVE  RoleInv'
<1>0. /\ DOMAIN req = Clients /\ \A d \in Clients : req[d] \in Request
      /\ role \in [Orgs -> [Users -> Roles \cup {None}]]
  BY DEF TypeInv, RequestsOK, TablesOK, WellFormed
<1>1. CASE FailStatement(c)
  <2>1. UNCHANGED <<org, role>>
    BY <1>1 DEF FailStatement, tables
  <2>2. CASE At(c, "addOwner") \/ At(c, "addAdmin")
    <3>1. /\ \A d \in Clients \ {c} : req'[d] = req[d]
          /\ req'[c].step \notin CheckedSteps /\ outdated' = outdated
      BY <1>0, <1>1, <2>2 DEF FailStatement, Goto, At, Request, CheckedSteps, MemberSteps
    <3> QED
      BY <2>1, <3>1, RoleFrame
  <2>3. CASE ~At(c, "addOwner") /\ ~At(c, "addAdmin")
    <3>1. req' = [req EXCEPT ![c] = NoRequest] /\ outdated' = outdated \ {c}
      BY <1>1, <2>3 DEF FailStatement, Answered, Done
    <3> QED
      BY <2>1, <3>1, RoleFrame, IdleUnchecked
  <2> QED
    BY <2>2, <2>3
<1>2. CASE AddOwnerLost(c)
  <2> DEFINE o == req[c].org
             u == req[c].user
  <2>1. o \in Orgs /\ u \in Users /\ org[o] = "live"
    BY <1>2 DEF TypeInv, RequestsOK, WellFormed, AddOwnerLost, At
  <2>2. /\ role' = [role EXCEPT ![o][u] = "owner"] /\ org' = org /\ outdated' = outdated
    BY <1>2 DEF AddOwnerLost, Upsert
  <2>3. \A p \in Orgs, v \in Users :
          role'[p][v] = IF p = o /\ v = u THEN "owner" ELSE role[p][v]
    BY <1>0, <2>1, <2>2
  <2>4. \A step \in CheckedSteps : AtLeast("owner", MinRole(step))
    BY ConstantsAssumption DEF AtLeast, MinRole, Rank
  <2>5. /\ \A d \in Clients \ {c} : req'[d] = req[d]
        /\ req'[c].step = "dropOrg"
    BY <1>0, <1>2 DEF AddOwnerLost, Goto, Request
  <2>6. ASSUME NEW d \in Clients, req'[d].step \in CheckedSteps
        PROVE  /\ org'[req'[d].org] # "absent"
               /\ org'[req'[d].org] = "live" => Entitled(d)' \/ d \in outdated'
    <3>1. d # c /\ req'[d] = req[d] /\ req[d].org \in Orgs /\ req[d].user \in Users
      BY <2>5, <2>6 DEF TypeInv, RequestsOK, WellFormed, CheckedSteps, MemberSteps
    <3> QED
      BY <2>2, <2>3, <2>4, <2>6, <3>1 DEF RoleInv, Entitled
  <2> QED
    BY <2>1, <2>2, <2>3, <2>6 DEF RoleInv
<1>3. CASE AddAdminLost(c)
  <2>1. /\ \A d \in Clients \ {c} : req'[d] = req[d]
        /\ req'[c].step \notin CheckedSteps
    BY <1>0, <1>3 DEF AddAdminLost, Goto, Request, CheckedSteps, MemberSteps
  <2> QED
    BY <1>3, <2>1, RoleFrame DEF AddAdminLost
<1>4. CASE InsertProjectLost(c) \/ RotateLost(c)
  BY <1>4, RoleFrame, IdleUnchecked
     DEF InsertProjectLost, Insert, RotateLost, WriteRotated, Answered, Done
<1> QED
  BY <1>1, <1>2, <1>3, <1>4 DEF RequestFault

LEMMA RoleStep == TypeInv /\ RoleInv /\ [Next]_vars => RoleInv'
<1> SUFFICES ASSUME TypeInv, RoleInv, [Next]_vars
             PROVE  RoleInv'
  OBVIOUS
<1>1. ASSUME NEW c \in Clients, NotFound(c)
      PROVE  RoleInv'
  BY <1>1, RoleFrame, IdleUnchecked DEF NotFound, Answered, Done, tables
<1>2. ASSUME NEW o \in Orgs, CreateOrgLost(o)
      PROVE  RoleInv'
  <2>1. \A p \in Orgs : org'[p] = IF p = o THEN "live" ELSE org[p]
    BY <1>2 DEF CreateOrgLost, TypeInv, TablesOK
  <2>2. UNCHANGED <<role, req, outdated>> /\ org[o] = "absent"
    BY <1>2 DEF CreateOrgLost
  <2>3. ASSUME NEW d \in Clients, req[d].step \in CheckedSteps
        PROVE  req[d].org \in Orgs /\ req[d].org # o
    BY <2>2, <2>3 DEF RoleInv, TypeInv, RequestsOK, WellFormed
  <2> QED
    BY <2>1, <2>2, <2>3 DEF RoleInv, Entitled
<1>3. CASE Crash
  BY <1>3 DEF Crash, tables, RoleInv, NoRequest, CheckedSteps, MemberSteps
<1>4. CASE UNCHANGED vars
  BY <1>4, RoleFrame DEF vars, tables, history
<1> QED
  BY <1>1, <1>2, <1>3, <1>4, CreateRoles, OrgRoles, ProjectRoles, FaultRoles DEF Next

\* A step of a checked request that writes a table finds its organisation in
\* use: on any other it is answered "not found".
LEMMA WritesToLive ==
    ASSUME TypeInv, RoleInv, [Next]_vars, NEW c \in Clients,
           req[c].step \in CheckedSteps, req'[c] # req[c], tables' # tables
    PROVE  org[req[c].org] = "live"
<1>0. /\ DOMAIN req = Clients /\ WellFormed(req[c])
      /\ req[c].org \in Orgs
  BY DEF TypeInv, RequestsOK, WellFormed
<1>1. ASSUME NEW d \in Clients,
             CreateRequest(d) \/ OrgRequest(d) \/ ProjectRequest(d) \/ NotFound(d) \/ RequestFault(d)
      PROVE  d = c
  BY <1>0, <1>1
     DEF CreateRequest, CreateOrg, AddOwner, DropOrg, CheckCreateProject, InsertProject, AddAdmin,
         AddAdminRefused, DropProject, OrgRequest, CheckOrgRole, AddMember, ChangeRole,
         RemoveMember, DeleteOrg, MembersChanged, ProjectRequest, CheckProjectRole, ReadProject,
         UpdateProject, RotateAPIKey, DeleteProject, NotFound, RequestFault, FailStatement,
         AddOwnerLost, InsertProjectLost, AddAdminLost, RotateLost, Answered, Done, Goto
<1>2. CASE CreateRequest(c)
  <2>1. InsertProject(c)
    BY <1>2 DEF CreateRequest, CreateOrg, AddOwner, DropOrg, CheckCreateProject, AddAdmin,
                AddAdminRefused, DropProject, At, CheckedSteps, MemberSteps
  <2> QED
    BY <2>1 DEF InsertProject, Insert
<1>3. CASE OrgRequest(c)
  <2>1. AddMember(c) \/ ChangeRole(c) \/ RemoveMember(c) \/ DeleteOrg(c)
    BY <1>3 DEF OrgRequest, CheckOrgRole, At, CheckedSteps, MemberSteps
  <2>2. ChangeRole(c) \/ RemoveMember(c) => req[c].member \in Users
    BY <1>0 DEF ChangeRole, RemoveMember, At, WellFormed, MemberSteps
  <2> QED
    BY <1>0, <2>1, <2>2 DEF AddMember, ChangeRole, RemoveMember, DeleteOrg, RoleInv
<1>4. ~ProjectRequest(c)
  BY DEF ProjectRequest, CheckProjectRole, ReadProject, UpdateProject, RotateAPIKey,
         WriteRotated, DeleteProject, At, CheckedSteps, MemberSteps
<1>5. ~NotFound(c)
  BY DEF NotFound
<1>6. CASE RequestFault(c)
  <2>1. InsertProjectLost(c)
    BY <1>6 DEF RequestFault, FailStatement, AddOwnerLost, AddAdminLost, RotateLost, WriteRotated,
                At, CheckedSteps, MemberSteps
  <2> QED
    BY <2>1 DEF InsertProjectLost, Insert
<1>7. ASSUME NEW o \in Orgs, CreateOrgLost(o)
      PROVE  FALSE
  BY <1>7 DEF CreateOrgLost
<1>8. ~Crash /\ ~UNCHANGED vars
  BY DEF Crash, vars
<1> QED
  BY <1>1, <1>2, <1>3, <1>4, <1>5, <1>6, <1>7, <1>8 DEF Next

\* Whoever acts on an organisation holds the role the route demands, except
\* when that role was changed after the middleware had read it.
THEOREM RolesRespected == Spec => ActsWithRole
<1>1. TypeInv /\ RoleInv /\ [Next]_vars =>
        [\A c \in Clients :
          (/\ req[c].step \in {"deleteOrg", "addMember", "changeRole", "removeMember",
                                "insertProject"}
           /\ req'[c] # req[c] /\ tables' # tables)
          => \/ AtLeast(role[req[c].org][req[c].user], NeededRole(req[c].step))
             \/ c \in outdated]_vars
  BY WritesToLive DEF RoleInv, Entitled, NeededRole, MinRole, CheckedSteps, MemberSteps
<1> QED
  BY <1>1, TypeInit, TypeStep, RoleInit, RoleStep, PTL DEF Spec, ActsWithRole

(***************************************************************************)
(* Owners.  OwnedUntilDisowned is inductive as it stands.                  *)
(***************************************************************************)
Creating == {"addOwner", "dropOrg"}

\* A step that leaves organisations and members alone, and no request of a
\* creation without a trace.
LEMMA OwnedFrame ==
    ASSUME OwnedUntilDisowned, UNCHANGED <<org, role>>,
           disowned \subseteq disowned', lost \subseteq lost', failed \subseteq failed',
           \A c \in Clients : req[c].step \in Creating =>
               \/ req'[c].step \in Creating /\ req'[c].org = req[c].org
               \/ req[c].org \in lost' \cup failed'
    PROVE  OwnedUntilDisowned'
BY DEF OwnedUntilDisowned, Owners, Creating

\* The request of c goes on, and is not about the creation of an organisation.
LEMMA OwnedOther ==
    ASSUME TypeInv, OwnedUntilDisowned, UNCHANGED <<org, role, disowned>>,
           lost \subseteq lost', failed \subseteq failed',
           NEW c \in Clients, req[c].step \notin Creating,
           \A d \in Clients \ {c} : req'[d] = req[d]
    PROVE  OwnedUntilDisowned'
BY OwnedFrame

\* The other requests, when that of c is at another step or answered.
LEMMA Others ==
    ASSUME TypeInv, NEW c \in Clients,
           \/ \E r : req' = [req EXCEPT ![c] = r]
           \/ \E s : req' = [req EXCEPT ![c].step = s]
           \/ \E s, k : req' = [req EXCEPT ![c].step = s, ![c].key = k]
    PROVE  \A d \in Clients \ {c} : req'[d] = req[d]
BY DEF TypeInv, RequestsOK

LEMMA CreateOwned ==
    ASSUME TypeInv, OwnedUntilDisowned, NEW c \in Clients, CreateRequest(c)
    PROVE  OwnedUntilDisowned'
<1>0. /\ DOMAIN req = Clients /\ DOMAIN org = Orgs /\ WellFormed(req[c])
      /\ role \in [Orgs -> [Users -> Roles \cup {None}]]
  BY DEF TypeInv, RequestsOK, TablesOK
<1>1. ASSUME NEW u \in Users, NEW o \in Orgs, CreateOrg(c, u, o)
      PROVE  OwnedUntilDisowned'
  <2>1. req'[c].step = "addOwner" /\ req'[c].org = o /\ req[c].step = "idle"
    BY <1>0, <1>1 DEF CreateOrg, NoRequest, At
  <2>2. \A d \in Clients \ {c} : req'[d] = req[d]
    BY <1>1, Others DEF CreateOrg
  <2>3. \A p \in Orgs \ {o} : org'[p] = org[p]
    BY <1>0, <1>1 DEF CreateOrg
  <2>4. UNCHANGED <<role, disowned, lost, failed>>
    BY <1>1 DEF CreateOrg, history
  <2> QED
    BY <2>1, <2>2, <2>3, <2>4 DEF OwnedUntilDisowned, Owners
<1>2. CASE AddOwner(c)
  <2> DEFINE o == req[c].org
             u == req[c].user
  <2>1. o \in Orgs /\ u \in Users
    BY <1>0, <1>2 DEF WellFormed, AddOwner, At
  <2>2. /\ role' = [role EXCEPT ![o][u] = "owner"]
        /\ UNCHANGED <<org, disowned, lost, failed>>
    BY <1>2 DEF AddOwner, Upsert, FirstRole
  <2>3. role'[o][u] = "owner" /\ \A p \in Orgs \ {o} : role'[p] = role[p]
    BY <1>0, <2>1, <2>2
  <2>4. \A d \in Clients \ {c} : req'[d] = req[d]
    BY <1>2, Others DEF AddOwner, Answered, Done
  <2> QED
    BY <2>1, <2>2, <2>3, <2>4 DEF OwnedUntilDisowned, Owners
<1>3. CASE DropOrg(c)
  <2> DEFINE o == req[c].org
  <2>1. o \in Orgs
    BY <1>0, <1>3 DEF WellFormed, DropOrg, At
  <2>2. /\ org'[o] = "deleted"
        /\ \A p \in Orgs \ {o} : org'[p] = org[p] /\ role'[p] = role[p]
    BY <1>0, <1>3, <2>1 DEF DropOrg, CleanedUp, Cascade
  <2>3. \A d \in Clients \ {c} : req'[d] = req[d]
    BY <1>3, Others DEF DropOrg, Answered, Done
  <2>4. failed \subseteq failed' /\ UNCHANGED <<disowned, lost>>
    BY <1>3 DEF DropOrg
  <2> QED
    BY <2>1, <2>2, <2>3, <2>4 DEF OwnedUntilDisowned, Owners
<1>4. CASE \/ \E u \in Users, o \in Orgs, p \in Projects : CheckCreateProject(c, u, o, p)
           \/ InsertProject(c) \/ AddAdmin(c) \/ AddAdminRefused(c) \/ DropProject(c)
  <2>1. req[c].step \notin Creating
    BY <1>4 DEF CheckCreateProject, InsertProject, Insert, AddAdmin, AddAdminRefused,
                DropProject, At, Creating
  <2>2. \A d \in Clients \ {c} : req'[d] = req[d]
    BY <1>4, Others DEF CheckCreateProject, InsertProject, AddAdmin, AddAdminRefused,
                        DropProject, Answered, Done, Goto
  <2>3. UNCHANGED <<org, role, disowned, lost>> /\ failed \subseteq failed'
    BY <1>4 DEF CheckCreateProject, InsertProject, AddAdmin, AddAdminRefused, DropProject,
                tables, history
  <2> QED
    BY <2>1, <2>2, <2>3, OwnedOther
<1> QED
  BY <1>1, <1>2, <1>3, <1>4 DEF CreateRequest

LEMMA OrgOwned ==
    ASSUME TypeInv, OwnedUntilDisowned, NEW c \in Clients, OrgRequest(c)
    PROVE  OwnedUntilDisowned'
<1>0. /\ DOMAIN org = Orgs /\ WellFormed(req[c])
      /\ role \in [Orgs -> [Users -> Roles \cup {None}]]
  BY DEF TypeInv, RequestsOK, TablesOK
<1>1. ASSUME NEW u \in Users, NEW o \in Orgs, NEW step, CheckOrgRole(c, u, o, step)
      PROVE  OwnedUntilDisowned'
  <2>1. req[c].step \notin Creating
    BY <1>1 DEF CheckOrgRole, At, Creating
  <2>2. \A d \in Clients \ {c} : req'[d] = req[d]
    BY <1>1, Others DEF CheckOrgRole
  <2> QED
    BY <1>1, <2>1, <2>2, OwnedOther DEF CheckOrgRole, tables, history
<1>2. CASE AddMember(c) \/ ChangeRole(c) \/ RemoveMember(c)
  <2>1. org' = org /\ MembersChanged(c)
    BY <1>2 DEF AddMember, ChangeRole, RemoveMember
  <2>2. req[c].step \notin Creating
    BY <1>2 DEF AddMember, ChangeRole, RemoveMember, At, Creating
  <2>3. \A d \in Clients \ {c} : req'[d] = req[d]
    BY <2>1, Others DEF MembersChanged, Done
  <2>4. ASSUME NEW o \in Orgs, Owners(o) # {}
        PROVE  Owners(o)' # {} \/ o \in disowned'
    BY <2>1, <2>4 DEF MembersChanged, Owners
  <2>5. disowned \subseteq disowned' /\ UNCHANGED <<failed, lost>>
    BY <2>1 DEF MembersChanged
  <2>6. ASSUME NEW o \in Orgs, NEW d \in Clients, req[d].step \in Creating, req[d].org = o
        PROVE  \E e \in Clients : req'[e].step \in Creating /\ req'[e].org = o
    BY <2>2, <2>3, <2>6
  <2> QED
    BY <2>1, <2>4, <2>5, <2>6 DEF OwnedUntilDisowned, Creating
<1>3. CASE DeleteOrg(c)
  <2> DEFINE o == req[c].org
  <2>1. o \in Orgs /\ c \in Clients /\ req[c].step = "deleteOrg"
    BY <1>0, <1>3 DEF WellFormed, DeleteOrg, At, CheckedSteps
  <2>2. /\ org'[o] = "deleted"
        /\ \A p \in Orgs \ {o} : org'[p] = org[p] /\ role'[p] = role[p]
    BY <1>0, <1>3, <2>1 DEF DeleteOrg, Cascade
  <2>3. \A d \in Clients \ {c} : req'[d] = req[d]
    BY <1>3, Others DEF DeleteOrg, Done
  <2>4. UNCHANGED <<failed, disowned, lost>>
    BY <1>3 DEF DeleteOrg
  <2> QED
    BY <2>1, <2>2, <2>3, <2>4 DEF OwnedUntilDisowned, Owners
<1> QED
  BY <1>1, <1>2, <1>3 DEF OrgRequest

LEMMA FaultOwned ==
    ASSUME TypeInv, OwnedUntilDisowned, NEW c \in Clients, RequestFault(c)
    PROVE  OwnedUntilDisowned'
<1>0. /\ DOMAIN req = Clients /\ req[c] \in Request /\ WellFormed(req[c])
      /\ role \in [Orgs -> [Users -> Roles \cup {None}]]
  BY DEF TypeInv, RequestsOK, TablesOK, WellFormed
<1>1. CASE FailStatement(c)
  <2>1. UNCHANGED <<org, role, disowned, lost>>
    BY <1>1 DEF FailStatement, tables
  <2>2. \A d \in Clients \ {c} : req'[d] = req[d]
    BY <1>1, Others DEF FailStatement, Goto, Answered, Done
  <2>3. failed \subseteq failed'
    BY <1>1 DEF FailStatement
  <2>4. CASE At(c, "addOwner")
    <3>1. req'[c].step = "dropOrg" /\ req'[c].org = req[c].org
      BY <1>0, <1>1, <2>4 DEF FailStatement, Goto, At, Request
    <3> QED
      BY <2>1, <2>2, <2>3, <3>1, OwnedFrame DEF Creating
  <2>5. CASE At(c, "dropOrg")
    <3>1. req[c].org \in failed'
      BY <1>1, <2>5 DEF FailStatement, At
    <3> QED
      BY <2>1, <2>2, <2>3, <3>1, OwnedFrame
  <2>6. CASE req[c].step \notin Creating
    BY <2>1, <2>2, <2>3, <2>6, OwnedOther
  <2> QED
    BY <2>4, <2>5, <2>6 DEF At, Creating
<1>2. CASE AddOwnerLost(c)
  <2>1. req[c].org \in Orgs /\ req[c].user \in Users
    BY <1>0, <1>2 DEF WellFormed, AddOwnerLost, At
  <2>2. /\ role' = [role EXCEPT ![req[c].org][req[c].user] = "owner"]
        /\ lost' = lost \cup {req[c].org} /\ UNCHANGED <<org, disowned, failed>>
    BY <1>2 DEF AddOwnerLost, Upsert
  <2>3. \A p \in Orgs \ {req[c].org} : role'[p] = role[p]
    BY <1>0, <2>1, <2>2
  <2>4. \A d \in Clients \ {c} : req'[d] = req[d]
    BY <1>2, Others DEF AddOwnerLost, Goto
  <2> QED
    BY <2>1, <2>2, <2>3, <2>4 DEF OwnedUntilDisowned, Owners
<1>3. CASE InsertProjectLost(c) \/ AddAdminLost(c) \/ RotateLost(c)
  <2>1. req[c].step \notin Creating
    BY <1>3 DEF InsertProjectLost, Insert, AddAdminLost, RotateLost, WriteRotated, At, Creating
  <2>2. \A d \in Clients \ {c} : req'[d] = req[d]
    BY <1>3, Others DEF InsertProjectLost, AddAdminLost, RotateLost, Answered, Done, Goto
  <2> QED
    BY <1>3, <2>1, <2>2, OwnedOther DEF InsertProjectLost, AddAdminLost, RotateLost
<1> QED
  BY <1>1, <1>2, <1>3 DEF RequestFault

LEMMA OwnedStep == TypeInv /\ OwnedUntilDisowned /\ [Next]_vars => OwnedUntilDisowned'
<1> SUFFICES ASSUME TypeInv, OwnedUntilDisowned, [Next]_vars
             PROVE  OwnedUntilDisowned'
  OBVIOUS
<1>1. ASSUME NEW c \in Clients, ProjectRequest(c)
      PROVE  OwnedUntilDisowned'
  <2>1. req[c].step \notin Creating
    BY <1>1 DEF ProjectRequest, CheckProjectRole, ReadProject, UpdateProject, RotateAPIKey,
                WriteRotated, DeleteProject, At, Creating
  <2>2. CASE ReadProject(c)
    <3>1. \A d \in Clients \ {c} : req'[d] = req[d]
      BY <2>2 DEF ReadProject, TypeInv, RequestsOK
    <3> QED
      BY <2>1, <2>2, <3>1, OwnedOther DEF ReadProject, tables, history
  <2>3. CASE ~ReadProject(c)
    <3>1. \A d \in Clients \ {c} : req'[d] = req[d]
      BY <1>1, <2>3, Others DEF ProjectRequest, CheckProjectRole, UpdateProject, RotateAPIKey,
                                DeleteProject, Answered, Done
    <3>2. UNCHANGED <<org, role, disowned, lost, failed>>
      BY <1>1, <2>3 DEF ProjectRequest, CheckProjectRole, UpdateProject, RotateAPIKey,
                        DeleteProject, tables, history
    <3> QED
      BY <2>1, <3>1, <3>2, OwnedOther
  <2> QED
    BY <2>2, <2>3
<1>2. ASSUME NEW c \in Clients, NotFound(c)
      PROVE  OwnedUntilDisowned'
  <2>1. req[c].step \notin Creating
    BY <1>2 DEF NotFound, Gone, Creating
  <2>2. \A d \in Clients \ {c} : req'[d] = req[d]
    BY <1>2, Others DEF NotFound, Answered, Done
  <2> QED
    BY <1>2, <2>1, <2>2, OwnedOther DEF NotFound, tables
<1>3. ASSUME NEW o \in Orgs, CreateOrgLost(o)
      PROVE  OwnedUntilDisowned'
  <2>1. \A p \in Orgs \ {o} : org'[p] = org[p]
    BY <1>3 DEF CreateOrgLost, TypeInv, TablesOK
  <2> QED
    BY <1>3, <2>1 DEF CreateOrgLost, OwnedUntilDisowned, Owners
<1>4. CASE Crash
  <2>1. \A c \in Clients : req[c].step \in Creating => req[c].org \in lost'
    BY <1>4 DEF Crash, Creating
  <2> QED
    BY <1>4, <2>1, OwnedFrame DEF Crash, tables
<1>5. CASE UNCHANGED vars
  BY <1>5, OwnedFrame DEF vars, tables, history
<1> QED
  BY <1>1, <1>2, <1>3, <1>4, <1>5, CreateOwned, OrgOwned, FaultOwned DEF Next

\* An organisation in use has an owner, or is being created, or was hit by a
\* fault of its creation, or its admins have taken the last owner away.
THEOREM OrganisationsOwned == Spec => []OwnedUntilDisowned
<1>1. Init => OwnedUntilDisowned
  BY DEF Init, OwnedUntilDisowned
<1> QED
  BY <1>1, TypeInit, TypeStep, OwnedStep, PTL DEF Spec

(***************************************************************************)
(* Cleanup.  A creation goes over to its deletion only by a fault or when  *)
(* the organisation is gone already, and no other request creates the same *)
(* row; so what is refused after one fault is gone for good.               *)
(***************************************************************************)
Making == {"insertProject", "addAdmin", "dropProject"}

CleanInv ==
    /\ \A x \in failed \ lost :
         faults < 2 => IF x \in Orgs THEN org[x] = "deleted" ELSE ~LiveProject(x)
    /\ \A c \in Clients :
         /\ req[c].step = "dropOrg" => faults > 0
         /\ req[c].step = "dropProject" => faults > 0 \/ ~LiveProject(req[c].project)
         /\ req[c].step = "insertProject" => req[c].project \notin failed
    /\ \A c, d \in Clients :
         req[c].step \in Making /\ req[d].step \in Making /\ req[c].project = req[d].project
            => c = d

LEMMA CleanInit == Init => CleanInv
BY DEF Init, CleanInv, Making, NoRequest

\* There is no row of the project after the step.
GoneThen(p) == project'[p].org = None

\* What every step but the admission of a creation does: nothing deleted comes
\* back, except that an INSERT brings its project to life; what is refused now is
\* gone, or hit by a lost answer, or the second fault has happened.
Frame ==
    /\ faults' \in Nat /\ faults <= faults' /\ lost \subseteq lost'
    /\ \A o \in Orgs : org[o] = "deleted" => org'[o] = "deleted"
    /\ \A p \in Projects : ~LiveProject(p) =>
         \/ GoneThen(p)
         \/ \E c \in Clients : req[c].step = "insertProject" /\ req[c].project = p
    /\ \A x \in failed' \ failed :
         /\ x \in Orgs \cup Projects
         /\ \/ x \in lost' \/ faults' > 1
            \/ IF x \in Orgs THEN org'[x] = "deleted" ELSE GoneThen(x)

\* And what becomes of a request by it.
Stays(c) ==
    /\ req'[c] = req[c]
    /\ req[c].step = "insertProject" => req[c].project \notin failed' \ failed
Leaves(c) == req'[c].step \notin Making \cup {"dropOrg"}
Advances(c) ==
    /\ req[c].step \in Making /\ req'[c].step \in Making \ {"insertProject"}
    /\ req'[c].project = req[c].project
    /\ req'[c].step = "dropProject" => faults' > 0 \/ GoneThen(req[c].project)
DropsOrg(c) == req'[c].step = "dropOrg" /\ faults' > 0

LEMMA CleanFrame ==
    ASSUME TypeInv, CleanInv, Frame,
           \A c \in Clients : Stays(c) \/ Leaves(c) \/ Advances(c) \/ DropsOrg(c)
    PROVE  CleanInv'
<1>1. \A c \in Clients : req[c].step \in Making => req[c].project \in Projects
  BY DEF TypeInv, RequestsOK, WellFormed, ProjectSteps, Making
<1>2. \A x \in failed : x \in Orgs \/ x \in Projects
  BY DEF TypeInv, HistoryOK
<1>3. faults \in Nat
  BY DEF TypeInv, HistoryOK
<1>4. ASSUME NEW x \in failed' \ lost', faults' < 2
      PROVE  IF x \in Orgs THEN org'[x] = "deleted" ELSE GoneThen(x)
  <2>1. CASE x \in failed
    <3>1. faults < 2 /\ x \in failed \ lost
      BY <1>3, <1>4, <2>1 DEF Frame
    <3>2. ~\E c \in Clients : req[c].step = "insertProject" /\ req[c].project = x
      BY <2>1 DEF CleanInv
    <3> QED
      BY <1>2, <2>1, <3>1, <3>2 DEF Frame, CleanInv, GoneThen, LiveProject
  <2>2. CASE x \notin failed
    BY <1>4, <2>2 DEF Frame
  <2> QED
    BY <2>1, <2>2
<1>5. ASSUME NEW c \in Clients
      PROVE  /\ req'[c].step = "dropOrg" => faults' > 0
             /\ req'[c].step = "dropProject" => faults' > 0 \/ GoneThen(req'[c].project)
             /\ req'[c].step = "insertProject" => req'[c].project \notin failed'
  <2>1. CASE Stays(c)
    <3>1. ASSUME req[c].step = "dropProject"
          PROVE  faults' > 0 \/ GoneThen(req[c].project)
      <4>1. CASE faults > 0
        BY <1>3, <4>1 DEF Frame
      <4>2. CASE ~LiveProject(req[c].project)
        <5>1. ~\E d \in Clients : req[d].step = "insertProject" /\ req[d].project = req[c].project
          BY <3>1 DEF CleanInv, Making
        <5> QED
          BY <1>1, <3>1, <4>2, <5>1 DEF Frame, Making
      <4> QED
        BY <3>1, <4>1, <4>2 DEF CleanInv
    <3>2. req[c].step = "dropOrg" => faults' > 0
      BY <1>3 DEF CleanInv, Frame
    <3> QED
      BY <2>1, <3>1, <3>2 DEF Stays, CleanInv
  <2>2. CASE Leaves(c) \/ Advances(c) \/ DropsOrg(c)
    BY <2>2 DEF Leaves, Advances, DropsOrg, Making
  <2> QED
    BY <2>1, <2>2
<1>6. ASSUME NEW c \in Clients, NEW d \in Clients,
             req'[c].step \in Making, req'[d].step \in Making, req'[c].project = req'[d].project
      PROVE  c = d
  <2>1. \A e \in Clients : req'[e].step \in Making =>
          req[e].step \in Making /\ req'[e].project = req[e].project
    BY DEF Stays, Leaves, Advances, DropsOrg, Making
  <2> QED
    BY <1>6, <2>1 DEF CleanInv
<1> QED
  BY <1>4, <1>5, <1>6 DEF CleanInv, GoneThen, LiveProject

\* Steps that delete at most, and refuse nothing.
Quiet ==
    /\ UNCHANGED <<failed, faults>> /\ lost \subseteq lost'
    /\ \A o \in Orgs : org[o] = "deleted" => org'[o] = "deleted"
    /\ \A p \in Projects : ~LiveProject(p) => GoneThen(p)

LEMMA QuietFrame == TypeInv /\ Quiet => Frame
BY DEF TypeInv, HistoryOK, Quiet, Frame

LEMMA CascadeGone ==
    ASSUME TypeInv, NEW o \in Orgs, Cascade(o)
    PROVE  \A p \in Projects : ~LiveProject(p) => GoneThen(p)
BY DEF TypeInv, TablesOK, Cascade, LiveProject, GoneThen

LEMMA RemoveGone ==
    ASSUME TypeInv, NEW p \in Projects, Remove(p)
    PROVE  /\ GoneThen(p)
           /\ \A q \in Projects : ~LiveProject(q) => GoneThen(q)
BY DEF TypeInv, TablesOK, Remove, LiveProject, GoneThen

LEMMA KeyOnly ==
    ASSUME TypeInv, NEW p \in Projects, NEW k, project' = [project EXCEPT ![p].key = k]
    PROVE  \A q \in Projects : ~LiveProject(q) => GoneThen(q)
BY DEF TypeInv, TablesOK, LiveProject, GoneThen

\* One request is answered, the others stay.
LEMMA AnsweredLeaves ==
    ASSUME TypeInv, NEW c \in Clients, req' = [req EXCEPT ![c] = NoRequest]
    PROVE  /\ Leaves(c)
           /\ \A d \in Clients \ {c} : req'[d] = req[d]
BY DEF TypeInv, RequestsOK, NoRequest, Leaves, Making

LEMMA CleanQuiet ==
    ASSUME TypeInv, CleanInv, Quiet, NEW c \in Clients,
           Leaves(c) \/ Advances(c) \/ DropsOrg(c),
           \A d \in Clients \ {c} : req'[d] = req[d]
    PROVE  CleanInv'
<1>1. \A d \in Clients : Stays(d) \/ Leaves(d) \/ Advances(d) \/ DropsOrg(d)
  BY DEF Stays, Quiet
<1> QED
  BY <1>1, QuietFrame, CleanFrame

\* A creation is refused: no other request is about to insert the same row.
LEMMA CleanRefused ==
    ASSUME TypeInv, CleanInv, Frame, NEW c \in Clients, Leaves(c),
           \A d \in Clients \ {c} : req'[d] = req[d],
           \A x \in failed' \ failed : \/ x \in Orgs
                                       \/ req[c].step \in Making /\ x = req[c].project
    PROVE  CleanInv'
<1>1. ASSUME NEW d \in Clients \ {c}
      PROVE  Stays(d)
  <2>1. req[d].step = "insertProject" => req[d].project \in Projects
    BY DEF TypeInv, RequestsOK, WellFormed, ProjectSteps
  <2> QED
    BY <2>1, ConstantsAssumption DEF Stays, CleanInv, Making
<1> QED
  BY <1>1, CleanFrame

LEMMA CreateClean ==
    ASSUME TypeInv, CleanInv, NEW c \in Clients, CreateRequest(c)
    PROVE  CleanInv'
<1>0. /\ DOMAIN req = Clients /\ DOMAIN org = Orgs /\ faults \in Nat
      /\ WellFormed(req[c]) /\ req[c] \in Request
  BY DEF TypeInv, RequestsOK, TablesOK, HistoryOK, WellFormed
<1>1. ASSUME NEW u \in Users, NEW o \in Orgs, CreateOrg(c, u, o)
      PROVE  CleanInv'
  <2>1. Leaves(c)
    BY <1>0, <1>1 DEF CreateOrg, NoRequest, Leaves, Making
  <2>2. \A d \in Clients \ {c} : req'[d] = req[d]
    BY <1>1, Others DEF CreateOrg
  <2>3. Quiet
    BY <1>0, <1>1 DEF CreateOrg, Quiet, history, GoneThen, LiveProject
  <2> QED
    BY <2>1, <2>2, <2>3, CleanQuiet
<1>2. CASE AddOwner(c) \/ AddAdmin(c)
  <2>1. Quiet
    BY <1>2 DEF AddOwner, AddAdmin, Quiet, GoneThen, LiveProject
  <2> QED
    BY <1>2, <2>1, AnsweredLeaves, CleanQuiet DEF AddOwner, AddAdmin, Answered, Done
<1>3. CASE DropOrg(c)
  <2>1. req[c].org \in Orgs
    BY <1>0, <1>3 DEF WellFormed, DropOrg, At
  <2>2. \A o \in Orgs : org'[o] = IF o = req[c].org THEN "deleted" ELSE org[o]
    BY <1>0, <1>3, <2>1 DEF DropOrg, CleanedUp
  <2>3. \A p \in Projects : ~LiveProject(p) => GoneThen(p)
    BY <1>3, <2>1, CascadeGone DEF DropOrg
  <2>4. failed' = failed \cup {req[c].org} /\ UNCHANGED <<lost, faults>>
    BY <1>3 DEF DropOrg
  <2>5. Frame
    BY <1>0, <2>1, <2>2, <2>3, <2>4 DEF Frame
  <2> QED
    BY <1>3, <2>1, <2>4, <2>5, AnsweredLeaves, CleanRefused DEF DropOrg, Answered, Done
<1>4. ASSUME NEW u \in Users, NEW o \in Orgs, NEW p \in Projects, CheckCreateProject(c, u, o, p)
      PROVE  CleanInv'
  <2>1. req'[c].step = "insertProject" /\ req'[c].project = p
    BY <1>0, <1>4 DEF CheckCreateProject, NoRequest
  <2>2. \A d \in Clients \ {c} : req'[d] = req[d]
    BY <1>4, Others DEF CheckCreateProject
  <2>3. p \notin failed /\ \A d \in Clients : req[d].project # p
    BY <1>4 DEF CheckCreateProject, Fresh
  <2>4. UNCHANGED <<org, project, failed, lost, faults>>
    BY <1>4 DEF CheckCreateProject, tables, history
  <2> QED
    BY <2>1, <2>2, <2>3, <2>4 DEF CleanInv, LiveProject
<1>5. CASE InsertProject(c)
  <2>1. Insert(c) /\ req[c].step = "insertProject"
    BY <1>5 DEF InsertProject, Insert, At
  <2>2. req[c].project \in Projects
    BY <1>0, <2>1 DEF WellFormed, ProjectSteps
  <2>3. Advances(c)
    BY <1>0, <1>5, <2>1 DEF InsertProject, Advances, Making, Request
  <2>4. \A d \in Clients \ {c} : req'[d] = req[d]
    BY <1>5, Others DEF InsertProject
  <2>5. \A q \in Projects \ {req[c].project} : project'[q] = project[q]
    BY <2>1, <2>2 DEF Insert, TypeInv, TablesOK
  <2>6. UNCHANGED <<org, failed, lost, faults>>
    BY <1>5 DEF InsertProject, history
  <2>7. Frame
    BY <1>0, <2>1, <2>5, <2>6 DEF Frame, GoneThen, LiveProject
  <2>8. \A d \in Clients : Stays(d) \/ Advances(d)
    BY <2>3, <2>4, <2>6 DEF Stays
  <2> QED
    BY <2>7, <2>8, CleanFrame
<1>6. CASE AddAdminRefused(c)
  <2>1. req'[c].step = "dropProject" /\ req'[c].project = req[c].project /\ req[c].step = "addAdmin"
    BY <1>0, <1>6 DEF AddAdminRefused, Goto, At, Request
  <2>2. \A d \in Clients \ {c} : req'[d] = req[d]
    BY <1>6, Others DEF AddAdminRefused, Goto
  <2>3. Quiet /\ GoneThen(req[c].project)
    BY <1>6 DEF AddAdminRefused, tables, history, Quiet, GoneThen, LiveProject
  <2>4. Advances(c)
    BY <2>1, <2>3 DEF Advances, Making
  <2> QED
    BY <2>2, <2>3, <2>4, CleanQuiet
<1>7. CASE DropProject(c)
  <2>1. req[c].project \in Projects /\ req[c].step = "dropProject"
    BY <1>0, <1>7 DEF WellFormed, DropProject, At, ProjectSteps
  <2>2. /\ GoneThen(req[c].project)
        /\ \A q \in Projects : ~LiveProject(q) => GoneThen(q)
    BY <1>7, <2>1, RemoveGone DEF DropProject
  <2>3. failed' = failed \cup {req[c].project} /\ UNCHANGED <<org, lost, faults>>
    BY <1>7 DEF DropProject
  <2>4. req[c].project \notin Orgs
    BY <2>1, ConstantsAssumption
  <2>5. Frame
    BY <1>0, <2>1, <2>2, <2>3, <2>4 DEF Frame
  <2> QED
    BY <1>7, <2>1, <2>3, <2>5, AnsweredLeaves, CleanRefused
       DEF DropProject, Answered, Done, Making
<1> QED
  BY <1>1, <1>2, <1>3, <1>4, <1>5, <1>6, <1>7 DEF CreateRequest

LEMMA OrgClean ==
    ASSUME TypeInv, CleanInv, NEW c \in Clients, OrgRequest(c)
    PROVE  CleanInv'
<1>0. DOMAIN req = Clients /\ DOMAIN org = Orgs /\ WellFormed(req[c])
  BY DEF TypeInv, RequestsOK, TablesOK
<1>1. ASSUME NEW u \in Users, NEW o \in Orgs, NEW step \in MemberSteps \cup {"deleteOrg"},
             CheckOrgRole(c, u, o, step)
      PROVE  CleanInv'
  <2>1. req'[c].step = step /\ step \notin Making \cup {"dropOrg"}
    BY <1>0, <1>1 DEF CheckOrgRole, NoRequest, Making, MemberSteps
  <2>2. \A d \in Clients \ {c} : req'[d] = req[d]
    BY <1>1, Others DEF CheckOrgRole
  <2>3. Quiet
    BY <1>1 DEF CheckOrgRole, tables, history, Quiet, GoneThen, LiveProject
  <2> QED
    BY <2>1, <2>2, <2>3, CleanQuiet DEF Leaves
<1>2. CASE AddMember(c) \/ ChangeRole(c) \/ RemoveMember(c)
  <2>1. Quiet
    BY <1>2 DEF AddMember, ChangeRole, RemoveMember, MembersChanged, Quiet, GoneThen, LiveProject
  <2> QED
    BY <1>2, <2>1, AnsweredLeaves, CleanQuiet
       DEF AddMember, ChangeRole, RemoveMember, MembersChanged, Done
<1>3. CASE DeleteOrg(c)
  <2>1. req[c].org \in Orgs
    BY <1>0, <1>3 DEF WellFormed, DeleteOrg, At, CheckedSteps
  <2>2. \A o \in Orgs : org'[o] = IF o = req[c].org THEN "deleted" ELSE org[o]
    BY <1>0, <1>3, <2>1 DEF DeleteOrg
  <2>3. Quiet
    BY <1>3, <2>1, <2>2, CascadeGone DEF DeleteOrg, Quiet
  <2> QED
    BY <1>3, <2>3, AnsweredLeaves, CleanQuiet DEF DeleteOrg, Done
<1> QED
  BY <1>1, <1>2, <1>3 DEF OrgRequest, MemberSteps

LEMMA ProjectClean ==
    ASSUME TypeInv, CleanInv, NEW c \in Clients, ProjectRequest(c)
    PROVE  CleanInv'
<1>0. DOMAIN req = Clients /\ WellFormed(req[c]) /\ req[c] \in Request
  BY DEF TypeInv, RequestsOK, WellFormed
<1>1. ASSUME NEW u \in Users, NEW p \in Projects,
             NEW step \in {"readUpdate", "readRotate", "deleteProject"},
             CheckProjectRole(c, u, p, step)
      PROVE  CleanInv'
  <2>1. req'[c].step = step /\ step \notin Making \cup {"dropOrg"}
    BY <1>0, <1>1 DEF CheckProjectRole, NoRequest, Making
  <2>2. \A d \in Clients \ {c} : req'[d] = req[d]
    BY <1>1, Others DEF CheckProjectRole
  <2>3. Quiet
    BY <1>1 DEF CheckProjectRole, tables, history, Quiet, GoneThen, LiveProject
  <2> QED
    BY <2>1, <2>2, <2>3, CleanQuiet DEF Leaves
<1>2. CASE ReadProject(c)
  <2>1. req'[c].step \in {"writeUpdate", "writeRotate"}
    BY <1>0, <1>2 DEF ReadProject, Request
  <2>2. \A d \in Clients \ {c} : req'[d] = req[d]
    BY <1>0, <1>2 DEF ReadProject, TypeInv, RequestsOK
  <2>3. Quiet
    BY <1>2 DEF ReadProject, tables, history, Quiet, GoneThen, LiveProject
  <2> QED
    BY <2>1, <2>2, <2>3, CleanQuiet DEF Leaves, Making
<1>3. CASE UpdateProject(c) \/ RotateAPIKey(c)
  <2>1. req[c].project \in Projects
    BY <1>0, <1>3 DEF WellFormed, UpdateProject, RotateAPIKey, WriteRotated, At, ProjectSteps
  <2>2. Quiet
    BY <1>3, <2>1, KeyOnly DEF UpdateProject, RotateAPIKey, WriteRotated, Quiet
  <2> QED
    BY <1>3, <2>2, AnsweredLeaves, CleanQuiet DEF UpdateProject, RotateAPIKey, Answered, Done
<1>4. CASE DeleteProject(c)
  <2>1. req[c].project \in Projects
    BY <1>0, <1>4 DEF WellFormed, DeleteProject, At, ProjectSteps
  <2>2. Quiet
    BY <1>4, <2>1, RemoveGone DEF DeleteProject, Quiet
  <2> QED
    BY <1>4, <2>2, AnsweredLeaves, CleanQuiet DEF DeleteProject, Answered, Done
<1> QED
  BY <1>1, <1>2, <1>3, <1>4 DEF ProjectRequest

LEMMA FaultClean ==
    ASSUME TypeInv, CleanInv, NEW c \in Clients, RequestFault(c)
    PROVE  CleanInv'
<1>0. /\ DOMAIN req = Clients /\ faults \in Nat
      /\ WellFormed(req[c]) /\ req[c] \in Request
  BY DEF TypeInv, RequestsOK, HistoryOK, WellFormed
<1>1. faults' = faults + 1
  BY DEF RequestFault, FailStatement, AddOwnerLost, InsertProjectLost, AddAdminLost, RotateLost,
         Fault
<1>2. faults' > 0 /\ (faults > 0 => faults' > 1) /\ faults' \in Nat /\ faults <= faults'
  BY <1>0, <1>1
<1>3. CASE FailStatement(c)
  <2>1. UNCHANGED <<org, project, lost>>
    BY <1>3 DEF FailStatement, tables
  <2>2. \A d \in Clients \ {c} : req'[d] = req[d]
    BY <1>3, Others DEF FailStatement, Goto, Answered, Done
  <2>3. CASE At(c, "addOwner") \/ At(c, "addAdmin")
    <3>1. DropsOrg(c) \/ Advances(c)
      BY <1>0, <1>2, <1>3, <2>3 DEF FailStatement, Goto, At, Request, DropsOrg, Advances, Making
    <3>2. failed' = failed
      BY <1>3, <2>3 DEF FailStatement, At
    <3>3. Frame
      BY <1>2, <2>1, <3>2 DEF Frame, GoneThen, LiveProject
    <3>4. \A d \in Clients : Stays(d) \/ DropsOrg(d) \/ Advances(d)
      BY <2>2, <3>1, <3>2 DEF Stays
    <3> QED
      BY <3>3, <3>4, CleanFrame
  <2>4. CASE At(c, "dropOrg")
    <3>1. req[c].org \in Orgs /\ faults > 0
      BY <1>0, <2>4 DEF WellFormed, At, CleanInv
    <3>2. failed' = failed \cup {req[c].org} /\ req' = [req EXCEPT ![c] = NoRequest]
      BY <1>3, <2>4 DEF FailStatement, At, Answered, Done
    <3>3. Frame
      BY <1>2, <2>1, <3>1, <3>2 DEF Frame, GoneThen, LiveProject
    <3> QED
      BY <3>1, <3>2, <3>3, AnsweredLeaves, CleanRefused
  <2>5. CASE At(c, "dropProject")
    <3>1. req[c].project \in Projects /\ req[c].step = "dropProject"
      BY <1>0, <2>5 DEF WellFormed, At, ProjectSteps
    <3>2. failed' = failed \cup {req[c].project} /\ req' = [req EXCEPT ![c] = NoRequest]
      BY <1>3, <2>5 DEF FailStatement, At, Answered, Done
    <3>3. faults > 0 \/ ~LiveProject(req[c].project)
      BY <3>1 DEF CleanInv
    <3>4. req[c].project \notin Orgs
      BY <3>1, ConstantsAssumption
    <3>5. Frame
      BY <1>2, <2>1, <3>1, <3>2, <3>3, <3>4 DEF Frame, GoneThen, LiveProject
    <3> QED
      BY <3>1, <3>2, <3>5, AnsweredLeaves, CleanRefused DEF Making
  <2>6. CASE ~(\/ At(c, "addOwner") \/ At(c, "addAdmin")
               \/ At(c, "dropOrg") \/ At(c, "dropProject"))
    <3>1. failed' = failed /\ req' = [req EXCEPT ![c] = NoRequest]
      BY <1>3, <2>6 DEF FailStatement, Answered, Done
    <3>2. Frame
      BY <1>2, <2>1, <3>1 DEF Frame, GoneThen, LiveProject
    <3> QED
      BY <3>1, <3>2, AnsweredLeaves, CleanRefused
  <2> QED
    BY <2>3, <2>4, <2>5, <2>6
<1>4. CASE AddOwnerLost(c) \/ AddAdminLost(c)
  <2>1. DropsOrg(c) \/ Advances(c)
    BY <1>0, <1>2, <1>4 DEF AddOwnerLost, AddAdminLost, Goto, At, Request, DropsOrg, Advances,
                            Making
  <2>2. UNCHANGED <<org, project, failed>> /\ lost \subseteq lost'
    BY <1>4 DEF AddOwnerLost, AddAdminLost
  <2>3. \A d \in Clients \ {c} : req'[d] = req[d]
    BY <1>4, Others DEF AddOwnerLost, AddAdminLost, Goto
  <2>4. Frame
    BY <1>2, <2>2 DEF Frame, GoneThen, LiveProject
  <2>5. \A d \in Clients : Stays(d) \/ DropsOrg(d) \/ Advances(d)
    BY <2>1, <2>2, <2>3 DEF Stays
  <2> QED
    BY <2>4, <2>5, CleanFrame
<1>5. CASE InsertProjectLost(c)
  <2>1. Insert(c) /\ req[c].step = "insertProject"
    BY <1>5 DEF InsertProjectLost, Insert, At
  <2>2. req[c].project \in Projects
    BY <1>0, <2>1 DEF WellFormed, ProjectSteps
  <2>3. /\ failed' = failed \cup {req[c].project} /\ lost' = lost \cup {req[c].project}
        /\ req' = [req EXCEPT ![c] = NoRequest] /\ org' = org
    BY <1>5 DEF InsertProjectLost, Answered, Done
  <2>4. \A q \in Projects \ {req[c].project} : project'[q] = project[q]
    BY <2>1, <2>2 DEF Insert, TypeInv, TablesOK
  <2>5. Frame
    BY <1>2, <2>1, <2>2, <2>3, <2>4 DEF Frame, GoneThen, LiveProject
  <2> QED
    BY <2>1, <2>3, <2>5, AnsweredLeaves, CleanRefused DEF Making
<1>6. CASE RotateLost(c)
  <2>1. req[c].project \in Projects
    BY <1>0, <1>6 DEF WellFormed, RotateLost, WriteRotated, At, ProjectSteps
  <2>2. \A q \in Projects : ~LiveProject(q) => GoneThen(q)
    BY <1>6, <2>1, KeyOnly DEF RotateLost, WriteRotated
  <2>3. Frame
    BY <1>2, <1>6, <2>2 DEF RotateLost, Frame
  <2> QED
    BY <1>6, <2>3, AnsweredLeaves, CleanRefused DEF RotateLost, Answered, Done
<1> QED
  BY <1>3, <1>4, <1>5, <1>6 DEF RequestFault

LEMMA CleanStep == TypeInv /\ CleanInv /\ [Next]_vars => CleanInv'
<1> SUFFICES ASSUME TypeInv, CleanInv, [Next]_vars
             PROVE  CleanInv'
  OBVIOUS
<1>0. faults \in Nat /\ DOMAIN org = Orgs /\ DOMAIN req = Clients
  BY DEF TypeInv, HistoryOK, TablesOK, RequestsOK
<1>1. ASSUME NEW c \in Clients, NotFound(c)
      PROVE  CleanInv'
  <2>1. Quiet
    BY <1>1 DEF NotFound, tables, Quiet, GoneThen, LiveProject
  <2> QED
    BY <1>1, <2>1, AnsweredLeaves, CleanQuiet DEF NotFound, Answered, Done
<1>2. ASSUME NEW o \in Orgs, CreateOrgLost(o), Fault
      PROVE  CleanInv'
  <2>1. faults' = faults + 1 /\ faults' \in Nat /\ faults <= faults'
    BY <1>0, <1>2 DEF Fault
  <2>2. /\ failed' = failed \cup {o} /\ lost' = lost \cup {o}
        /\ UNCHANGED <<project, req>> /\ org[o] = "absent"
    BY <1>2 DEF CreateOrgLost
  <2>3. \A p \in Orgs \ {o} : org'[p] = org[p]
    BY <1>0, <1>2 DEF CreateOrgLost
  <2>4. Frame
    BY <2>1, <2>2, <2>3 DEF Frame, GoneThen, LiveProject
  <2>5. ASSUME NEW d \in Clients
        PROVE  Stays(d)
    <3>1. req[d].step = "insertProject" => req[d].project \in Projects
      BY DEF TypeInv, RequestsOK, WellFormed, ProjectSteps
    <3> QED
      BY <2>2, <3>1, ConstantsAssumption DEF Stays
  <2> QED
    BY <2>4, <2>5, CleanFrame
<1>3. CASE Crash
  <2>1. faults' = faults + 1 /\ faults' \in Nat /\ faults <= faults'
    BY <1>0, <1>3 DEF Crash, Fault
  <2>2. Frame
    BY <1>3, <2>1 DEF Crash, tables, Frame, GoneThen, LiveProject
  <2>3. \A c \in Clients : Leaves(c)
    BY <1>3 DEF Crash, Leaves, NoRequest, Making
  <2> QED
    BY <2>2, <2>3, CleanFrame
<1>4. CASE UNCHANGED vars
  <2>1. Quiet
    BY <1>4 DEF vars, tables, history, Quiet, GoneThen, LiveProject
  <2>2. \A c \in Clients : Stays(c)
    BY <1>4 DEF vars, history, Stays
  <2> QED
    BY <2>1, <2>2, QuietFrame, CleanFrame
<1> QED
  BY <1>1, <1>2, <1>3, <1>4, CreateClean, OrgClean, ProjectClean, FaultClean DEF Next

\* A creation that was refused has left nothing in the tables, after one failed
\* statement: its deletion, by the same request, is enough.
THEOREM RefusedCreationsGone == Spec => []FailedCreateLeavesNothing
<1>1. CleanInv => FailedCreateLeavesNothing
  <2> SUFFICES ASSUME CleanInv, NEW x \in failed \ lost, faults < 2
               PROVE  IF x \in Orgs THEN org[x] # "live" ELSE ~LiveProject(x)
    BY DEF FailedCreateLeavesNothing
  <2> QED
    BY DEF CleanInv
<1> QED
  BY <1>1, TypeInit, TypeStep, CleanInit, CleanStep, PTL DEF Spec
=============================================================================
