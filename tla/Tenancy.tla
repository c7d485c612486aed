------------------------------ MODULE Tenancy ------------------------------
(***************************************************************************)
(* Organisations, projects and their members: the tables organizations,    *)
(* org_members, projects and project_members, and the requests of the API  *)
(* server that write them.                                                 *)
(*                                                                         *)
(* A request is a sequence of statements without a transaction: the        *)
(* middleware reads the caller's role, the service reads and writes, and a *)
(* creation that cannot be completed is taken back by a deletion.  The     *)
(* requests of several clients interleave between any two statements.      *)
(* Names, slugs and descriptions are left out; an API key is a number.     *)
(***************************************************************************)
EXTENDS Integers, FiniteSets

CONSTANTS
    Orgs,        \* ids of the organisations that may be created
    Projects,    \* ids of the projects that may be created
    Users,       \* registered users
    Clients,     \* connections to the API server, with one request each
    MaxKeys,     \* bound: API keys generated in a behaviour
    MaxFaults,   \* bound: failed statements, lost answers and crashes
    None         \* SQL NULL, no row

ASSUME ConstantsAssumption ==
    /\ MaxKeys \in Nat
    /\ MaxFaults \in Nat
    /\ None \notin Orgs \cup Projects \cup Users \cup {"owner", "admin", "member"}
    /\ Orgs \cap Projects = {}

VARIABLES
    org,       \* the rows of organizations: "absent", "live" or "deleted"
    role,      \* org_members: the role of each user in each organisation
    project,   \* projects: organisation and API key of each row; no
               \* organisation before the INSERT (key 0) and after the DELETE
    admins,    \* project_members; "admin" is the only role ever written
    req,       \* the request each client has in progress
    keys,      \* the number of API keys generated so far
    given,     \* the keys of each project that a response has shown
    retired,   \* the keys an answered rotation has replaced
    raced,     \* projects rotated while another request held their row
    failed,    \* organisations and projects whose creation was refused
    disowned,  \* organisations whose last owner was demoted or removed
    lost,      \* organisations and projects hit by a lost answer or a crash
    outdated,  \* clients whose caller's role has changed since it was checked
    faults     \* faults so far

tables  == <<org, role, project, admins>>
history == <<given, retired, raced, failed, disowned, lost, outdated>>
vars    == <<tables, req, keys, history, faults>>

Roles == {"owner", "admin", "member"}
Rank == [owner |-> 3, admin |-> 2, member |-> 1]

\* The statement a request has to execute next, its caller, and what it acts
\* on: an organisation or a project, a member and a role, a key.
Steps == {"idle", "addOwner", "dropOrg", "deleteOrg", "addMember", "changeRole",
          "removeMember", "insertProject", "addAdmin", "dropProject",
          "readUpdate", "writeUpdate", "readRotate", "writeRotate", "deleteProject"}
Request == [step : Steps, user : Users \cup {None}, org : Orgs \cup {None},
            project : Projects \cup {None}, member : Users \cup {None},
            role : Roles \cup {None}, key : Nat]
NoRequest == [step |-> "idle", user |-> None, org |-> None, project |-> None,
              member |-> None, role |-> None, key |-> 0]

TypeOK ==
    /\ org \in [Orgs -> {"absent", "live", "deleted"}]
    /\ role \in [Orgs -> [Users -> Roles \cup {None}]]
    /\ project \in [Projects -> [org : Orgs \cup {None}, key : Nat]]
    /\ admins \in [Projects -> SUBSET Users]
    /\ req \in [Clients -> Request]
    /\ keys \in Nat
    /\ given \in [Projects -> SUBSET Nat]
    /\ retired \in [Projects -> SUBSET Nat]
    /\ raced \subseteq Projects
    /\ failed \subseteq Orgs \cup Projects
    /\ disowned \subseteq Orgs
    /\ lost \subseteq Orgs \cup Projects
    /\ outdated \subseteq Clients
    /\ faults \in Nat

Init ==
    /\ org = [o \in Orgs |-> "absent"]
    /\ role = [o \in Orgs |-> [u \in Users |-> None]]
    /\ project = [p \in Projects |-> [org |-> None, key |-> 0]]
    /\ admins = [p \in Projects |-> {}]
    /\ req = [c \in Clients |-> NoRequest]
    /\ keys = 0
    /\ given = [p \in Projects |-> {}]
    /\ retired = [p \in Projects |-> {}]
    /\ raced = {} /\ failed = {} /\ disowned = {} /\ lost = {} /\ outdated = {}
    /\ faults = 0

At(c, step) == req[c].step = step
LiveProject(p) == project[p].org # None
Owners(o) == {u \in Users : role[o][u] = "owner"}

Goto(c, step) == req' = [req EXCEPT ![c].step = step]

\* The answer is sent: the client may send another request.
Done(c) == req' = [req EXCEPT ![c] = NoRequest]
Answered(c) == Done(c) /\ outdated' = outdated \ {c}

(***************************************************************************)
(* Creating an organisation: INSERT, then AddMember(owner), and a deletion *)
(* when AddMember fails.                                                   *)
(***************************************************************************)
CreateOrg(c, u, o) ==
    /\ At(c, "idle") /\ org[o] = "absent"
    /\ org' = [org EXCEPT ![o] = "live"]
    /\ req' = [req EXCEPT ![c] =
                  [NoRequest EXCEPT !.step = "addOwner", !.user = u, !.org = o]]
    /\ UNCHANGED <<role, project, admins, keys, history, faults>>

\* The INSERT failed after it took effect: the error is returned as it is.
CreateOrgLost(o) ==
    /\ \E c \in Clients : At(c, "idle")
    /\ org[o] = "absent"
    /\ org' = [org EXCEPT ![o] = "live"]
    /\ failed' = failed \cup {o}
    /\ lost' = lost \cup {o}
    /\ UNCHANGED <<role, project, admins, req, keys, given, retired, raced, disowned,
                   outdated>>

FirstRoleMember == "member"   \* mutant: the creator becomes an ordinary member

FirstRole == "owner"

\* INSERT ... ON CONFLICT DO UPDATE into org_members.
Upsert(o, u, r) == role' = [role EXCEPT ![o][u] = r]

AddOwner(c) ==
    LET o == req[c].org IN
    /\ At(c, "addOwner") /\ org[o] = "live"
    /\ Upsert(o, req[c].user, FirstRole)
    /\ Answered(c)
    /\ UNCHANGED <<org, project, admins, keys, given, retired, raced, failed, disowned,
                   lost, faults>>

NotCleanedUp(o) == UNCHANGED org   \* mutant: the organisation is left behind

CleanedUp(o) == org' = [org EXCEPT ![o] = "deleted"]

\* The cascade of the foreign keys: members, projects and their members.
Cascade(o) ==
    /\ role' = [role EXCEPT ![o] = [u \in Users |-> None]]
    /\ project' = [p \in Projects |-> IF project[p].org = o
                                      THEN [project[p] EXCEPT !.org = None] ELSE project[p]]
    /\ admins' = [p \in Projects |-> IF project[p].org = o THEN {} ELSE admins[p]]

DropOrg(c) ==
    LET o == req[c].org IN
    /\ At(c, "dropOrg")
    /\ CleanedUp(o)
    /\ Cascade(o)
    /\ failed' = failed \cup {o}
    /\ Answered(c)
    /\ UNCHANGED <<keys, given, retired, raced, disowned, lost, faults>>

(***************************************************************************)
(* Requests on an organisation: RequireOrgRole reads the caller's role     *)
(* before the handler runs.                                                *)
(***************************************************************************)
AtLeast(r, min) == r # None /\ Rank[r] >= Rank[min]

\* mutant: any member may delete
MinRoleAnyone(step) == IF step = "deleteOrg" THEN "member" ELSE "admin"

MinRole(step) == IF step = "deleteOrg" THEN "owner" ELSE "admin"

CheckOrgRole(c, u, o, step) ==
    /\ At(c, "idle")
    /\ AtLeast(role[o][u], MinRole(step))
    /\ \E m \in Users, r \in Roles :
         req' = [req EXCEPT ![c] =
                    [NoRequest EXCEPT !.step = step, !.user = u, !.org = o,
                                      !.member = IF step = "deleteOrg" THEN None ELSE m,
                                      !.role = IF step \in {"addMember", "changeRole"}
                                               THEN r ELSE None]]
    /\ UNCHANGED <<tables, keys, history, faults>>

\* The clients whose request was admitted with a role that changes now.
Overtaken ==
    {c \in Clients : /\ req[c].step \in {"deleteOrg", "addMember", "changeRole",
                                         "removeMember", "insertProject"}
                     /\ role'[req[c].org][req[c].user] # role[req[c].org][req[c].user]}

\* org_members has been written on behalf of c: who lost what by it.
MembersChanged(c) ==
    /\ Done(c)
    /\ outdated' = (outdated \cup Overtaken) \ {c}
    /\ disowned' = disowned \cup
           {o \in Orgs : Owners(o) # {} /\ \A u \in Users : role'[o][u] # "owner"}
    /\ UNCHANGED <<keys, given, retired, raced, failed, lost, faults>>

AddMember(c) ==
    LET o == req[c].org IN
    /\ At(c, "addMember") /\ org[o] = "live"
    /\ Upsert(o, req[c].member, req[c].role)
    /\ MembersChanged(c)
    /\ UNCHANGED <<org, project, admins>>

\* UPDATE and DELETE of a member's row need the row to exist.
ChangeRole(c) ==
    LET o == req[c].org  m == req[c].member IN
    /\ At(c, "changeRole") /\ role[o][m] # None
    /\ role' = [role EXCEPT ![o][m] = req[c].role]
    /\ MembersChanged(c)
    /\ UNCHANGED <<org, project, admins>>

RemoveMember(c) ==
    LET o == req[c].org  m == req[c].member IN
    /\ At(c, "removeMember") /\ role[o][m] # None
    /\ role' = [role EXCEPT ![o][m] = None]
    /\ MembersChanged(c)
    /\ UNCHANGED <<org, project, admins>>

DeleteOrg(c) ==
    LET o == req[c].org IN
    /\ At(c, "deleteOrg") /\ org[o] = "live"
    /\ org' = [org EXCEPT ![o] = "deleted"]
    /\ Cascade(o)
    /\ Done(c)
    /\ outdated' = (outdated \cup Overtaken) \ {c}
    /\ UNCHANGED <<keys, given, retired, raced, failed, disowned, lost, faults>>

(***************************************************************************)
(* Creating a project: the key is generated and shown in the answer; the   *)
(* creator becomes its admin, or the project is deleted again.             *)
(***************************************************************************)
Fresh(p) ==
    /\ project[p].key = 0 /\ p \notin failed
    /\ \A c \in Clients : req[c].project # p

CheckCreateProject(c, u, o, p) ==
    /\ At(c, "idle") /\ Fresh(p)
    /\ AtLeast(role[o][u], "admin")
    /\ req' = [req EXCEPT ![c] = [NoRequest EXCEPT !.step = "insertProject", !.user = u,
                                                 !.org = o, !.project = p]]
    /\ UNCHANGED <<tables, keys, history, faults>>

Insert(c) ==
    LET r == req[c] IN
    /\ At(c, "insertProject") /\ org[r.org] = "live" /\ keys < MaxKeys
    /\ keys' = keys + 1
    /\ project' = [project EXCEPT ![r.project] = [org |-> r.org, key |-> keys + 1]]

InsertProject(c) ==
    /\ Insert(c)
    /\ req' = [req EXCEPT ![c].step = "addAdmin", ![c].key = keys + 1]
    /\ UNCHANGED <<org, role, admins, history, faults>>

Give(p, k) == given' = [given EXCEPT ![p] = @ \cup {k}]

AddAdmin(c) ==
    LET p == req[c].project IN
    /\ At(c, "addAdmin") /\ LiveProject(p)
    /\ admins' = [admins EXCEPT ![p] = @ \cup {req[c].user}]
    /\ Give(p, req[c].key)
    /\ Answered(c)
    /\ UNCHANGED <<org, role, project, keys, retired, raced, failed, disowned, lost, faults>>

\* The organisation, and the project with it, was deleted meanwhile.
AddAdminRefused(c) ==
    /\ At(c, "addAdmin") /\ ~LiveProject(req[c].project)
    /\ Goto(c, "dropProject")
    /\ UNCHANGED <<tables, keys, history, faults>>

Remove(p) ==
    /\ project' = [project EXCEPT ![p].org = None]
    /\ admins' = [admins EXCEPT ![p] = {}]

DropProject(c) ==
    /\ At(c, "dropProject")
    /\ Remove(req[c].project)
    /\ failed' = failed \cup {req[c].project}
    /\ Answered(c)
    /\ UNCHANGED <<org, role, keys, given, retired, raced, disowned, lost, faults>>

(***************************************************************************)
(* Requests on a project.  Update and RotateAPIKey read the row, change it *)
(* in memory and write all of its columns back.                            *)
(***************************************************************************)
CheckProjectRole(c, u, p, step) ==
    /\ At(c, "idle") /\ u \in admins[p]
    /\ req' = [req EXCEPT ![c] =
                  [NoRequest EXCEPT !.step = step, !.user = u, !.project = p]]
    /\ UNCHANGED <<tables, keys, history, faults>>

ReadProject(c) ==
    LET p == req[c].project IN
    /\ req[c].step \in {"readUpdate", "readRotate"} /\ LiveProject(p)
    /\ req' = [req EXCEPT ![c].key = project[p].key,
                          ![c].step = IF @ = "readUpdate" THEN "writeUpdate"
                                                          ELSE "writeRotate"]
    /\ UNCHANGED <<tables, keys, history, faults>>

UpdatedKey(c) == req[c].key

UpdateProject(c) ==
    LET p == req[c].project IN
    /\ At(c, "writeUpdate") /\ LiveProject(p)
    /\ project' = [project EXCEPT ![p].key = UpdatedKey(c)]
    /\ Answered(c)
    /\ UNCHANGED <<org, role, admins, keys, given, retired, raced, failed, disowned, lost,
                   faults>>

RotatedKeyOld(c) == req[c].key   \* mutant: the new hash is not put into the row

RotatedKey(c) == keys + 1

WriteRotated(c) ==
    LET p == req[c].project IN
    /\ At(c, "writeRotate") /\ LiveProject(p) /\ keys < MaxKeys
    /\ keys' = keys + 1
    /\ project' = [project EXCEPT ![p].key = RotatedKey(c)]
    /\ raced' = IF \E d \in Clients \ {c} : At(d, "writeUpdate") /\ req[d].project = p
                THEN raced \cup {p} ELSE raced

RotateAPIKey(c) ==
    LET p == req[c].project IN
    /\ WriteRotated(c)
    /\ Give(p, keys + 1)
    /\ retired' = [retired EXCEPT ![p] = @ \cup {project[p].key, req[c].key}]
    /\ Answered(c)
    /\ UNCHANGED <<org, role, admins, failed, disowned, lost, faults>>

DeleteProject(c) ==
    /\ At(c, "deleteProject") /\ LiveProject(req[c].project)
    /\ Remove(req[c].project)
    /\ Answered(c)
    /\ UNCHANGED <<org, role, keys, given, retired, raced, failed, disowned, lost, faults>>

\* The row to be read, written or referred to is not there: an error.
Gone(c) ==
    LET r == req[c] IN
    \/ r.step \in {"addMember", "deleteOrg", "insertProject"} /\ org[r.org] # "live"
    \/ r.step \in {"changeRole", "removeMember"} /\ role[r.org][r.member] = None
    \/ r.step \in {"readUpdate", "writeUpdate", "readRotate", "writeRotate",
                   "deleteProject"} /\ ~LiveProject(r.project)

NotFound(c) ==
    /\ Gone(c)
    /\ Answered(c)
    /\ UNCHANGED <<tables, keys, given, retired, raced, failed, disowned, lost, faults>>

(***************************************************************************)
(* Faults: a statement fails, or takes effect and its answer is lost, or   *)
(* the API server dies with all its requests.                              *)
(***************************************************************************)
Fault == faults < MaxFaults /\ faults' = faults + 1

FailStatement(c) ==
    /\ ~At(c, "idle") /\ Fault
    /\ CASE At(c, "addOwner") -> Goto(c, "dropOrg") /\ UNCHANGED <<failed, outdated>>
         [] At(c, "addAdmin") -> Goto(c, "dropProject") /\ UNCHANGED <<failed, outdated>>
         [] At(c, "dropOrg") -> failed' = failed \cup {req[c].org} /\ Answered(c)
         [] At(c, "dropProject") -> failed' = failed \cup {req[c].project} /\ Answered(c)
         [] OTHER -> Answered(c) /\ UNCHANGED failed
    /\ UNCHANGED <<tables, keys, given, retired, raced, disowned, lost>>

AddOwnerLost(c) ==
    LET o == req[c].org IN
    /\ At(c, "addOwner") /\ org[o] = "live" /\ Fault
    /\ Upsert(o, req[c].user, "owner")
    /\ Goto(c, "dropOrg")
    /\ lost' = lost \cup {o}
    /\ UNCHANGED <<org, project, admins, keys, given, retired, raced, failed, disowned,
                   outdated>>

\* The error of the INSERT is returned without a deletion.
InsertProjectLost(c) ==
    /\ Insert(c) /\ Fault
    /\ failed' = failed \cup {req[c].project}
    /\ lost' = lost \cup {req[c].project}
    /\ Answered(c)
    /\ UNCHANGED <<org, role, admins, given, retired, raced, disowned>>

AddAdminLost(c) ==
    LET p == req[c].project IN
    /\ At(c, "addAdmin") /\ LiveProject(p) /\ Fault
    /\ admins' = [admins EXCEPT ![p] = @ \cup {req[c].user}]
    /\ Goto(c, "dropProject")
    /\ lost' = lost \cup {p}
    /\ UNCHANGED <<org, role, project, keys, given, retired, raced, failed, disowned,
                   outdated>>

\* The new key is in the row, but nobody has seen it.
RotateLost(c) ==
    /\ WriteRotated(c) /\ Fault
    /\ lost' = lost \cup {req[c].project}
    /\ Answered(c)
    /\ UNCHANGED <<org, role, admins, given, retired, failed, disowned>>

Crash ==
    /\ \E c \in Clients : ~At(c, "idle")
    /\ Fault
    /\ req' = [c \in Clients |-> NoRequest]
    /\ lost' = lost \cup {req[c].org : c \in {d \in Clients : req[d].step \in
                                                      {"addOwner", "dropOrg"}}}
                    \cup {req[c].project : c \in {d \in Clients : req[d].step \in
                                                      {"addAdmin", "dropProject"}}}
    /\ outdated' = {}
    /\ UNCHANGED <<tables, keys, given, retired, raced, failed, disowned>>

(***************************************************************************)
CreateRequest(c) ==
    \/ \E u \in Users, o \in Orgs : CreateOrg(c, u, o)
    \/ AddOwner(c)
    \/ DropOrg(c)
    \/ \E u \in Users, o \in Orgs, p \in Projects : CheckCreateProject(c, u, o, p)
    \/ InsertProject(c)
    \/ AddAdmin(c)
    \/ AddAdminRefused(c)
    \/ DropProject(c)

OrgRequest(c) ==
    \/ \E u \in Users, o \in Orgs,
          step \in {"addMember", "changeRole", "removeMember", "deleteOrg"} :
            CheckOrgRole(c, u, o, step)
    \/ AddMember(c)
    \/ ChangeRole(c)
    \/ RemoveMember(c)
    \/ DeleteOrg(c)

ProjectRequest(c) ==
    \/ \E u \in Users, p \in Projects, step \in {"readUpdate", "readRotate", "deleteProject"} :
            CheckProjectRole(c, u, p, step)
    \/ ReadProject(c)
    \/ UpdateProject(c)
    \/ RotateAPIKey(c)
    \/ DeleteProject(c)

RequestFault(c) ==
    \/ FailStatement(c)
    \/ AddOwnerLost(c)
    \/ InsertProjectLost(c)
    \/ AddAdminLost(c)
    \/ RotateLost(c)

Next ==
    \/ \E c \in Clients :
         CreateRequest(c) \/ OrgRequest(c) \/ ProjectRequest(c) \/ NotFound(c) \/ RequestFault(c)
    \/ \E o \in Orgs : CreateOrgLost(o) /\ Fault
    \/ Crash

Spec == Init /\ [][Next]_vars

(***************************************************************************)
(* Properties.                                                             *)
(***************************************************************************)
\* A creation that was answered with an error leaves nothing behind: its
\* cleanup (orgs.Delete, projects.Delete) makes good for one failed statement.
\* Two failures, a lost answer or a crash it does not cover.
FailedCreateLeavesNothing ==
    \A x \in failed \ lost :
        faults < 2 => IF x \in Orgs THEN org[x] # "live" ELSE ~LiveProject(x)

\* An organisation in use has an owner, who alone may delete it, until its
\* admins demote or remove the last one; nothing in the code prevents that.
OwnedUntilDisowned ==
    \A o \in Orgs : org[o] = "live" =>
        \/ Owners(o) # {}
        \/ \E c \in Clients : req[c].step \in {"addOwner", "dropOrg"} /\ req[c].org = o
        \/ o \in disowned \cup lost \cup failed

\* The key a project's row accepts has been shown to somebody, or is on its
\* way to the one who creates the project: no write loses it.
KeyHeld ==
    \A p \in Projects \ (lost \cup failed) : LiveProject(p) =>
        \/ project[p].key \in given[p]
        \/ \E c \in Clients : /\ req[c].step \in {"addAdmin", "dropProject"}
                             /\ req[c].project = p /\ req[c].key = project[p].key

\* A key that a rotation has replaced is accepted again only if an update of
\* the project had read the row before that rotation wrote it.
OldKeyDeadUnlessRaced ==
    \A p \in Projects : LiveProject(p) /\ project[p].key \in retired[p] => p \in raced

\* What a request does to an organisation needs the role that the routes
\* demand ("admin role required", "owner only"), and its caller still has that
\* role when it is done, unless somebody changed it in between.
NeededRole(step) == IF step = "deleteOrg" THEN "owner" ELSE "admin"
ActsWithRole ==
    [][\A c \in Clients :
        (/\ req[c].step \in {"deleteOrg", "addMember", "changeRole", "removeMember",
                              "insertProject"}
         /\ req'[c] # req[c] /\ tables' # tables)
        => \/ AtLeast(role[req[c].org][req[c].user], NeededRole(req[c].step))
           \/ c \in outdated]_vars

(***************************************************************************)
(* What the documentation says and the code does not keep.                 *)
(***************************************************************************)
\* "old key is immediately invalidated" (RotateAPIKey).
OldKeyInvalidated ==
    \A p \in Projects : LiveProject(p) => project[p].key \notin retired[p]

\* RequireOrgRole "verifies that the requesting user holds at least the
\* specified role".
ActsWithCurrentRole ==
    [][\A c \in Clients :
        (/\ req[c].step \in {"deleteOrg", "addMember", "changeRole", "removeMember",
                              "insertProject"}
         /\ req'[c] # req[c] /\ tables' # tables)
        => AtLeast(role[req[c].org][req[c].user], NeededRole(req[c].step))]_vars

\* "partial failure recovery is handled via cleanup" (org Create).
PartialFailureCleanedUp ==
    \A x \in failed : IF x \in Orgs THEN org[x] # "live" ELSE ~LiveProject(x)
=============================================================================
