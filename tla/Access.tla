------------------------------- MODULE Access -------------------------------
(***************************************************************************)
(* Who may do what (routes/auth.py, routes/admin.py, models/auth.py): a    *)
(* registration is reviewed by an administrator, roles are assigned to     *)
(* users and permissions to roles, and every request is let in by the      *)
(* rows of that moment.  The handlers read without locks.                  *)
(***************************************************************************)
EXTENDS WebRequests

CONSTANTS
    Applicants,     \* people who register; Officers stands for the administrators
    Roles,
    SystemRoles,    \* roles of the seed data
    Volunteer,      \* the system role a registration gets
    Permissions

ASSUME AccessAssumption == Volunteer \in SystemRoles /\ SystemRoles \subseteq Roles

VARIABLES
    account,    \* the users table
    holds,      \* user_roles
    role,       \* the roles table with role_permissions
    online,     \* users with a session cookie
    approved,   \* history: users an administrator has approved
    clashed,    \* history: users two reviews of whom overlapped
    granted,    \* history: the roles the last assignment chose
    mixed       \* history: users whose last assignment overlapped a change of their roles

authTables == <<account, holds, role, online>>
authHistory == <<approved, clashed, granted, mixed>>
accessVars == <<authTables, authHistory, requestVars>>

NoAccount == [status |-> "NONE", active |-> FALSE, reviewer |-> Nobody]

AccessInit ==
    /\ account = [u \in Applicants |-> NoAccount]
    /\ holds = [u \in Applicants |-> {}]
    /\ role = [x \in Roles |-> IF x \in SystemRoles THEN [life |-> "MADE", permits |-> Permissions]
                                                    ELSE [life |-> "NONE", permits |-> {}]]
    /\ online = {}
    /\ approved = {} /\ clashed = {}
    /\ granted = holds
    /\ mixed = {}
    /\ RequestsInit

-----------------------------------------------------------------------------
Made == {x \in Roles : role[x].life = "MADE"}

Holders(x) == {u \in Applicants : x \in holds[u]}

\* Mutant: the columns keep their defaults.
RegisterByDefault(u) ==
    /\ account[u].status = "NONE"
    /\ account' = [account EXCEPT ![u].status = "APPROVED", ![u].active = TRUE]
    /\ holds' = [holds EXCEPT ![u] = {Volunteer}]
    /\ granted' = [granted EXCEPT ![u] = {Volunteer}]
    /\ UNCHANGED <<role, online, approved, clashed, mixed, requestVars>>

\* The unique columns refuse a second registration of the same person.
Register(u) ==
    /\ account[u].status = "NONE"
    /\ account' = [account EXCEPT ![u].status = "PENDING"]
    /\ holds' = [holds EXCEPT ![u] = {Volunteer}]
    /\ granted' = [granted EXCEPT ![u] = {Volunteer}]
    /\ UNCHANGED <<role, online, approved, clashed, mixed, requestVars>>

\* approve_user and reject_user test the status as they loaded it.
LoadReview(r, u, by, verdict) ==
    /\ account[u].status = "PENDING"
    /\ Arrive(r, [of |-> u, task |-> verdict, by |-> by], "loaded", account[u])
    /\ UNCHANGED <<authTables, authHistory>>

CommitReview(r) ==
    LET verdict == job[r].task
        new == [status |-> verdict, active |-> verdict = "APPROVED", reviewer |-> job[r].by]
    IN  /\ step[r] = "loaded" /\ verdict \in {"APPROVED", "REJECTED"}
        /\ account' = [account EXCEPT ![Of(r)] = Written(@, seen[r], new)]
        /\ approved' = IF verdict = "APPROVED" THEN approved \cup {Of(r)} ELSE approved
        /\ clashed' = IF account[Of(r)] = seen[r] THEN clashed ELSE clashed \cup {Of(r)}
        /\ Finish(r)
        /\ UNCHANGED <<holds, role, online, granted, mixed>>

Login(u) ==
    /\ account[u].status = "APPROVED" /\ account[u].active
    /\ online' = online \cup {u}
    /\ UNCHANGED <<account, holds, role, authHistory, requestVars>>

Logout(u) ==
    /\ u \in online /\ account[u].active
    /\ online' = online \ {u}
    /\ UNCHANGED <<account, holds, role, authHistory, requestVars>>

\* A session counts as logged in while the account is active, whatever its status;
\* has_permission and the guards then ask the rows of the moment, not those of the login.
May(u, p) ==
    /\ u \in online /\ account[u].active
    /\ \E x \in Made \cap holds[u] : p \in role[x].permits

-----------------------------------------------------------------------------
\* assign_user_roles does nothing when the roles chosen are those the user has.
LoadAssign(r, u, chosen) ==
    /\ account[u].status # "NONE"
    /\ chosen \subseteq Made /\ chosen # holds[u]
    /\ Arrive(r, [of |-> u, task |-> "ASSIGN", chosen |-> chosen], "loaded", holds[u])
    /\ UNCHANGED <<authTables, authHistory>>

\* The mapper's write to an association table: the rows that are to go must be there,
\* the new ones must not.
Fitting(rows, loaded, chosen) ==
    /\ loaded \ chosen \subseteq rows
    /\ (chosen \ loaded) \cap rows = {}

Replaced(rows, loaded, chosen) == (rows \ (loaded \ chosen)) \cup (chosen \ loaded)

CommitAssign(r) ==
    LET u == Of(r)
        chosen == job[r].chosen
    IN  /\ step[r] = "loaded" /\ job[r].task = "ASSIGN"
        /\ Fitting(holds[u], seen[r], chosen)
        /\ chosen \ seen[r] \subseteq Made
        /\ holds' = [holds EXCEPT ![u] = Replaced(@, seen[r], chosen)]
        /\ granted' = [granted EXCEPT ![u] = chosen]
        /\ mixed' = IF holds[u] = seen[r] THEN mixed \ {u} ELSE mixed \cup {u}
        /\ Finish(r)
        /\ UNCHANGED <<account, role, online, approved, clashed>>

CreateRole(x, permits) ==
    /\ role[x].life = "NONE"
    /\ role' = [role EXCEPT ![x] = [life |-> "MADE", permits |-> permits]]
    /\ UNCHANGED <<account, holds, online, authHistory, requestVars>>

LoadEdit(r, x, permits) ==
    /\ x \in Made \ SystemRoles
    /\ Arrive(r, [of |-> x, task |-> "EDIT", chosen |-> permits], "loaded", role[x].permits)
    /\ UNCHANGED <<authTables, authHistory>>

\* An update of a row that is gone fails.
CommitEdit(r) ==
    LET x == Of(r) IN
    /\ step[r] = "loaded" /\ job[r].task = "EDIT"
    /\ x \in Made
    /\ Fitting(role[x].permits, seen[r], job[r].chosen)
    /\ role' = [role EXCEPT ![x].permits = Replaced(@, seen[r], job[r].chosen)]
    /\ Finish(r)
    /\ UNCHANGED <<account, holds, online, authHistory>>

\* Mutant: a role is deleted whoever has it.
LoadDeleteHeld(r, x) ==
    /\ x \in Made \ SystemRoles
    /\ Arrive(r, [of |-> x, task |-> "DELETE", holders |-> Holders(x)], "loaded", role[x].permits)
    /\ UNCHANGED <<authTables, authHistory>>

\* delete_role refuses a system role and a role that is assigned.
LoadDelete(r, x) ==
    /\ x \in Made \ SystemRoles
    /\ Holders(x) = {}
    /\ Arrive(r, [of |-> x, task |-> "DELETE", holders |-> Holders(x)], "loaded", role[x].permits)
    /\ UNCHANGED <<authTables, authHistory>>

\* Mutant: the foreign keys do not cascade.
CommitDeleteRoleOnly(r) ==
    LET x == Of(r) IN
    /\ step[r] = "loaded" /\ job[r].task = "DELETE"
    /\ x \in Made
    /\ role' = [role EXCEPT ![x] = [life |-> "GONE", permits |-> {}]]
    /\ mixed' = mixed \cup (Holders(x) \ job[r].holders)
    /\ Finish(r)
    /\ UNCHANGED <<account, holds, online, approved, clashed, granted>>

\* The database deletes the assignments made since.
CommitDelete(r) ==
    LET x == Of(r) IN
    /\ step[r] = "loaded" /\ job[r].task = "DELETE"
    /\ x \in Made
    /\ seen[r] \subseteq role[x].permits
    /\ role' = [role EXCEPT ![x] = [life |-> "GONE", permits |-> {}]]
    /\ holds' = [u \in Applicants |-> holds[u] \ {x}]
    /\ mixed' = mixed \cup (Holders(x) \ job[r].holders)
    /\ Finish(r)
    /\ UNCHANGED <<account, online, approved, clashed, granted>>

AbandonAccess(r) == Abandon(r) /\ UNCHANGED <<authTables, authHistory>>

AccessNext ==
    \/ \E u \in Applicants : Register(u) \/ Login(u) \/ Logout(u)
    \/ \E x \in Roles, permits \in SUBSET Permissions : CreateRole(x, permits)
    \/ \E r \in Requests :
        \/ \E u \in Applicants :
            \/ \E by \in Officers, verdict \in {"APPROVED", "REJECTED"} : LoadReview(r, u, by, verdict)
            \/ \E chosen \in SUBSET Roles : LoadAssign(r, u, chosen)
        \/ \E x \in Roles :
            \/ \E permits \in SUBSET Permissions : LoadEdit(r, x, permits)
            \/ LoadDelete(r, x)
        \/ CommitReview(r) \/ CommitAssign(r) \/ CommitEdit(r) \/ CommitDelete(r) \/ AbandonAccess(r)

AccessSpec == AccessInit /\ [][AccessNext]_accessVars

-----------------------------------------------------------------------------
\* Accounts and roles have their shape, and users hold roles that exist.
AccessTypeOK ==
    /\ account \in [Applicants -> [status : {"NONE", "PENDING", "APPROVED", "REJECTED"},
                                   active : BOOLEAN, reviewer : Officers \cup {Nobody}]]
    /\ holds \in [Applicants -> SUBSET Made]
    /\ role \in [Roles -> [life : {"NONE", "MADE", "GONE"}, permits : SUBSET Permissions]]
    /\ online \subseteq Applicants

\* Who may do anything has been approved by an administrator, and is approved still but
\* for an approval and a rejection that overlapped: the rejection then leaves the
\* account active, and a session opened in between goes on.
PowerIsReviewed ==
    \A u \in Applicants, p \in Permissions : May(u, p) =>
        /\ u \in approved
        /\ account[u].status = "APPROVED" \/ u \in clashed

\* A user holds the roles the last assignment chose, unless it overlapped another one
\* or a deletion: "Reassign those users before deleting the role" is kept for everyone
\* who had the role when the deletion looked.
RolesAsAssigned == \A u \in Applicants \ mixed : holds[u] = granted[u]

=============================================================================
