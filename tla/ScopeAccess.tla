---------------------------- MODULE ScopeAccess ----------------------------
(***************************************************************************)
(* Who may do what (profiles/models, Squest/utils).  Users hold roles in   *)
(* the global scope, in organizations and in teams; a scope has default    *)
(* roles for all its users; some permissions are for everybody and some    *)
(* for owners.  The code answers the question three times, with three      *)
(* different queries: may this user (has_perm), which rows may this user   *)
(* (get_queryset_for_user), which users may (who_has_perm).                *)
(*                                                                         *)
(* One permission is followed.  The rows it is asked about are the scopes  *)
(* and one instance, with its requests and their messages.                 *)
(***************************************************************************)
EXTENDS Scopes, FiniteSets

CONSTANTS
    User, Outsider,          \* the users followed, and somebody else who owns things
    Superuser,               \* User.is_superuser
    Role,
    Plain,                   \* bound: roles that never get the permission, and that are neither
                             \* default roles nor given in the global scope
    Global,                  \* the GlobalScope
    NoOrg,                   \* in place of the organization of a team that does not exist
    Instance,                \* the instance
    Request, RequestedBy,    \* its requests, and Request.user
    RequestMessage, SentBy, About   \* comments on requests: .sender and .request

AbstractScope == Scope \union {Global}
Somebody == User \union {Outsider}

ASSUME Kinds ==
    /\ Global \notin Scope /\ Org \intersect Team = {} /\ NoOrg \notin Org
    /\ Instance \notin Scope /\ Request \intersect (Scope \union {Instance}) = {}
    /\ RequestMessage \intersect (Scope \union Request \union {Instance}) = {}
    /\ Superuser \subseteq Somebody /\ Plain \subseteq Role
    /\ RequestedBy \in [Request -> Somebody]
    /\ SentBy \in [RequestMessage -> Somebody] /\ About \in [RequestMessage -> Request]

VARIABLES
    member,        \* RBAC.user_set: <<scope, role, user>>
    defaultRoles,  \* Scope.roles
    granting,      \* the roles whose permissions hold the permission
    globalPerm,    \* GlobalScope.global_permissions holds it
    ownerPerm,     \* GlobalScope.owner_permissions holds it
    quotaScope,    \* Instance.quota_scope
    requester      \* Instance.requester

grants == <<granting, globalPerm, ownerPerm, defaultRoles>>
places == <<orgOf, quotaScope, requester>>
accessVars == <<member, grants, places>>

ExistingTeam == {t \in Team : orgOf[t] # NoOrg}

\* AbstractScope.users
UsersOf(m, s) == {u \in User : \E r \in Role : <<s, r, u>> \in m}

----------------------------------------------------------------------------
\* has_perm

ScopesOf(s) == {Global, s} \union (IF s \in Team THEN {orgOf[s]} ELSE {})

GetScopes(obj) == IF obj \in Scope THEN ScopesOf(obj) ELSE ScopesOf(quotaScope)

OwnsInstance(u) == requester = u
OwnsRequest(u, q) == OwnsInstance(u) \/ RequestedBy[q] = u
OwnsMessage(u, m) == OwnsRequest(u, About[m]) \/ SentBy[m] = u

IsOwner(u, obj) ==
    \/ obj = Instance /\ OwnsInstance(u)
    \/ obj \in Request /\ OwnsRequest(u, obj)
    \/ obj \in RequestMessage /\ OwnsMessage(u, obj)

HasGlobalPerm(u) ==
    \/ u \in Superuser
    \/ globalPerm
    \/ \E r \in granting : <<Global, r, u>> \in member

HasPerm(u, obj) ==
    \/ u \in Superuser
    \/ globalPerm
    \/ \E r \in granting, s \in GetScopes(obj) : <<s, r, u>> \in member
    \/ \E r \in granting, s \in GetScopes(obj) :
          s \in Scope /\ r \in defaultRoles[s] /\ u \in UsersOf(member, s)
    \/ ownerPerm /\ IsOwner(u, obj)

----------------------------------------------------------------------------
\* get_queryset_for_user

\* the two disjuncts every get_q_filter repeats for a scope
RoleIn(u, s) == \E r \in granting : <<s, r, u>> \in member
DefaultIn(u, s) == u \in UsersOf(member, s) /\ defaultRoles[s] \intersect granting # {}

OrganizationQ(u) == {o \in Org : RoleIn(u, o) \/ DefaultIn(u, o)}

TeamQ(u) ==
    {t \in ExistingTeam : \/ RoleIn(u, orgOf[t]) \/ DefaultIn(u, orgOf[t])
                          \/ RoleIn(u, t) \/ DefaultIn(u, t)}

\* Scope.get_q_filter
ScopeQ(u) == TeamQ(u) \union OrganizationQ(u)

\* mutant: a team's instance is looked for in the team only
InstanceQOfScope(u) ==
    {i \in {Instance} :
        \/ RoleIn(u, quotaScope) \/ DefaultIn(u, quotaScope)
        \/ ownerPerm /\ requester = u}

InstanceQ(u) ==
    {i \in {Instance} :
        \/ RoleIn(u, quotaScope) \/ DefaultIn(u, quotaScope)
        \/ quotaScope \in {t \in ExistingTeam : RoleIn(u, orgOf[t])}
        \/ quotaScope \in {t \in ExistingTeam : DefaultIn(u, orgOf[t])}
        \/ ownerPerm /\ requester = u}

Listed(u, all, q) == IF HasGlobalPerm(u) THEN all ELSE q

RequestQ(u) ==
    {q \in Request : \/ Instance \in Listed(u, {Instance}, InstanceQ(u))
                     \/ ownerPerm /\ RequestedBy[q] = u}

\* mutant: the default roles of the organization are forgotten
QuotaQWithoutDefault(u) ==
    {s \in Org \union ExistingTeam :
        \/ RoleIn(u, s) \/ DefaultIn(u, s)
        \/ s \in {t \in ExistingTeam : RoleIn(u, orgOf[t])}}

\* Quota.get_q_filter, for the quota of a scope
QuotaQ(u) ==
    {s \in Org \union ExistingTeam :
        \/ RoleIn(u, s) \/ DefaultIn(u, s)
        \/ s \in {t \in ExistingTeam : RoleIn(u, orgOf[t])}
        \/ s \in {t \in ExistingTeam : DefaultIn(u, orgOf[t])}}

\* Resource.get_q_filter and ApprovalStepState.get_q_filter go through the instance
ThroughInstanceQ(u) == Listed(u, {Instance}, InstanceQ(u))

GetQuerysetForUser(u) ==
    Listed(u, Org, OrganizationQ(u)) \union Listed(u, ExistingTeam, TeamQ(u))
        \union Listed(u, {Instance}, InstanceQ(u)) \union Listed(u, Request, RequestQ(u))

----------------------------------------------------------------------------
\* who_has_perm

\* mutant: without id__in=scopes
DefaultRoleScopesAnywhere(obj) == {s \in Scope : defaultRoles[s] \intersect granting # {}}

DefaultRoleScopes(obj) ==
    {s \in GetScopes(obj) \ {Global} : defaultRoles[s] \intersect granting # {}}

\* mutant: the owner of the instance is no owner of its requests and messages
OwnersOfRow(obj) ==
    CASE obj = Instance          -> {requester}
      [] obj \in Request         -> {RequestedBy[obj]}
      [] obj \in RequestMessage  -> {RequestedBy[About[obj]], SentBy[obj]}
      [] OTHER                  -> {}

Owners(obj) ==
    CASE obj = Instance          -> {requester}
      [] obj \in Request         -> {RequestedBy[obj], requester}
      [] obj \in RequestMessage  -> {RequestedBy[About[obj]], SentBy[obj], requester}
      [] OTHER                  -> {}

WhoHasPerm(obj) ==
    IF globalPerm THEN Somebody
    ELSE {m[3] : m \in {m \in member : \/ m[1] \in DefaultRoleScopes(obj)
                                       \/ m[1] \in GetScopes(obj) /\ m[2] \in granting}}
         \union Superuser
         \union (IF ownerPerm THEN Owners(obj) ELSE {})

\* Request.who_can_accept and ApprovalStepState.who_can_approve ask the scope, not the request
WhoCanAccept == WhoHasPerm(quotaScope)
----------------------------------------------------------------------------
AccessInit ==
    /\ member = {} /\ granting = {} /\ globalPerm = FALSE /\ ownerPerm = FALSE
    /\ defaultRoles = [s \in Scope |-> {}]
    /\ orgOf = [t \in Team |-> NoOrg]
    /\ quotaScope \in Org
    /\ requester \in Somebody

----------------------------------------------------------------------------
\* Members.  The form and the serializer offer only the potential users.

GetPotentialUsers(s) == IF s \in Team THEN UsersOf(member, orgOf[s]) ELSE User

IsThere(s) == s \in Team => s \in ExistingTeam

AddUsers(s, rs, us) ==
    /\ IsThere(s)
    /\ us \subseteq GetPotentialUsers(s)
    /\ member' = member \union ({s} \X rs \X us)
    /\ UNCHANGED <<grants, places>>

WithoutUser(m, ss, u) == {x \in m : ~(x[1] \in ss /\ x[3] = u)}

\* mutant: the method of AbstractScope
RemovedFromRoleOnly(s, r, u) == member \ {<<s, r, u>>}

\* Organization.remove_user_in_role; Team has the method of AbstractScope.
RemovedFromRole(s, r, u) ==
    LET left == member \ {<<s, r, u>>}
    IN  IF s \in Org /\ u \notin UsersOf(left, s)
        THEN WithoutUser(left, TeamsOf(s), u)
        ELSE left

\* Organization.remove_user
RemovedUser(s, u) ==
    WithoutUser(member, {s} \union (IF s \in Org THEN TeamsOf(s) ELSE {}), u)

RemoveUserInRole(s, r, u) ==
    /\ IsThere(s)
    /\ member' = RemovedFromRole(s, r, u)
    /\ UNCHANGED <<grants, places>>

RemoveUser(s, u) ==
    /\ IsThere(s)
    /\ member' = RemovedUser(s, u)
    /\ UNCHANGED <<grants, places>>

\* The API's views load an AbstractScope, whose methods know nothing of teams.
RemoveUserInRoleAPI(s, r, u) ==
    /\ IsThere(s)
    /\ member' = member \ {<<s, r, u>>}
    /\ UNCHANGED <<grants, places>>

RemoveUserAPI(s, u) ==
    /\ IsThere(s)
    /\ member' = WithoutUser(member, {s}, u)
    /\ UNCHANGED <<grants, places>>

----------------------------------------------------------------------------
\* Scopes

EditOrganization(o, rs) ==
    /\ defaultRoles' = [defaultRoles EXCEPT ![o] = rs]
    /\ UNCHANGED <<member, granting, globalPerm, ownerPerm, places>>

\* Creating a team, and editing one: the form and the serializer have the field org.
SaveTeam(t, o, rs) ==
    /\ orgOf' = [orgOf EXCEPT ![t] = o]
    /\ defaultRoles' = [defaultRoles EXCEPT ![t] = rs]
    /\ UNCHANGED <<member, granting, globalPerm, ownerPerm, quotaScope, requester>>

CreateTeam(t, o, rs) == t \notin ExistingTeam /\ SaveTeam(t, o, rs)
EditTeam(t, o, rs) == t \in ExistingTeam /\ SaveTeam(t, o, rs)

\* on_delete=PROTECT of Instance.quota_scope and Team.org
Unprotected(s) == quotaScope # s /\ \A t \in Team : orgOf[t] # s

\* the RBAC of the scope are deleted with it (CASCADE)
DeleteScope(s) ==
    /\ IsThere(s) /\ Unprotected(s)
    /\ member' = {m \in member : m[1] # s}
    /\ defaultRoles' = [defaultRoles EXCEPT ![s] = {}]
    /\ orgOf' = IF s \in Team THEN [orgOf EXCEPT ![s] = NoOrg] ELSE orgOf
    /\ UNCHANGED <<granting, globalPerm, ownerPerm, quotaScope, requester>>

----------------------------------------------------------------------------
\* Roles, permissions and the instance

EditRole(r) ==
    /\ granting' = IF r \in granting THEN granting \ {r} ELSE granting \union {r}
    /\ UNCHANGED <<member, defaultRoles, globalPerm, ownerPerm, places>>

DeleteRole(r) ==
    /\ member' = {m \in member : m[2] # r}
    /\ granting' = granting \ {r}
    /\ defaultRoles' = [s \in Scope |-> defaultRoles[s] \ {r}]
    /\ UNCHANGED <<globalPerm, ownerPerm, places>>

EditGlobalScope(g, o) ==
    /\ globalPerm' = g /\ ownerPerm' = o
    /\ UNCHANGED <<member, granting, defaultRoles, places>>

EditInstance(s, u) ==
    /\ IsThere(s)
    /\ quotaScope' = s /\ requester' = u
    /\ UNCHANGED <<member, grants, orgOf>>

Grantable == Role \ Plain

MemberStep ==
    \/ \E s \in Scope, rs \in SUBSET Role, us \in SUBSET User : AddUsers(s, rs, us)
    \/ \E rs \in SUBSET Grantable, us \in SUBSET User : AddUsers(Global, rs, us)
    \/ \E s \in AbstractScope, r \in Role, u \in User : RemoveUserInRole(s, r, u)
    \/ \E s \in AbstractScope, u \in User : RemoveUser(s, u)

\* what may leave a user in a team and outside its organization
Bypass ==
    \/ \E s \in AbstractScope, r \in Role, u \in User : RemoveUserInRoleAPI(s, r, u)
    \/ \E s \in AbstractScope, u \in User : RemoveUserAPI(s, u)
    \/ \E t \in Team, o \in Org, rs \in SUBSET Grantable : EditTeam(t, o, rs)
    \/ \E r \in Role : DeleteRole(r)

AccessNext ==
    \/ MemberStep
    \/ Bypass
    \/ \E o \in Org, rs \in SUBSET Grantable : EditOrganization(o, rs)
    \/ \E t \in Team, o \in Org, rs \in SUBSET Grantable : CreateTeam(t, o, rs)
    \/ \E s \in Scope : DeleteScope(s)
    \/ \E r \in Grantable : EditRole(r)
    \/ \E g, o \in BOOLEAN : EditGlobalScope(g, o)
    \/ \E s \in Scope, u \in Somebody : EditInstance(s, u)

AccessSpec == AccessInit /\ [][AccessNext]_accessVars
----------------------------------------------------------------------------
\* Every variable keeps its type, every instance has a scope that exists, and a scope
\* that does not exist has neither users nor default roles.
AccessTypeOK ==
    /\ member \subseteq AbstractScope \X Role \X User
    /\ defaultRoles \in [Scope -> SUBSET Role]
    /\ granting \subseteq Role
    /\ globalPerm \in BOOLEAN /\ ownerPerm \in BOOLEAN
    /\ orgOf \in [Team -> Org \union {NoOrg}]
    /\ quotaScope \in Org \union ExistingTeam
    /\ requester \in Somebody
    /\ \A t \in Team \ ExistingTeam : defaultRoles[t] = {} /\ \A m \in member : m[1] # t

\* Checking a permission and listing the rows one has it on are two pieces of code:
\* squest_rbac.py asks for the scopes of the row, get_q_filter of each model joins from the
\* row to the members of its scopes.  They give the same answer on every row.
CheckAgreesWithList ==
    \A u \in User, obj \in Org \union ExistingTeam \union {Instance} \union Request :
        HasPerm(u, obj) <=> obj \in GetQuerysetForUser(u)

\* Checking a permission and asking who has it (mails and approvers) are two pieces of code,
\* the second one with its own copy of who owns what.  They give the same answer.
CheckAgreesWithWho ==
    \A u \in User, obj \in Org \union ExistingTeam \union {Instance} \union Request \union RequestMessage :
        HasPerm(u, obj) <=> u \in WhoHasPerm(obj)

\* The scopes offered in forms (Scope.get_q_filter), the quotas, and what is listed through
\* its instance follow the same rule, each with its own query.
ListsAgree ==
    \A u \in User :
        /\ Listed(u, Org \union ExistingTeam, ScopeQ(u))
              = {s \in Org \union ExistingTeam : HasPerm(u, s)}
        /\ Listed(u, Org \union ExistingTeam, QuotaQ(u))
              = {s \in Org \union ExistingTeam : HasPerm(u, s)}
        /\ Instance \in ThroughInstanceQ(u) <=> HasPerm(u, Instance)

\* The rule of who may do what has one meaning in all its copies.
AnswersAgree == CheckAgreesWithList /\ CheckAgreesWithWho /\ ListsAgree

\* Whoever is told that a request waits (who_can_accept) may act on it.
NotifiedMayAct == \A q \in Request : \A u \in WhoCanAccept \intersect User : HasPerm(u, q)

\* team.py: "The User must be in the Organization to be added in the Team".
TeamMembersInOrg ==
    \A t \in ExistingTeam : UsersOf(member, t) \subseteq UsersOf(member, orgOf[t])

\* Adding and removing users in the UI, whatever the scope and the number of roles, never leaves a
\* member of a team outside its organization (organization.py:26-37, team.py:43-54).
UsersLeaveTeamsFirst == [][TeamMembersInOrg /\ ~TeamMembersInOrg' => ~MemberStep]_accessVars
============================================================================
