-------------------------- MODULE PermissionProofs --------------------------
(***************************************************************************)
(* Theorems of ScopeAccess, of PermissionCache and of SupportDesk: who may *)
(* do what, the cache of these answers, and the pages that wait for them,  *)
(* for every set of users, roles, scopes, keys and handlers and every time *)
(* to live.                                                                *)
(*                                                                         *)
(* The three pieces of code that say who may do what agree for a reason    *)
(* that is not in their text: rows of different kinds never meet, a row    *)
(* always has a scope that exists, and a role is only ever given to a      *)
(* user.  The invariant is the type of the variables; each query is        *)
(* compared with one form of the rule, the scopes through which a user     *)
(* reaches a row.                                                          *)
(*                                                                         *)
(* A wrong entry of the cache is explained by something recent: the rows   *)
(* changed, or a handler that had read them before stored, no longer ago   *)
(* than the entry is old.  The other facts say that a handler that was not *)
(* overtaken by a change holds what the rows say, and that what the rows   *)
(* say is always among the answers a handler has seen.                     *)
(***************************************************************************)
EXTENDS ScopeAccess, SupportDesk, TLAPS

Existing == Org \union ExistingTeam

LEMMA ExistingTeamHasOrg ==
  ASSUME AccessTypeOK, NEW t \in ExistingTeam
  PROVE  t \in Team /\ orgOf[t] \in Org
  BY DEF AccessTypeOK, ExistingTeam

-----------------------------------------------------------------------------
(* The type invariant.                                                     *)

\* What a scope that does not exist must not have.
Vacant(t, m) == \A x \in m : x[1] # t

LEMMA MembersType ==
  ASSUME AccessTypeOK, NEW s \in AbstractScope, NEW rs \in SUBSET Role, NEW us \in SUBSET User,
         AddUsers(s, rs, us)
  PROVE  AccessTypeOK'
  <1>1. member' \subseteq AbstractScope \X Role \X User
    BY DEF AddUsers, AccessTypeOK
  <1>2. ASSUME NEW t \in Team \ ExistingTeam PROVE Vacant(t, member')
    <2>1. s # t
      BY <1>2 DEF AddUsers, IsThere
    <2> QED
      BY <1>2, <2>1 DEF AddUsers, Vacant, AccessTypeOK
  <1> QED
    BY <1>1, <1>2 DEF AddUsers, AccessTypeOK, Vacant, grants, places, ExistingTeam

LEMMA FewerMembersType ==
  ASSUME AccessTypeOK, member' \subseteq member, UNCHANGED <<grants, places>>
  PROVE  AccessTypeOK'
  BY DEF AccessTypeOK, grants, places, ExistingTeam

\* Every way of removing users only removes.
LEMMA RemovedIsLess ==
  ASSUME NEW s, NEW r, NEW u
  PROVE  RemovedFromRole(s, r, u) \subseteq member /\ RemovedUser(s, u) \subseteq member
  BY DEF RemovedFromRole, RemovedUser, WithoutUser

LEMMA SaveTeamType ==
  ASSUME AccessTypeOK, NEW t \in Team, NEW o \in Org, NEW rs \in SUBSET Role, SaveTeam(t, o, rs)
  PROVE  AccessTypeOK'
  <1>1. ExistingTeam' = ExistingTeam \union {t}
    BY Kinds DEF SaveTeam, ExistingTeam, AccessTypeOK
  <1> QED
    BY <1>1 DEF SaveTeam, AccessTypeOK, Scope

LEMMA DeleteScopeType ==
  ASSUME AccessTypeOK, NEW s \in Scope, DeleteScope(s)
  PROVE  AccessTypeOK'
  <1>1. ExistingTeam' = ExistingTeam \ {s}
    BY Kinds DEF DeleteScope, ExistingTeam, AccessTypeOK, Scope
  <1>2. orgOf' \in [Team -> Org \union {NoOrg}] /\ defaultRoles' \in [Scope -> SUBSET Role]
    BY DEF DeleteScope, AccessTypeOK
  <1>3. quotaScope' \in Org \union ExistingTeam'
    BY <1>1 DEF DeleteScope, Unprotected, AccessTypeOK
  <1>4. ASSUME NEW t \in Team \ ExistingTeam'
        PROVE  defaultRoles'[t] = {} /\ \A m \in member' : m[1] # t
    BY <1>1, <1>4 DEF DeleteScope, AccessTypeOK, Scope
  <1> QED
    BY <1>1, <1>2, <1>3, <1>4 DEF DeleteScope, AccessTypeOK

LEMMA DeleteRoleType ==
  ASSUME AccessTypeOK, NEW r \in Role, DeleteRole(r)
  PROVE  AccessTypeOK'
  BY DEF DeleteRole, AccessTypeOK, places, ExistingTeam, Scope

LEMMA AccessTypeStep == AccessTypeOK /\ [AccessNext]_accessVars => AccessTypeOK'
  <1> SUFFICES ASSUME AccessTypeOK, [AccessNext]_accessVars PROVE AccessTypeOK'
    OBVIOUS
  <1> USE Kinds DEF Grantable
  <1>1. ASSUME NEW s \in AbstractScope, NEW rs \in SUBSET Role, NEW us \in SUBSET User,
               AddUsers(s, rs, us)
        PROVE  AccessTypeOK'
    BY <1>1, MembersType
  <1>2. CASE \E s \in AbstractScope, r \in Role, u \in User :
                RemoveUserInRole(s, r, u) \/ RemoveUserInRoleAPI(s, r, u)
    BY <1>2, RemovedIsLess, FewerMembersType DEF RemoveUserInRole, RemoveUserInRoleAPI
  <1>3. CASE \E s \in AbstractScope, u \in User : RemoveUser(s, u) \/ RemoveUserAPI(s, u)
    BY <1>3, RemovedIsLess, FewerMembersType DEF RemoveUser, RemoveUserAPI, WithoutUser
  <1>4. CASE \E t \in Team, o \in Org, rs \in SUBSET Grantable :
                CreateTeam(t, o, rs) \/ EditTeam(t, o, rs)
    BY <1>4, SaveTeamType DEF CreateTeam, EditTeam
  <1>5. CASE \E r \in Role : DeleteRole(r)
    BY <1>5, DeleteRoleType
  <1>6. CASE \E o \in Org, rs \in SUBSET Grantable : EditOrganization(o, rs)
    BY <1>6 DEF EditOrganization, AccessTypeOK, places, ExistingTeam, Scope
  <1>7. CASE \E s \in Scope : DeleteScope(s)
    BY <1>7, DeleteScopeType
  <1>8. CASE \E r \in Grantable : EditRole(r)
    BY <1>8 DEF EditRole, AccessTypeOK, places, ExistingTeam
  <1>9. CASE \E g, o \in BOOLEAN : EditGlobalScope(g, o)
    BY <1>9 DEF EditGlobalScope, AccessTypeOK, places, ExistingTeam
  <1>10. CASE \E s \in Scope, u \in Somebody : EditInstance(s, u)
    BY <1>10 DEF EditInstance, IsThere, AccessTypeOK, grants, ExistingTeam, Scope
  <1>11. CASE UNCHANGED accessVars
    BY <1>11 DEF accessVars, grants, places, AccessTypeOK, ExistingTeam
  <1> QED
    BY <1>1, <1>2, <1>3, <1>4, <1>5, <1>6, <1>7, <1>8, <1>9, <1>10, <1>11
       DEF AccessNext, MemberStep, Bypass, AbstractScope

(* The scope of the instance always exists, and a scope that does not exist has neither
   users nor default roles, in whatever order scopes, teams, roles and members are edited
   and deleted. *)
THEOREM AccessTypeCorrect == AccessSpec => []AccessTypeOK
  <1>1. AccessInit => AccessTypeOK
    BY Kinds DEF AccessInit, AccessTypeOK, ExistingTeam, Scope
  <1> QED
    BY <1>1, AccessTypeStep, PTL DEF AccessSpec
-----------------------------------------------------------------------------
(* One form of the rule.                                                   *)

\* The organizations and teams through which a role reaches a row.
HomeOf(s) == {s} \union (IF s \in Team THEN {orgOf[s]} ELSE {})
Homes(obj) == HomeOf(IF obj \in Scope THEN obj ELSE quotaScope)

ReachesIn(u, s) == RoleIn(u, s) \/ DefaultIn(u, s)
Reaches(u, obj) == \E s \in Homes(obj) : ReachesIn(u, s)

\* The rows of the instance.
Things == {Instance} \union Request \union RequestMessage

LEMMA HomesAreScopes ==
  ASSUME AccessTypeOK, NEW obj \in Existing \union Things
  PROVE  /\ Homes(obj) \subseteq Scope
         /\ GetScopes(obj) = Homes(obj) \union {Global}
         /\ Global \notin Homes(obj)
  BY Kinds DEF AccessTypeOK, Existing, Things, ExistingTeam, Homes, HomeOf, GetScopes, ScopesOf, Scope

LEMMA CheckIsRule ==
  ASSUME AccessTypeOK, NEW u \in User, NEW obj \in Existing \union Things
  PROVE  HasPerm(u, obj) <=> HasGlobalPerm(u) \/ Reaches(u, obj) \/ (ownerPerm /\ IsOwner(u, obj))
  <1>1. (\E r \in granting, s \in GetScopes(obj) : <<s, r, u>> \in member)
          <=> (\E r \in granting : <<Global, r, u>> \in member) \/ \E s \in Homes(obj) : RoleIn(u, s)
    BY HomesAreScopes DEF RoleIn
  <1>2. (\E r \in granting, s \in GetScopes(obj) :
            s \in Scope /\ r \in defaultRoles[s] /\ u \in UsersOf(member, s))
          <=> \E s \in Homes(obj) : DefaultIn(u, s)
    BY HomesAreScopes, Kinds DEF DefaultIn
  <1> QED
    BY <1>1, <1>2 DEF HasPerm, HasGlobalPerm, Reaches, ReachesIn

LEMMA ScopesHaveNoOwner ==
  ASSUME AccessTypeOK, NEW u, NEW s \in Existing
  PROVE  ~IsOwner(u, s) /\ s \in Scope /\ s \notin Things
  BY Kinds, ExistingTeamHasOrg DEF IsOwner, Existing, Things, Scope

LEMMA ReachTeam ==
  ASSUME AccessTypeOK, NEW u, NEW t \in ExistingTeam
  PROVE  Reaches(u, t) <=> ReachesIn(u, t) \/ ReachesIn(u, orgOf[t])
  BY ExistingTeamHasOrg DEF Reaches, Homes, HomeOf, Scope

LEMMA ReachOrg ==
  ASSUME NEW u, NEW o \in Org
  PROVE  Reaches(u, o) <=> ReachesIn(u, o)
  BY Kinds DEF Reaches, Homes, HomeOf, Scope

LEMMA ReachThing ==
  ASSUME AccessTypeOK, NEW u, NEW obj \in Things
  PROVE  Reaches(u, obj) <=> Reaches(u, quotaScope)
  BY Kinds, ExistingTeamHasOrg DEF AccessTypeOK, Reaches, Homes, Things, Scope

-----------------------------------------------------------------------------
(* get_queryset_for_user and the lists of forms.                           *)

LEMMA ScopeQIsRule ==
  ASSUME AccessTypeOK, NEW u, NEW s \in Existing
  PROVE  /\ s \in ScopeQ(u) <=> Reaches(u, s)
         /\ s \in QuotaQ(u) <=> Reaches(u, s)
         /\ s \in Org => (s \in OrganizationQ(u) <=> Reaches(u, s))
         /\ s \in ExistingTeam => (s \in TeamQ(u) <=> Reaches(u, s))
  <1>1. CASE s \in Org
    <2>1. s \notin ExistingTeam
      BY <1>1, Kinds, ExistingTeamHasOrg
    <2> QED
      BY <1>1, <2>1, ReachOrg DEF ReachesIn, ScopeQ, QuotaQ, OrganizationQ, TeamQ
  <1>2. CASE s \in ExistingTeam
    <2>1. s \notin Org
      BY <1>2, Kinds, ExistingTeamHasOrg
    <2> QED
      BY <1>2, <2>1, ReachTeam DEF ReachesIn, ScopeQ, QuotaQ, OrganizationQ, TeamQ
  <1> QED
    BY <1>1, <1>2 DEF Existing

LEMMA InstanceQIsRule ==
  ASSUME AccessTypeOK, NEW u
  PROVE  Instance \in InstanceQ(u) <=> Reaches(u, quotaScope) \/ (ownerPerm /\ requester = u)
  <1>1. CASE quotaScope \in Org
    <2>1. quotaScope \notin ExistingTeam
      BY <1>1, Kinds, ExistingTeamHasOrg
    <2> QED
      BY <1>1, <2>1, ReachOrg DEF ReachesIn, InstanceQ
  <1>2. CASE quotaScope \in ExistingTeam
    BY <1>2, ReachTeam DEF ReachesIn, InstanceQ
  <1> QED
    BY <1>1, <1>2 DEF AccessTypeOK

LEMMA InstanceListed ==
  ASSUME AccessTypeOK, NEW u \in User
  PROVE  Instance \in Listed(u, {Instance}, InstanceQ(u)) <=> HasPerm(u, Instance)
  <1>1. IsOwner(u, Instance) <=> requester = u
    BY Kinds DEF IsOwner, OwnsInstance
  <1> QED
    BY <1>1, CheckIsRule, ReachThing, InstanceQIsRule DEF Listed, Things

LEMMA RequestListed ==
  ASSUME AccessTypeOK, NEW u \in User, NEW q \in Request
  PROVE  q \in Listed(u, Request, RequestQ(u)) <=> HasPerm(u, q)
  <1>1. IsOwner(u, q) <=> requester = u \/ RequestedBy[q] = u
    BY Kinds DEF IsOwner, OwnsRequest, OwnsInstance
  <1>2. q \in Things /\ Instance \in Things
    BY DEF Things
  <1> QED
    BY <1>1, <1>2, CheckIsRule, ReachThing, InstanceQIsRule DEF Listed, RequestQ

LEMMA ScopeListed ==
  ASSUME AccessTypeOK, NEW u \in User, NEW s \in Existing
  PROVE  /\ HasPerm(u, s) <=> HasGlobalPerm(u) \/ Reaches(u, s)
         /\ s \in Org => (s \in Listed(u, Org, OrganizationQ(u)) <=> HasPerm(u, s))
         /\ s \in ExistingTeam => (s \in Listed(u, ExistingTeam, TeamQ(u)) <=> HasPerm(u, s))
  BY CheckIsRule, ScopesHaveNoOwner, ScopeQIsRule DEF Listed

\* What is listed of a kind is of that kind: the lists of two kinds never meet.
LEMMA KindsAreListedApart ==
  ASSUME NEW u
  PROVE  /\ Listed(u, Org, OrganizationQ(u)) \subseteq Org
         /\ Listed(u, ExistingTeam, TeamQ(u)) \subseteq ExistingTeam
         /\ Listed(u, {Instance}, InstanceQ(u)) \subseteq {Instance}
         /\ Listed(u, Request, RequestQ(u)) \subseteq Request
  BY DEF Listed, OrganizationQ, TeamQ, InstanceQ, RequestQ

LEMMA ListIsCheck == AccessTypeOK => CheckAgreesWithList
  <1> SUFFICES ASSUME AccessTypeOK, NEW u \in User, NEW obj \in Existing \union {Instance} \union Request
               PROVE  HasPerm(u, obj) <=> obj \in GetQuerysetForUser(u)
    BY DEF CheckAgreesWithList, Existing
  <1> DEFINE L(xs, q) == Listed(u, xs, q)
  <1>1. CASE obj \in Org
    <2>1. obj \notin ExistingTeam /\ obj # Instance /\ obj \notin Request
      BY <1>1, Kinds DEF Scope, ExistingTeam
    <2> QED
      BY <1>1, <2>1, KindsAreListedApart, ScopeListed DEF GetQuerysetForUser, Existing
  <1>2. CASE obj \in ExistingTeam
    <2>1. obj \notin Org /\ obj # Instance /\ obj \notin Request
      BY <1>2, Kinds DEF Scope, ExistingTeam
    <2> QED
      BY <1>2, <2>1, KindsAreListedApart, ScopeListed DEF GetQuerysetForUser, Existing
  <1>3. CASE obj = Instance
    <2>1. obj \notin Org /\ obj \notin ExistingTeam /\ obj \notin Request
      BY <1>3, Kinds DEF Scope, ExistingTeam
    <2> QED
      BY <1>3, <2>1, KindsAreListedApart, InstanceListed DEF GetQuerysetForUser
  <1>4. CASE obj \in Request
    <2>1. obj \notin Org /\ obj \notin ExistingTeam /\ obj # Instance
      BY <1>4, Kinds DEF Scope, ExistingTeam
    <2> QED
      BY <1>4, <2>1, KindsAreListedApart, RequestListed DEF GetQuerysetForUser
  <1> QED
    BY <1>1, <1>2, <1>3, <1>4 DEF Existing

LEMMA ListsFollow == AccessTypeOK => ListsAgree
  <1> SUFFICES ASSUME AccessTypeOK, NEW u \in User
               PROVE  /\ Listed(u, Existing, ScopeQ(u)) = {s \in Existing : HasPerm(u, s)}
                      /\ Listed(u, Existing, QuotaQ(u)) = {s \in Existing : HasPerm(u, s)}
                      /\ Instance \in ThroughInstanceQ(u) <=> HasPerm(u, Instance)
    BY DEF ListsAgree, Existing
  <1>1. ScopeQ(u) \subseteq Existing /\ QuotaQ(u) \subseteq Existing
    BY DEF ScopeQ, QuotaQ, TeamQ, OrganizationQ, Existing
  <1> QED
    BY <1>1, ScopeListed, ScopeQIsRule, InstanceListed DEF Listed, ThroughInstanceQ

-----------------------------------------------------------------------------
(* who_has_perm.                                                           *)

LEMMA OwnersOwn ==
  ASSUME AccessTypeOK, NEW u \in User, NEW obj \in Existing \union Things
  PROVE  u \in Owners(obj) <=> IsOwner(u, obj)
  BY Kinds, ScopesHaveNoOwner
     DEF Owners, IsOwner, OwnsMessage, OwnsRequest, OwnsInstance, Existing, Things

LEMMA MembersReach ==
  ASSUME AccessTypeOK, NEW u \in User, NEW obj \in Existing \union Things
  PROVE  (\E m \in member : /\ m[3] = u
                           /\ \/ m[1] \in DefaultRoleScopes(obj)
                              \/ m[1] \in GetScopes(obj) /\ m[2] \in granting)
           <=> (\E r \in granting : <<Global, r, u>> \in member) \/ Reaches(u, obj)
  <1>1. \A m \in member : m = <<m[1], m[2], m[3]>> /\ m[1] \in AbstractScope /\ m[2] \in Role /\ m[3] \in User
    BY DEF AccessTypeOK
  <1>2. (\E m \in member : m[3] = u /\ m[1] \in GetScopes(obj) /\ m[2] \in granting)
           <=> \E s \in GetScopes(obj) : RoleIn(u, s)
    <2>1. ASSUME NEW m \in member, m[3] = u, m[1] \in GetScopes(obj), m[2] \in granting
          PROVE  \E s \in GetScopes(obj) : RoleIn(u, s)
      BY <1>1, <2>1 DEF RoleIn
    <2>2. ASSUME NEW s \in GetScopes(obj), NEW r \in granting, <<s, r, u>> \in member
          PROVE  \E m \in member : m[3] = u /\ m[1] \in GetScopes(obj) /\ m[2] \in granting
      <3> WITNESS <<s, r, u>> \in member
      <3> QED
        BY <2>2
    <2> QED
      BY <2>1, <2>2 DEF RoleIn
  <1>3. (\E m \in member : m[3] = u /\ m[1] \in DefaultRoleScopes(obj))
           <=> \E s \in DefaultRoleScopes(obj) : u \in UsersOf(member, s)
    <2>1. ASSUME NEW m \in member, m[3] = u, m[1] \in DefaultRoleScopes(obj)
          PROVE  \E s \in DefaultRoleScopes(obj) : u \in UsersOf(member, s)
      BY <1>1, <2>1 DEF UsersOf
    <2>2. ASSUME NEW s \in DefaultRoleScopes(obj), NEW r \in Role, <<s, r, u>> \in member
          PROVE  \E m \in member : m[3] = u /\ m[1] \in DefaultRoleScopes(obj)
      <3> WITNESS <<s, r, u>> \in member
      <3> QED
        BY <2>2
    <2> QED
      BY <2>1, <2>2 DEF UsersOf
  <1>4. (\E s \in DefaultRoleScopes(obj) : u \in UsersOf(member, s))
           <=> \E s \in Homes(obj) : DefaultIn(u, s)
    BY HomesAreScopes DEF DefaultRoleScopes, DefaultIn
  <1>5. (\E s \in GetScopes(obj) : RoleIn(u, s))
           <=> (\E r \in granting : <<Global, r, u>> \in member) \/ \E s \in Homes(obj) : RoleIn(u, s)
    BY HomesAreScopes DEF RoleIn
  <1> QED
    BY <1>2, <1>3, <1>4, <1>5 DEF Reaches, ReachesIn

LEMMA WhoIsCheck == AccessTypeOK => CheckAgreesWithWho
  <1> SUFFICES ASSUME AccessTypeOK, NEW u \in User, NEW obj \in Existing \union Things
               PROVE  HasPerm(u, obj) <=> u \in WhoHasPerm(obj)
    BY DEF CheckAgreesWithWho, Existing, Things
  <1>1. CASE globalPerm
    BY <1>1 DEF HasPerm, WhoHasPerm, Somebody
  <1>2. CASE ~globalPerm
    <2>1. u \in WhoHasPerm(obj)
            <=> \/ \E m \in member : /\ m[3] = u
                                   /\ \/ m[1] \in DefaultRoleScopes(obj)
                                      \/ m[1] \in GetScopes(obj) /\ m[2] \in granting
                \/ u \in Superuser
                \/ ownerPerm /\ u \in Owners(obj)
      BY <1>2 DEF WhoHasPerm
    <2> QED
      BY <1>2, <2>1, MembersReach, OwnersOwn, CheckIsRule DEF HasGlobalPerm
  <1> QED
    BY <1>1, <1>2

-----------------------------------------------------------------------------
(* The check of a permission, the lists of rows and the search for the users who may act
   give the same answer on every row, whoever edits scopes, roles and members and however
   many of them there are. *)
THEOREM OneRule == AccessSpec => []AnswersAgree
  <1>1. AccessTypeOK => AnswersAgree
    BY ListIsCheck, WhoIsCheck, ListsFollow DEF AnswersAgree
  <1> QED
    BY <1>1, AccessTypeCorrect, PTL

(* Whoever is told that a request waits for him may act on it, although the search for
   approvers asks the scope of the instance and the check asks the request. *)
THEOREM ToldMayAct == AccessSpec => []NotifiedMayAct
  <1>1. AccessTypeOK => NotifiedMayAct
    <2> SUFFICES ASSUME AccessTypeOK, NEW q \in Request, NEW u \in User, u \in WhoHasPerm(quotaScope)
                 PROVE  HasPerm(u, q)
      BY DEF NotifiedMayAct, WhoCanAccept
    <2>1. quotaScope \in Existing /\ q \in Things
      BY DEF AccessTypeOK, Existing, Things
    <2>2. HasPerm(u, quotaScope)
      BY <2>1, WhoIsCheck DEF CheckAgreesWithWho, Existing
    <2> QED
      BY <2>1, <2>2, ScopeListed, CheckIsRule, ReachThing
  <1> QED
    BY <1>1, AccessTypeCorrect, PTL

-----------------------------------------------------------------------------
(* Adding and removing members.                                            *)

LEMMA FewerUsers ==
  ASSUME NEW m, NEW n, m \subseteq n, NEW s
  PROVE  UsersOf(m, s) \subseteq UsersOf(n, s)
  BY DEF UsersOf

LEMMA AddKeepsTeams ==
  ASSUME AccessTypeOK, TeamMembersInOrg, NEW s \in AbstractScope, NEW rs \in SUBSET Role,
         NEW us \in SUBSET User, AddUsers(s, rs, us)
  PROVE  TeamMembersInOrg'
  <1> SUFFICES ASSUME NEW t \in ExistingTeam, NEW u \in User, NEW r \in Role, <<t, r, u>> \in member'
               PROVE  u \in UsersOf(member', orgOf[t])
    BY DEF TeamMembersInOrg, AddUsers, places, ExistingTeam, UsersOf
  <1>1. UsersOf(member, orgOf[t]) \subseteq UsersOf(member', orgOf[t])
    BY FewerUsers DEF AddUsers
  <1>2. CASE <<t, r, u>> \in member
    BY <1>1, <1>2 DEF TeamMembersInOrg, UsersOf
  <1>3. CASE <<t, r, u>> \notin member
    <2>1. s = t /\ u \in us
      BY <1>3 DEF AddUsers
    <2> QED
      BY <1>1, <2>1, ExistingTeamHasOrg DEF AddUsers, GetPotentialUsers
  <1> QED
    BY <1>2, <1>3

\* Only u left, and from the scope s or from the teams of s.
OnlyLeft(s, u) ==
  \A x \in member : x \notin member' => x[3] = u /\ (x[1] = s \/ (s \in Org /\ x[1] \in TeamsOf(s)))

\* Whoever left the organization s left its teams.
LeftTeams(s, u) ==
  s \in Org /\ u \notin UsersOf(member', s) => \A x \in member' : ~(x[1] \in TeamsOf(s) /\ x[3] = u)

LEMMA RemoveKeepsTeams ==
  ASSUME AccessTypeOK, TeamMembersInOrg, UNCHANGED places, member' \subseteq member, NEW s, NEW u,
         OnlyLeft(s, u), LeftTeams(s, u)
  PROVE  TeamMembersInOrg'
  <1> SUFFICES ASSUME NEW t \in ExistingTeam, NEW v \in User, NEW r \in Role, <<t, r, v>> \in member'
               PROVE  v \in UsersOf(member', orgOf[t])
    BY DEF TeamMembersInOrg, places, ExistingTeam, UsersOf
  <1>1. orgOf[t] \in Org /\ t \in TeamsOf(orgOf[t])
    BY ExistingTeamHasOrg DEF TeamsOf
  <1>2. PICK q \in Role : <<orgOf[t], q, v>> \in member
    BY DEF TeamMembersInOrg, UsersOf
  <1>3. CASE <<orgOf[t], q, v>> \in member'
    BY <1>3 DEF UsersOf
  <1>4. CASE <<orgOf[t], q, v>> \notin member'
    <2>1. v = u /\ (orgOf[t] = s \/ orgOf[t] \in TeamsOf(s))
      BY <1>2, <1>4 DEF OnlyLeft
    <2>2. orgOf[t] = s
      BY <1>1, <2>1, Kinds DEF TeamsOf
    <2>3. CASE u \in UsersOf(member', s)
      BY <2>1, <2>2, <2>3
    <2>4. CASE u \notin UsersOf(member', s)
      BY <1>1, <2>1, <2>2, <2>4 DEF LeftTeams
    <2> QED
      BY <2>3, <2>4
  <1> QED
    BY <1>3, <1>4

LEMMA MemberStepKeepsTeams ==
  ASSUME AccessTypeOK, TeamMembersInOrg, MemberStep
  PROVE  TeamMembersInOrg'
  <1>1. ASSUME NEW s \in AbstractScope, NEW rs \in SUBSET Role, NEW us \in SUBSET User,
               AddUsers(s, rs, us)
        PROVE  TeamMembersInOrg'
    BY <1>1, AddKeepsTeams
  <1>2. ASSUME NEW s \in AbstractScope, NEW r \in Role, NEW u \in User, RemoveUserInRole(s, r, u)
        PROVE  TeamMembersInOrg'
    <2> DEFINE left == member \ {<<s, r, u>>}
    <2>1. UNCHANGED places /\ member' \subseteq member
      BY <1>2, RemovedIsLess DEF RemoveUserInRole
    <2>2. CASE s \in Org /\ u \notin UsersOf(left, s)
      <3>1. member' = WithoutUser(left, TeamsOf(s), u)
        BY <1>2, <2>2 DEF RemoveUserInRole, RemovedFromRole
      <3>2. OnlyLeft(s, u) /\ LeftTeams(s, u)
        BY <2>2, <3>1 DEF WithoutUser, OnlyLeft, LeftTeams
      <3> QED
        BY <2>1, <3>2, RemoveKeepsTeams
    <2>3. CASE ~(s \in Org /\ u \notin UsersOf(left, s))
      <3>1. member' = left
        BY <1>2, <2>3 DEF RemoveUserInRole, RemovedFromRole
      <3>2. OnlyLeft(s, u) /\ LeftTeams(s, u)
        BY <2>3, <3>1 DEF OnlyLeft, LeftTeams
      <3> QED
        BY <2>1, <3>2, RemoveKeepsTeams
    <2> QED
      BY <2>2, <2>3
  <1>3. ASSUME NEW s \in AbstractScope, NEW u \in User, RemoveUser(s, u)
        PROVE  TeamMembersInOrg'
    <2>1. UNCHANGED places /\ member' \subseteq member
      BY <1>3, RemovedIsLess DEF RemoveUser
    <2>2. OnlyLeft(s, u) /\ LeftTeams(s, u)
      BY <1>3 DEF RemoveUser, RemovedUser, WithoutUser, OnlyLeft, LeftTeams
    <2> QED
      BY <2>1, <2>2, RemoveKeepsTeams
  <1> QED
    BY <1>1, <1>2, <1>3, Kinds DEF MemberStep, AbstractScope, Grantable

(* Adding and removing users in the pages, whatever the scope and the number of roles, never
   leaves a member of a team outside its organization. *)
THEOREM UsersLeaveFirst == AccessSpec => UsersLeaveTeamsFirst
  <1>1. AccessTypeOK /\ [AccessNext]_accessVars => [TeamMembersInOrg /\ ~TeamMembersInOrg' => ~MemberStep]_accessVars
    BY MemberStepKeepsTeams
  <1> QED
    BY <1>1, AccessTypeCorrect, PTL DEF AccessSpec, UsersLeaveTeamsFirst

-----------------------------------------------------------------------------
WrongIsRecent ==
    \A k \in Key : entry[k] # Missing /\ entry[k].answer # Granted(k) => entry[k].left + quiet[k] <= Ttl

HoldsRight(th) ==
    /\ th.at = "owner" => ~byRole[th.key]
    /\ th.at = "store" => th.answer = Granted(th.key)

SeesRight(th) ==
    /\ Granted(th.key) \in th.seen
    /\ th.at = "store" /\ th.answer => TRUE \in th.seen

Honest(th) == (~th.late => HoldsRight(th)) /\ SeesRight(th)

HandlersAreHonest == \A t \in Thread : thread[t].at # "idle" => Honest(thread[t])

IInv == TypeOK /\ WrongIsRecent /\ HandlersAreHonest

-----------------------------------------------------------------------------
(* The changed record of a handler.                                        *)

LEMMA AnsweredType ==
    ASSUME NEW th \in Busy, NEW a \in BOOLEAN
    PROVE  LET new == [th EXCEPT !.at = "store", !.answer = a]
           IN  /\ new \in Busy
               /\ new.at = "store" /\ new.answer = a
               /\ new.key = th.key /\ new.seen = th.seen /\ new.late = th.late
  BY DEF Busy

LEMMA OvertakenType ==
    ASSUME NEW th \in Busy, NEW g \in BOOLEAN
    PROVE  LET new == [th EXCEPT !.late = TRUE, !.seen = @ \union {g}]
           IN  /\ new \in Busy
               /\ new.at = th.at /\ new.answer = th.answer
               /\ new.key = th.key /\ new.seen = th.seen \union {g} /\ new.late = TRUE
  BY DEF Busy

LEMMA AgedType ==
    ASSUME NEW e \in Entry
    PROVE  \/ Aged(e) = Missing
           \/ Aged(e) \in Entry /\ Aged(e).answer = e.answer /\ Aged(e).left = e.left - 1
  BY TtlAssumption DEF Entry, Aged

LEMMA BusyIsNotIdle ==
    ASSUME NEW th \in Idle \union Busy
    PROVE  th.at # "idle" <=> th \in Busy
  BY DEF Idle, Busy

-----------------------------------------------------------------------------
(* An empty cache and idle handlers satisfy the invariant of the cache. *)
THEOREM InitIInv == Init => IInv
  <1> SUFFICES ASSUME Init PROVE IInv
    OBVIOUS
  <1>1. [at |-> "idle"] \in Idle
    BY DEF Idle
  <1>2. TypeOK
    BY <1>1, TtlAssumption DEF Init, TypeOK
  <1>3. WrongIsRecent
    BY DEF Init, WrongIsRecent
  <1>4. HandlersAreHonest
    BY DEF Init, HandlersAreHonest
  <1> QED
    BY <1>2, <1>3, <1>4 DEF IInv

-----------------------------------------------------------------------------
(* One lemma per action.                                                   *)

LEMMA AskRolesKeeps ==
  ASSUME IInv, NEW t \in Thread, NEW k \in Key, AskRoles(t, k)
  PROVE  IInv'
  <1> DEFINE new == [at |-> IF byRole[k] THEN "store" ELSE "owner", key |-> k, answer |-> byRole[k],
                     seen |-> {Granted(k)}, late |-> FALSE]
  <1>1. byRole[k] \in BOOLEAN /\ Granted(k) \in BOOLEAN
    BY DEF IInv, TypeOK, Granted
  <1>2. new \in Busy
    BY <1>1 DEF Busy
  <1>3. Honest(new)
    BY <1>1, Zenon DEF Honest, HoldsRight, SeesRight, Granted
  <1>4. /\ thread' = [thread EXCEPT ![t] = new]
        /\ UNCHANGED <<byRole, byOwner, entry, quiet>>
    BY DEF AskRoles
  <1> HIDE DEF new
  <1>5. TypeOK'
    BY <1>2, <1>4 DEF IInv, TypeOK
  <1>6. WrongIsRecent'
    BY <1>4 DEF IInv, WrongIsRecent, Granted
  <1>7. HandlersAreHonest'
    BY <1>3, <1>4 DEF IInv, TypeOK, HandlersAreHonest, Honest, HoldsRight, SeesRight, Granted
  <1> QED
    BY <1>5, <1>6, <1>7 DEF IInv

LEMMA AskOwnerKeeps ==
  ASSUME IInv, NEW t \in Thread, AskOwner(t)
  PROVE  IInv'
  <1> DEFINE th == thread[t]
             new == [th EXCEPT !.at = "store", !.answer = byOwner[th.key]]
  <1>1. th \in Busy /\ th.at = "owner"
    BY BusyIsNotIdle DEF IInv, TypeOK, AskOwner
  <1>2. th.key \in Key /\ byOwner[th.key] \in BOOLEAN
    BY <1>1 DEF Busy, IInv, TypeOK
  <1>3. /\ thread' = [thread EXCEPT ![t] = new]
        /\ UNCHANGED <<byRole, byOwner, entry, quiet>>
    BY DEF AskOwner
  <1>4. /\ new \in Busy
        /\ new.at = "store" /\ new.answer = byOwner[th.key]
        /\ new.key = th.key /\ new.seen = th.seen /\ new.late = th.late
    BY <1>1, <1>2, AnsweredType
  <1>5. Honest(th)
    BY <1>1 DEF IInv, HandlersAreHonest
  <1> HIDE DEF new, th
  <1>6. HoldsRight(th) => HoldsRight(new)
    BY <1>1, <1>2, <1>4, Zenon DEF HoldsRight, Granted
  <1>7. SeesRight(new)
    <2>1. new.answer => Granted(th.key) = TRUE
      BY <1>4, Zenon DEF Granted
    <2> QED
      BY <1>4, <1>5, <2>1 DEF Honest, SeesRight
  <1>8. Honest(new)
    BY <1>4, <1>5, <1>6, <1>7 DEF Honest
  <1>9. TypeOK'
    BY <1>3, <1>4 DEF IInv, TypeOK
  <1>10. WrongIsRecent'
    BY <1>3 DEF IInv, WrongIsRecent, Granted
  <1>11. HandlersAreHonest'
    BY <1>3, <1>8 DEF IInv, TypeOK, HandlersAreHonest, Honest, HoldsRight, SeesRight, Granted
  <1> QED
    BY <1>9, <1>10, <1>11 DEF IInv

LEMMA StoreKeeps ==
  ASSUME IInv, NEW t \in Thread, Store(t)
  PROVE  IInv'
  <1> DEFINE th == thread[t]
             k == th.key
             new == [answer |-> th.answer, left |-> Ttl]
  <1>1. th \in Busy /\ th.at = "store"
    BY BusyIsNotIdle DEF IInv, TypeOK, Store
  <1>2. k \in Key /\ th.answer \in BOOLEAN /\ th.late \in BOOLEAN
    BY <1>1 DEF Busy
  <1>3. new \in Entry /\ new.answer = th.answer /\ new.left = Ttl /\ new # Missing
    BY <1>2, TtlAssumption, MissingAssumption DEF Entry
  <1>4. /\ entry' = [entry EXCEPT ![k] = new]
        /\ quiet' = IF th.late THEN [quiet EXCEPT ![k] = 0] ELSE quiet
        /\ thread' = [thread EXCEPT ![t] = [at |-> "idle"]]
        /\ UNCHANGED <<byRole, byOwner>>
    BY DEF Store, Stored
  <1>5. ~th.late => th.answer = Granted(k)
    BY <1>1 DEF IInv, HandlersAreHonest, Honest, HoldsRight
  <1> HIDE DEF new, th, k
  <1>6. TypeOK'
    <2>1. [at |-> "idle"] \in Idle
      BY DEF Idle
    <2> QED
      BY <1>2, <1>3, <1>4, <2>1, TtlAssumption DEF IInv, TypeOK
  <1>7. WrongIsRecent'
    <2> SUFFICES ASSUME NEW q \in Key, entry'[q] # Missing, entry'[q].answer # Granted(q)
                 PROVE  entry'[q].left + quiet'[q] <= Ttl
      BY <1>4 DEF WrongIsRecent, Granted
    <2>1. CASE q # k
      BY <1>2, <1>4, <2>1 DEF IInv, TypeOK, WrongIsRecent
    <2>2. CASE q = k
      <3>1. entry'[q] = new
        BY <1>2, <1>4, <2>2 DEF IInv, TypeOK
      <3>2. th.late
        BY <1>3, <1>5, <2>2, <3>1
      <3>3. quiet'[q] = 0
        BY <1>2, <1>4, <2>2, <3>2 DEF IInv, TypeOK
      <3> QED
        BY <1>3, <3>1, <3>3, TtlAssumption
    <2> QED
      BY <2>1, <2>2
  <1>8. HandlersAreHonest'
    BY <1>4 DEF IInv, TypeOK, HandlersAreHonest, Honest, HoldsRight, SeesRight, Granted
  <1> QED
    BY <1>6, <1>7, <1>8 DEF IInv

LEMMA ChangeKeeps ==
  ASSUME IInv, NEW k \in Key, Change(k)
  PROVE  IInv'
  <1> DEFINE g == byRole'[k] \/ byOwner'[k]
             over(t) == [thread[t] EXCEPT !.late = TRUE, !.seen = @ \union {g}]
  <1>1. PICK r, o \in BOOLEAN : byRole' = [byRole EXCEPT ![k] = r] /\ byOwner' = [byOwner EXCEPT ![k] = o]
    BY DEF Change
  <1>2. /\ byRole' \in [Key -> BOOLEAN] /\ byOwner' \in [Key -> BOOLEAN]
        /\ \A q \in Key : q # k => byRole'[q] = byRole[q] /\ byOwner'[q] = byOwner[q]
    BY <1>1 DEF IInv, TypeOK
  <1>3. g \in BOOLEAN /\ g = Granted(k)'
    BY DEF Granted
  <1>4. /\ thread' = [t \in Thread |-> IF Asks(t, k) THEN over(t) ELSE thread[t]]
        /\ quiet' = [quiet EXCEPT ![k] = 0]
        /\ entry' = entry
    BY DEF Change
  <1> HIDE DEF g
  <1>5. ASSUME NEW t \in Thread, Asks(t, k)
        PROVE  /\ thread[t] \in Busy /\ over(t) \in Busy
               /\ over(t).at = thread[t].at /\ over(t).answer = thread[t].answer
               /\ over(t).key = k /\ over(t).seen = thread[t].seen \union {g} /\ over(t).late = TRUE
    <2>1. thread[t] \in Busy /\ thread[t].key = k
      BY <1>5, BusyIsNotIdle DEF IInv, TypeOK, Asks
    <2> QED
      BY <1>3, <2>1, OvertakenType
  <1> HIDE DEF over
  <1>6. TypeOK'
    <2>1. thread' \in [Thread -> Idle \union Busy]
      BY <1>4, <1>5 DEF IInv, TypeOK
    <2>2. quiet' \in [Key -> 0..Ttl]
      BY <1>4, TtlAssumption DEF IInv, TypeOK
    <2> QED
      BY <1>2, <1>4, <2>1, <2>2 DEF IInv, TypeOK
  <1>7. WrongIsRecent'
    <2> SUFFICES ASSUME NEW q \in Key, entry[q] # Missing, entry[q].answer # Granted(q)'
                 PROVE  entry[q].left + quiet'[q] <= Ttl
      BY <1>4 DEF WrongIsRecent
    <2>1. CASE q # k
      BY <1>2, <1>4, <2>1 DEF IInv, TypeOK, WrongIsRecent, Granted
    <2>2. CASE q = k
      BY <1>4, <2>2, TtlAssumption DEF IInv, TypeOK, Entry
    <2> QED
      BY <2>1, <2>2
  <1>8. ASSUME NEW t \in Thread, thread'[t].at # "idle"
        PROVE  Honest(thread[t])'
    <2>1. CASE Asks(t, k)
      <3>1. thread'[t] = over(t)
        BY <1>4, <2>1
      <3>2. SeesRight(thread[t])
        BY <2>1 DEF Asks, IInv, HandlersAreHonest, Honest
      <3>3. g \in over(t).seen /\ (over(t).at = "store" /\ over(t).answer => TRUE \in over(t).seen)
        BY <1>5, <2>1, <3>2 DEF SeesRight
      <3>4. /\ g \in thread'[t].seen /\ thread'[t].late = TRUE /\ thread'[t].key = k
            /\ thread'[t].at = "store" /\ thread'[t].answer => TRUE \in thread'[t].seen
        BY <1>5, <2>1, <3>1, <3>3
      <3> QED
        BY <1>3, <3>4 DEF Honest, SeesRight, HoldsRight, Granted
    <2>2. CASE ~Asks(t, k)
      <3>1. thread'[t] = thread[t] /\ thread[t].at # "idle" /\ thread[t].key # k
        BY <1>4, <1>8, <2>2 DEF Asks
      <3>2. thread[t].key \in Key
        BY <3>1, BusyIsNotIdle DEF IInv, TypeOK, Busy
      <3> QED
        BY <1>2, <3>1, <3>2 DEF IInv, HandlersAreHonest, Honest, HoldsRight, SeesRight, Granted
    <2> QED
      BY <2>1, <2>2
  <1> QED
    BY <1>6, <1>7, <1>8 DEF IInv, HandlersAreHonest

LEMMA TickKeeps ==
  ASSUME IInv, Tick
  PROVE  IInv'
  <1>1. ASSUME NEW k \in Key, entry[k] # Missing
        PROVE  /\ entry[k] \in Entry
               /\ \/ entry'[k] = Missing
                  \/ /\ entry'[k] \in Entry /\ entry'[k].answer = entry[k].answer
                     /\ entry'[k].left = entry[k].left - 1
    <2>1. entry[k] \in Entry /\ entry'[k] = Aged(entry[k])
      BY <1>1 DEF IInv, TypeOK, Tick
    <2> QED
      BY <2>1, AgedType
  <1>2. TypeOK'
    <2>1. entry' \in [Key -> Entry \union {Missing}]
      BY <1>1 DEF Tick
    <2>2. quiet' \in [Key -> 0..Ttl]
      BY TtlAssumption DEF IInv, TypeOK, Tick
    <2> QED
      BY <2>1, <2>2 DEF IInv, TypeOK, Tick
  <1>3. WrongIsRecent'
    <2> SUFFICES ASSUME NEW k \in Key, entry'[k] # Missing, entry'[k].answer # Granted(k)
                 PROVE  entry'[k].left + quiet'[k] <= Ttl
      BY DEF WrongIsRecent, Tick, Granted
    <2>1. entry[k] # Missing
      BY DEF Tick
    <2>2. entry[k].left + quiet[k] <= Ttl
      BY <1>1, <2>1 DEF IInv, WrongIsRecent
    <2>3. quiet[k] \in 0..Ttl /\ quiet'[k] = IF quiet[k] < Ttl THEN quiet[k] + 1 ELSE Ttl
      BY DEF IInv, TypeOK, Tick
    <2> QED
      BY <1>1, <2>1, <2>2, <2>3, TtlAssumption DEF Entry
  <1>4. HandlersAreHonest'
    BY DEF IInv, Tick, HandlersAreHonest, Honest, HoldsRight, SeesRight, Granted
  <1> QED
    BY <1>2, <1>3, <1>4 DEF IInv

LEMMA DieKeeps ==
  ASSUME IInv, NEW t \in Thread, Die(t)
  PROVE  IInv'
  <1>1. [at |-> "idle"] \in Idle
    BY DEF Idle
  <1>2. /\ thread' = [thread EXCEPT ![t] = [at |-> "idle"]]
        /\ UNCHANGED <<byRole, byOwner, entry, quiet>>
    BY DEF Die
  <1>3. TypeOK'
    BY <1>1, <1>2 DEF IInv, TypeOK
  <1>4. WrongIsRecent'
    BY <1>2 DEF IInv, WrongIsRecent, Granted
  <1>5. HandlersAreHonest'
    BY <1>2 DEF IInv, TypeOK, HandlersAreHonest, Honest, HoldsRight, SeesRight, Granted
  <1> QED
    BY <1>3, <1>4, <1>5 DEF IInv

(* No query, store, change of the rows or second that passes breaks the invariant of the cache. *)
THEOREM StepIInv == IInv /\ [Next]_vars => IInv'
  <1> SUFFICES ASSUME IInv, [Next]_vars PROVE IInv'
    OBVIOUS
  <1>1. ASSUME NEW t \in Thread, NEW k \in Key, AskRoles(t, k) PROVE IInv'
    BY <1>1, AskRolesKeeps
  <1>2. ASSUME NEW t \in Thread, Compute(t) PROVE IInv'
    BY <1>2, AskOwnerKeeps, StoreKeeps DEF Compute
  <1>3. ASSUME NEW k \in Key, Change(k) PROVE IInv'
    BY <1>3, ChangeKeeps
  <1>6. ASSUME NEW t \in Thread, Die(t) PROVE IInv'
    BY <1>6, DieKeeps
  <1>4. CASE Tick
    BY <1>4, TickKeeps
  <1>5. CASE UNCHANGED vars
    BY <1>5 DEF vars, IInv, TypeOK, WrongIsRecent, HandlersAreHonest, Honest, HoldsRight, SeesRight, Granted
  <1> QED
    BY <1>1, <1>2, <1>3, <1>4, <1>5, <1>6 DEF Next

(* Wrong entries are recent, and handlers hold what they saw, in every state of the cache. *)
THEOREM Invariant == Spec => []IInv
  BY InitIInv, StepIInv, PTL DEF Spec

-----------------------------------------------------------------------------
(* The variables keep their types. *)
THEOREM TypeCorrect == Spec => []TypeOK
  <1>1. IInv => TypeOK
    BY DEF IInv
  <1> QED
    BY <1>1, Invariant, PTL

(* Rows left alone for the time to live, with no handler still computing from what they
   were, leave no wrong entry: has_perm answers as the rows do (squest_rbac.py:83-95). *)
THEOREM StaleForTtlOnly == Spec => []StaleAtMostTtl
  <1>1. IInv => StaleAtMostTtl
    <2> SUFFICES ASSUME IInv, NEW k \in Key, quiet[k] = Ttl, entry[k] # Missing
                 PROVE  entry[k].answer = Granted(k)
      BY DEF StaleAtMostTtl, Right
    <2>1. entry[k].left \in 1..Ttl
      BY DEF IInv, TypeOK, Entry
    <2> QED
      BY <2>1, TtlAssumption DEF IInv, WrongIsRecent
  <1> QED
    BY <1>1, Invariant, PTL

(* A permission has_perm grants was granted by the rows at some moment since it began. *)
THEOREM GrantsEarned == Spec => []GrantsAreEarned
  <1>1. IInv => GrantsAreEarned
    BY DEF IInv, GrantsAreEarned, HandlersAreHonest, Honest, SeesRight
  <1> QED
    BY <1>1, Invariant, PTL

-----------------------------------------------------------------------------
(***************************************************************************)
(* The support desk, for every number of pages, messages and texts and     *)
(* every time to live.  Every step of the desk is a step of the cache of   *)
(* permissions or leaves it alone, so what is proved of the cache holds    *)
(* here.  The invariant of the desk says what a page that is about to save *)
(* has mailed, and that a page waits exactly while its thread computes.    *)
(***************************************************************************)

DeskTypes ==
    /\ instance \in BOOLEAN
    /\ ticket \in {"unborn", "opened", "closed", "deleted"}
    /\ message \in [Message -> Text \union {Missing}]
    /\ heard \in [Message -> SUBSET Text] /\ told \in BOOLEAN /\ dumb \subseteq Message
    /\ page \in [Thread -> {NoPage} \union Page]

\* A ticket goes with its instance.
TicketHasInstance == Exists => instance

Named(p) ==
    /\ Writes(p.kind) => p.text \in Text
    /\ p.kind = "edit" => p.message \in Message
    /\ Writes(p.kind) /\ p.at \in {"mail", "save"} => p.message \in Message

\* What a page that still has to save, or to mail, did already.
Announced(p) ==
    /\ p.at = "save" /\ Writes(p.kind) => p.text \in heard[p.message]
    /\ p.at = "save" /\ p.kind = "close" => told
    /\ p.at = "mail" /\ p.kind = "new" /\ p.message \in OnDesk =>
          message[p.message] \in heard[p.message] \union {p.text}

PagesAreSound == \A t \in Thread : page[t].at # "none" => Named(page[t]) /\ Announced(page[t])

DeskInv == DeskTypes /\ TicketHasInstance /\ PagesAreSound /\ ClosedWasTold /\ StoredWasMailed

\* A page waits while its thread computes what the page asked.
Waits ==
    \A t \in Thread :
        /\ page[t].at = "asks" <=> thread[t].at # "idle"
        /\ page[t].at = "asks" => thread[t].key = KeyOf[page[t].kind]

-----------------------------------------------------------------------------
(* The desk is a user of the cache.                                        *)

LEMMA DeskStep == [DeskNext]_all => [Next]_vars
  <1> SUFFICES ASSUME DeskNext PROVE [Next]_vars
    BY DEF all
  <1>1. ASSUME NEW t \in Thread, NEW kind \in Kind, NEW m \in Message \union {Missing},
               NEW text \in Text \union {Missing}, Open(t, kind, m, text)
        PROVE  [Next]_vars
    <2>1. KeyOf[kind] \in Key
      BY KeyOfAssumption
    <2> QED
      BY <1>1, <2>1 DEF Open, Next
  <1>2. ASSUME NEW t \in Thread, Answering(t) PROVE Next
    BY <1>2 DEF Answering, Answered, Compute, Next
  <1>3. ASSUME NEW t \in Thread, Step(t) PROVE UNCHANGED vars
    BY <1>3 DEF Step, CreateSupport, CreateMessage, MailFirst, MailMessage, SaveMessage, Transition,
                SaveTicket, DeleteSupport
  <1>4. ASSUME NEW t \in Thread, Crash(t) PROVE [Next]_vars
    BY <1>4 DEF Crash, Next
  <1>5. ASSUME NEW k \in Key, Change(k) PROVE Next
    BY <1>5 DEF Next
  <1>6. ASSUME Tick PROVE Next
    BY <1>6 DEF Next
  <1>7. ASSUME DeleteInstance PROVE UNCHANGED vars
    BY <1>7 DEF DeleteInstance
  <1> QED
    BY <1>1, <1>2, <1>3, <1>4, <1>5, <1>6, <1>7 DEF DeskNext

(* Whatever the pages do, the cache is used as PermissionCache says: the desk implements it. *)
THEOREM DeskUsesCache == DeskSpec => Spec
  <1>1. DeskInit => Init
    BY DEF DeskInit
  <1> QED
    BY <1>1, DeskStep, PTL DEF DeskSpec, Spec

-----------------------------------------------------------------------------
(* Records of pages.                                                       *)

LEMMA PageStep ==
    ASSUME NEW p \in Page, NEW point \in {"granted", "content", "mail", "save"}
    PROVE  \E new \in Page :
              /\ new = [p EXCEPT !.at = point]
              /\ new.at = point /\ new.kind = p.kind /\ new.message = p.message /\ new.text = p.text
  <1>1. LET new == [p EXCEPT !.at = point]
        IN  /\ new \in Page /\ new.at = point /\ new.kind = p.kind
            /\ new.message = p.message /\ new.text = p.text
    BY DEF Page
  <1> QED
    BY <1>1

LEMMA PageOrNone ==
    ASSUME NEW p \in {NoPage} \union Page
    PROVE  p.at # "none" <=> p \in Page
  BY DEF NoPage, Page

(* A step of one page that leaves the rows and histories as they are for the other pages. *)
LEMMA OnePage ==
    ASSUME DeskInv, NEW t \in Thread, NEW p \in {NoPage} \union Page,
           page' = [page EXCEPT ![t] = p],
           p.at # "none" => Named(p)' /\ Announced(p)',
           \A u \in Thread \ {t} : page[u].at # "none" => Announced(page[u])'
    PROVE  page' \in [Thread -> {NoPage} \union Page] /\ PagesAreSound'
  <1>1. page' \in [Thread -> {NoPage} \union Page]
    BY DEF DeskInv, DeskTypes
  <1>2. ASSUME NEW u \in Thread, page'[u].at # "none" PROVE Named(page[u])' /\ Announced(page[u])'
    <2>1. CASE u = t
      BY <1>2, <2>1 DEF DeskInv, DeskTypes, Named, Announced, OnDesk
    <2>2. CASE u # t
      <3>1. page'[u] = page[u]
        BY <2>2 DEF DeskInv, DeskTypes
      <3> QED
        BY <1>2, <2>2, <3>1 DEF DeskInv, PagesAreSound, Named, Announced, OnDesk
    <2> QED
      BY <2>1, <2>2
  <1> QED
    BY <1>1, <1>2 DEF PagesAreSound

(* Nothing a page announced is undone while heard and told only grow, and its message stays, goes
   or takes a text that was heard. *)
LEMMA StillAnnounced ==
    ASSUME DeskInv, NEW u \in Thread, page[u].at # "none", page'[u] = page[u],
           told => told' \/ ~Closing(u),
           \A m \in Message : heard[m] \subseteq heard'[m],
           \A m \in Message : m = page[u].message => message'[m] \in {message[m], Missing} \union heard[m]
    PROVE  Announced(page[u])'
  <1>1. page[u] \in Page /\ Named(page[u]) /\ Announced(page[u])
    BY PageOrNone DEF DeskInv, DeskTypes, PagesAreSound
  <1>2. page[u].at = "save" /\ Writes(page[u].kind) => page[u].text \in heard'[page[u].message]
    BY <1>1 DEF Named, Announced
  <1>3. page[u].at = "save" /\ page[u].kind = "close" => told'
    BY <1>1 DEF Announced, Closing, At
  <1>4. ASSUME page[u].at = "mail", page[u].kind = "new",
               page[u].message \in Message, message'[page[u].message] # Missing
        PROVE  message'[page[u].message] \in heard'[page[u].message] \union {page[u].text}
    BY <1>1, <1>4 DEF Announced, OnDesk
  <1> QED
    BY <1>1, <1>2, <1>3, <1>4 DEF Announced, OnDesk, Writes

-----------------------------------------------------------------------------
(* One lemma per action of the desk.                                       *)

(* Steps that change one page and nothing else of the desk. *)
LEMMA OnlyPage ==
    ASSUME DeskInv, NEW t \in Thread, NEW p \in {NoPage} \union Page,
           page' = [page EXCEPT ![t] = p],
           p.at # "none" => Named(p) /\ Announced(p),
           UNCHANGED <<rows, history>>
    PROVE  DeskInv'
  <1>1. /\ instance' = instance /\ ticket' = ticket /\ message' = message
        /\ heard' = heard /\ told' = told /\ dumb' = dumb
    BY DEF rows, history
  <1>2. p.at # "none" => Named(p)' /\ Announced(p)'
    BY <1>1 DEF Named, Announced, OnDesk
  <1>3. ASSUME NEW u \in Thread \ {t}, page[u].at # "none" PROVE Announced(page[u])'
    <2>1. page'[u] = page[u]
      BY DEF DeskInv, DeskTypes
    <2> QED
      BY <1>1, <1>3, <2>1, StillAnnounced
  <1>4. page' \in [Thread -> {NoPage} \union Page] /\ PagesAreSound'
    BY <1>2, <1>3, OnePage
  <1> QED
    BY <1>1, <1>4 DEF DeskInv, DeskTypes, TicketHasInstance, Exists, ClosedWasTold, StoredWasMailed, OnDesk

LEMMA NoPageLeft == NoPage.at = "none" /\ NoPage \in {NoPage} \union Page
  BY DEF NoPage

LEMMA AtPage ==
    ASSUME DeskInv, NEW t \in Thread, page[t].at # "none"
    PROVE  page[t] \in Page /\ Named(page[t]) /\ Announced(page[t])
  BY PageOrNone DEF DeskInv, DeskTypes, PagesAreSound

LEMMA OpenKeeps ==
  ASSUME DeskInv, NEW t \in Thread, NEW kind \in Kind, NEW m \in Message \union {Missing},
         NEW text \in Text \union {Missing}, Open(t, kind, m, text)
  PROVE  DeskInv'
  <1> DEFINE new(point) == [at |-> point, kind |-> kind, message |-> m, text |-> text]
  <1>1. PICK point \in {"asks", "granted"} : page' = [page EXCEPT ![t] = new(point)]
    BY DEF Open
  <1>2. new(point) \in Page /\ new(point).at = point /\ new(point).kind = kind
        /\ new(point).message = m /\ new(point).text = text
    BY DEF Page
  <1>3. (Writes(kind) => text \in Text) /\ (kind = "edit" => m \in Message)
    BY NotMissing DEF Open, Found, OnDesk, Writes
  <1>4. Named(new(point)) /\ Announced(new(point))
    BY <1>2, <1>3 DEF Named, Announced
  <1> HIDE DEF new
  <1> QED
    BY <1>1, <1>2, <1>4, OnlyPage DEF Open

LEMMA AnsweredKeeps ==
  ASSUME DeskInv, Waits, NEW t \in Thread, Answered(t)
  PROVE  DeskInv'
  <1>1. CASE thread[t].answer
    <2>1. page[t].at = "asks"
      BY DEF Answered, Store, Waits
    <2>2. page[t] \in Page /\ Named(page[t])
      BY <2>1, AtPage
    <2>3. PICK new \in Page :
              /\ new = [page[t] EXCEPT !.at = "granted"]
              /\ new.at = "granted" /\ new.kind = page[t].kind
              /\ new.message = page[t].message /\ new.text = page[t].text
      BY <2>2, PageStep
    <2>4. page' = [page EXCEPT ![t] = new]
      BY <1>1, <2>3 DEF Answered, Go
    <2>5. Named(new) /\ Announced(new)
      BY <2>2, <2>3 DEF Named, Announced
    <2> QED
      BY <2>3, <2>4, <2>5, OnlyPage DEF Answered
  <1>2. CASE ~thread[t].answer
    BY <1>2, NoPageLeft, OnlyPage DEF Answered, Leave
  <1> QED
    BY <1>1, <1>2

LEMMA CrashKeeps ==
  ASSUME DeskInv, NEW t \in Thread, Crash(t)
  PROVE  DeskInv'
  BY NoPageLeft, OnlyPage DEF Crash, Leave

LEMMA CreateSupportKeeps ==
  ASSUME DeskInv, NEW t \in Thread, CreateSupport(t)
  PROVE  DeskInv'
  <1>1. CASE instance /\ ticket = "unborn"
    <2>1. page[t] \in Page /\ Named(page[t]) /\ page[t].kind = "new"
      BY AtPage DEF CreateSupport, At
    <2>2. PICK new \in Page :
              /\ new = [page[t] EXCEPT !.at = "content"]
              /\ new.at = "content" /\ new.kind = page[t].kind
              /\ new.message = page[t].message /\ new.text = page[t].text
      BY <2>1, PageStep
    <2>3. /\ page' = [page EXCEPT ![t] = new] /\ ticket' = "opened"
          /\ instance' = instance /\ message' = message
          /\ heard' = heard /\ told' = told /\ dumb' = dumb
      BY <1>1, <2>2 DEF CreateSupport, Go, history
    <2>4. Named(new)' /\ Announced(new)'
      BY <2>1, <2>2 DEF Named, Announced
    <2>5. ASSUME NEW u \in Thread \ {t}, page[u].at # "none" PROVE Announced(page[u])'
      <3>1. page'[u] = page[u]
        BY <2>3 DEF DeskInv, DeskTypes
      <3> QED
        BY <2>3, <2>5, <3>1, StillAnnounced
    <2>6. page' \in [Thread -> {NoPage} \union Page] /\ PagesAreSound'
      BY <2>2, <2>3, <2>4, <2>5, OnePage
    <2> QED
      BY <1>1, <2>3, <2>6 DEF DeskInv, DeskTypes, TicketHasInstance, Exists, ClosedWasTold, StoredWasMailed, OnDesk
  <1>2. CASE ~(instance /\ ticket = "unborn")
    BY <1>2, NoPageLeft, OnlyPage DEF CreateSupport, Leave, rows, history
  <1> QED
    BY <1>1, <1>2

LEMMA CreateMessageKeeps ==
  ASSUME DeskInv, NEW t \in Thread, CreateMessage(t)
  PROVE  DeskInv'
  <1>1. CASE Exists
    <2>1. page[t] \in Page /\ Named(page[t]) /\ page[t].kind = "new" /\ page[t].text \in Text
      BY AtPage DEF CreateMessage, At, Named, Writes
    <2>2. PICK m \in Fresh :
              /\ Insert(m, page[t].text) /\ dumb' = dumb \union {m}
              /\ page' = [page EXCEPT ![t].at = "mail", ![t].message = m]
      BY <1>1 DEF CreateMessage
    <2>3. m \in Message
      BY DEF Fresh
    <2>4. PICK new \in Page :
              /\ new = [page[t] EXCEPT !.at = "mail", !.message = m]
              /\ new.at = "mail" /\ new.kind = page[t].kind
              /\ new.message = m /\ new.text = page[t].text
      <3>1. LET new == [page[t] EXCEPT !.at = "mail", !.message = m]
            IN  /\ new \in Page /\ new.at = "mail" /\ new.kind = page[t].kind
                /\ new.message = m /\ new.text = page[t].text
        BY <2>1, <2>3 DEF Page
      <3> QED
        BY <3>1
    <2>5. page' = [page EXCEPT ![t] = new]
      BY <2>2, <2>4 DEF DeskInv, DeskTypes
    <2>6. /\ instance' = instance /\ ticket' = ticket /\ heard' = heard /\ told' = told
          /\ message' = [message EXCEPT ![m] = page[t].text]
          /\ message' \in [Message -> Text \union {Missing}]
      BY <2>1, <2>2, <2>3 DEF CreateMessage, Insert, DeskInv, DeskTypes
    <2>7. message'[m] = page[t].text /\ \A n \in Message \ {m} : message'[n] = message[n]
      BY <2>3, <2>6 DEF DeskInv, DeskTypes
    <2>8. Named(new)' /\ Announced(new)'
      BY <2>1, <2>3, <2>4, <2>7 DEF Named, Announced
    <2>9. ASSUME NEW u \in Thread \ {t}, page[u].at # "none" PROVE Announced(page[u])'
      <3>1. page'[u] = page[u]
        BY <2>5 DEF DeskInv, DeskTypes
      <3>2. page[u].message # m
        BY <2>9 DEF Fresh
      <3>3. \A n \in Message : n = page[u].message => message'[n] = message[n]
        BY <2>7, <3>2
      <3> QED
        BY <2>6, <2>9, <3>1, <3>3, StillAnnounced
    <2>10. page' \in [Thread -> {NoPage} \union Page] /\ PagesAreSound'
      BY <2>4, <2>5, <2>8, <2>9, OnePage
    <2>11. StoredWasMailed'
      BY <2>2, <2>6, <2>7 DEF DeskInv, StoredWasMailed, OnDesk
    <2> QED
      BY <2>2, <2>3, <2>6, <2>10, <2>11 DEF DeskInv, DeskTypes, TicketHasInstance, Exists, ClosedWasTold
  <1>2. CASE ~Exists
    BY <1>2, NoPageLeft, OnlyPage DEF CreateMessage, Leave, rows, history
  <1> QED
    BY <1>1, <1>2

(* The mail of a page is heard, whatever the page does next. *)
LEMMA HearGrows ==
  ASSUME DeskInv, NEW m \in Message, NEW text \in Text, Hear(m, text)
  PROVE  /\ heard' \in [Message -> SUBSET Text] /\ text \in heard'[m]
         /\ \A n \in Message : heard[n] \subseteq heard'[n]
         /\ heard'[m] = heard[m] \union {text}
  BY DEF DeskInv, DeskTypes, Hear

LEMMA MailFirstKeeps ==
  ASSUME DeskInv, NEW t \in Thread, MailFirst(t)
  PROVE  DeskInv'
  <1>1. /\ page[t] \in Page /\ Named(page[t]) /\ Announced(page[t]) /\ page[t].kind = "new"
        /\ page[t].at = "mail" /\ page[t].text \in Text /\ page[t].message \in Message
    BY AtPage DEF MailFirst, At, Named, Writes
  <1> DEFINE m == page[t].message
  <1>2. /\ heard' \in [Message -> SUBSET Text]
        /\ \A n \in Message : heard[n] \subseteq heard'[n]
        /\ heard'[m] = heard[m] \union {page[t].text}
    BY <1>1, HearGrows DEF MailFirst
  <1>3. /\ instance' = instance /\ ticket' = ticket /\ message' = message /\ told' = told
        /\ dumb' = dumb \ {m} /\ page' = [page EXCEPT ![t] = NoPage]
    BY DEF MailFirst, rows, Leave
  <1>4. ASSUME NEW u \in Thread \ {t}, page[u].at # "none" PROVE Announced(page[u])'
    <2>1. page'[u] = page[u]
      BY <1>3 DEF DeskInv, DeskTypes
    <2> QED
      BY <1>2, <1>3, <1>4, <2>1, StillAnnounced
  <1>5. page' \in [Thread -> {NoPage} \union Page] /\ PagesAreSound'
    BY <1>3, <1>4, NoPageLeft, OnePage
  <1>6. ASSUME NEW n \in OnDesk' \ dumb' PROVE message'[n] \in heard'[n]
    <2>1. CASE n = m
      BY <1>1, <1>2, <1>3, <1>6, <2>1 DEF Announced, OnDesk
    <2>2. CASE n # m
      BY <1>2, <1>3, <1>6, <2>2 DEF DeskInv, StoredWasMailed, OnDesk
    <2> QED
      BY <2>1, <2>2
  <1> QED
    BY <1>2, <1>3, <1>5, <1>6
       DEF DeskInv, DeskTypes, TicketHasInstance, Exists, ClosedWasTold, StoredWasMailed

LEMMA MailMessageKeeps ==
  ASSUME DeskInv, NEW t \in Thread, MailMessage(t)
  PROVE  DeskInv'
  <1>0. CASE ~instance
    BY <1>0, NoPageLeft, OnlyPage DEF MailMessage, Leave, rows, history
  <1> SUFFICES ASSUME instance PROVE DeskInv'
    BY <1>0
  <1>1. /\ page[t] \in Page /\ Named(page[t]) /\ page[t].kind \in {"reply", "edit"}
        /\ page[t].text \in Text /\ (page[t].kind = "edit" => page[t].message \in Message)
    BY AtPage DEF MailMessage, Ready, Named, Writes
  <1>2. PICK m \in Subject(t) :
            Hear(m, page[t].text) /\ page' = [page EXCEPT ![t].at = "save", ![t].message = m]
    BY DEF MailMessage
  <1>3. m \in Message
    BY <1>1 DEF Subject, Fresh
  <1>4. PICK new \in Page :
            /\ new = [page[t] EXCEPT !.at = "save", !.message = m]
            /\ new.at = "save" /\ new.kind = page[t].kind
            /\ new.message = m /\ new.text = page[t].text
    <2>1. LET new == [page[t] EXCEPT !.at = "save", !.message = m]
          IN  /\ new \in Page /\ new.at = "save" /\ new.kind = page[t].kind
              /\ new.message = m /\ new.text = page[t].text
      BY <1>1, <1>3 DEF Page
    <2> QED
      BY <2>1
  <1>5. page' = [page EXCEPT ![t] = new]
    BY <1>2, <1>4 DEF DeskInv, DeskTypes
  <1>6. /\ heard' \in [Message -> SUBSET Text] /\ page[t].text \in heard'[m]
        /\ \A n \in Message : heard[n] \subseteq heard'[n]
    BY <1>1, <1>2, <1>3, HearGrows
  <1>7. instance' = instance /\ ticket' = ticket /\ message' = message /\ told' = told /\ dumb' = dumb
    BY DEF MailMessage, rows
  <1>8. Named(new)' /\ Announced(new)'
    BY <1>1, <1>3, <1>4, <1>6 DEF Named, Announced
  <1>9. ASSUME NEW u \in Thread \ {t}, page[u].at # "none" PROVE Announced(page[u])'
    <2>1. page'[u] = page[u]
      BY <1>5 DEF DeskInv, DeskTypes
    <2> QED
      BY <1>6, <1>7, <1>9, <2>1, StillAnnounced
  <1>10. page' \in [Thread -> {NoPage} \union Page] /\ PagesAreSound'
    BY <1>4, <1>5, <1>8, <1>9, OnePage
  <1>11. StoredWasMailed'
    BY <1>6, <1>7 DEF DeskInv, StoredWasMailed, OnDesk
  <1> QED
    BY <1>6, <1>7, <1>10, <1>11 DEF DeskInv, DeskTypes, TicketHasInstance, Exists, ClosedWasTold

LEMMA SaveMessageKeeps ==
  ASSUME DeskInv, NEW t \in Thread, SaveMessage(t)
  PROVE  DeskInv'
  <1>1. /\ page[t] \in Page /\ Named(page[t]) /\ Announced(page[t]) /\ page[t].message \in Message
        /\ page[t].text \in Text /\ page[t].text \in heard[page[t].message]
    BY AtPage DEF SaveMessage, Named, Announced, Writes
  <1>2. /\ instance' = instance /\ ticket' = ticket /\ heard' = heard /\ told' = told
        /\ dumb' = dumb /\ page' = [page EXCEPT ![t] = NoPage]
    BY DEF SaveMessage, history, Leave
  <1>3. /\ message' \in [Message -> Text \union {Missing}]
        /\ \A n \in Message : \/ message'[n] = message[n]
                              \/ message'[n] \in heard[n]
    BY <1>1 DEF SaveMessage, Insert, DeskInv, DeskTypes
  <1>4. ASSUME NEW u \in Thread \ {t}, page[u].at # "none" PROVE Announced(page[u])'
    <2>1. page'[u] = page[u]
      BY <1>2 DEF DeskInv, DeskTypes
    <2> QED
      BY <1>2, <1>3, <1>4, <2>1, StillAnnounced
  <1>5. page' \in [Thread -> {NoPage} \union Page] /\ PagesAreSound'
    BY <1>2, <1>4, NoPageLeft, OnePage
  <1>6. StoredWasMailed'
    BY <1>2, <1>3 DEF DeskInv, StoredWasMailed, OnDesk
  <1> QED
    BY <1>2, <1>3, <1>5, <1>6 DEF DeskInv, DeskTypes, TicketHasInstance, Exists, ClosedWasTold

LEMMA TransitionKeeps ==
  ASSUME DeskInv, NEW t \in Thread, NEW kind \in {"close", "reopen"}, Transition(t, kind)
  PROVE  DeskInv'
  <1>1. CASE ticket = SourceOf[kind]
    <2>1. page[t] \in Page /\ Named(page[t]) /\ page[t].kind = kind
      BY AtPage DEF Transition, At
    <2>2. PICK new \in Page :
              /\ new = [page[t] EXCEPT !.at = "save"]
              /\ new.at = "save" /\ new.kind = page[t].kind
              /\ new.message = page[t].message /\ new.text = page[t].text
      BY <2>1, PageStep
    <2>3. /\ page' = [page EXCEPT ![t] = new] /\ told' = (told \/ kind = "close")
          /\ instance' = instance /\ ticket' = ticket /\ message' = message
          /\ heard' = heard /\ dumb' = dumb
      BY <1>1, <2>2 DEF Transition, Go, rows
    <2>4. Named(new)' /\ Announced(new)'
      BY <2>1, <2>2, <2>3 DEF Named, Announced, Writes
    <2>5. ASSUME NEW u \in Thread \ {t}, page[u].at # "none" PROVE Announced(page[u])'
      <3>1. page'[u] = page[u]
        BY <2>3 DEF DeskInv, DeskTypes
      <3> QED
        BY <2>3, <2>5, <3>1, StillAnnounced
    <2>6. page' \in [Thread -> {NoPage} \union Page] /\ PagesAreSound'
      BY <2>2, <2>3, <2>4, <2>5, OnePage
    <2>7. told' \in BOOLEAN
      BY <2>3
    <2> QED
      BY <2>3, <2>6, <2>7
         DEF DeskInv, DeskTypes, TicketHasInstance, Exists, ClosedWasTold, StoredWasMailed, OnDesk
  <1>2. CASE ticket # SourceOf[kind]
    BY <1>2, NoPageLeft, OnlyPage DEF Transition, Leave, rows, history
  <1> QED
    BY <1>1, <1>2

LEMMA SaveTicketKeeps ==
  ASSUME DeskInv, NEW t \in Thread, NEW kind \in {"close", "reopen"}, SaveTicket(t, kind)
  PROVE  DeskInv'
  <1>1. /\ page[t] \in Page /\ page[t].kind = kind
        /\ kind = "close" => told
    BY AtPage DEF SaveTicket, At, Announced
  <1>2. /\ instance' = instance /\ message' = message /\ heard' = heard /\ dumb' = dumb
        /\ page' = [page EXCEPT ![t] = NoPage]
        /\ ticket' = IF instance THEN TargetOf[kind] ELSE ticket
        /\ told' = IF kind = "reopen" THEN \E u \in Thread : Closing(u) ELSE told
    BY DEF SaveTicket, Leave
  <1>3. ASSUME NEW u \in Thread \ {t}, page[u].at # "none" PROVE Announced(page[u])'
    <2>1. page'[u] = page[u]
      BY <1>2 DEF DeskInv, DeskTypes
    <2>2. told => told' \/ ~Closing(u)
      BY <1>2
    <2> QED
      BY <1>2, <1>3, <2>1, <2>2, StillAnnounced
  <1>4. page' \in [Thread -> {NoPage} \union Page] /\ PagesAreSound'
    BY <1>2, <1>3, NoPageLeft, OnePage
  <1>5. told' \in BOOLEAN
    BY <1>2 DEF DeskInv, DeskTypes
  <1>6. ClosedWasTold' /\ TicketHasInstance' /\ ticket' \in {"unborn", "opened", "closed", "deleted"}
    BY <1>1, <1>2 DEF DeskInv, DeskTypes, TicketHasInstance, Exists, SupportState, TargetOf, ClosedWasTold
  <1> QED
    BY <1>2, <1>4, <1>5, <1>6 DEF DeskInv, DeskTypes, StoredWasMailed, OnDesk

(* The rows go, with the instance or alone; page t leaves, or no page moves. *)
LEMMA DeletingKeeps ==
  ASSUME DeskInv, DeleteAll, UNCHANGED history, instance' = instance \/ ~instance',
         instance' \in BOOLEAN,
         page' = page \/ \E t \in Thread : page' = [page EXCEPT ![t] = NoPage]
  PROVE  DeskInv'
  <1>1. /\ heard' = heard /\ told' = told /\ dumb' = dumb
        /\ message' = [m \in Message |-> Missing]
        /\ ticket' \in {"unborn", "deleted"}
    BY DEF history, DeleteAll, DeskInv, DeskTypes, Exists, SupportState
  <1>2. page' \in [Thread -> {NoPage} \union Page]
    BY DEF DeskInv, DeskTypes
  <1>3. ASSUME NEW u \in Thread, page'[u].at # "none" PROVE Named(page[u])' /\ Announced(page[u])'
    <2>1. page'[u] = page[u]
      BY <1>3, NoPageLeft DEF DeskInv, DeskTypes
    <2>2. page[u].at # "none" /\ Named(page[u])
      BY <1>3, <2>1 DEF DeskInv, PagesAreSound
    <2>3. Announced(page[u])'
      BY <1>1, <2>1, <2>2, StillAnnounced
    <2> QED
      BY <2>1, <2>2, <2>3 DEF Named
  <1>4. PagesAreSound'
    BY <1>3 DEF PagesAreSound
  <1>5. OnDesk' = {}
    BY <1>1 DEF OnDesk
  <1> QED
    BY <1>1, <1>2, <1>4, <1>5
       DEF DeskInv, DeskTypes, TicketHasInstance, Exists, SupportState, ClosedWasTold, StoredWasMailed

LEMMA DeleteSupportKeeps ==
  ASSUME DeskInv, NEW t \in Thread, DeleteSupport(t)
  PROVE  DeskInv'
  BY DeletingKeeps DEF DeleteSupport, Leave, DeskInv, DeskTypes

LEMMA DeleteInstanceKeeps ==
  ASSUME DeskInv, DeleteInstance
  PROVE  DeskInv'
  BY DeletingKeeps DEF DeleteInstance

LEMMA UntouchedKeeps ==
  ASSUME DeskInv, UNCHANGED desk
  PROVE  DeskInv'
  <1>1. /\ instance' = instance /\ ticket' = ticket /\ message' = message
        /\ heard' = heard /\ told' = told /\ dumb' = dumb /\ page' = page
    BY DEF desk, rows, history
  <1> QED
    BY <1>1 DEF DeskInv, DeskTypes, TicketHasInstance, Exists, PagesAreSound, Named, Announced, OnDesk,
                ClosedWasTold, StoredWasMailed

LEMMA DeskStarts == DeskInit => DeskInv
  <1> SUFFICES ASSUME DeskInit PROVE DeskInv
    OBVIOUS
  <1>1. OnDesk = {}
    BY DEF DeskInit, OnDesk
  <1>2. \A t \in Thread : page[t].at = "none"
    BY NoPageLeft DEF DeskInit
  <1> QED
    BY <1>1, <1>2 DEF DeskInit, DeskInv, DeskTypes, TicketHasInstance, Exists, SupportState, PagesAreSound,
                      ClosedWasTold, StoredWasMailed

LEMMA DeskKeeps == DeskInv /\ Waits /\ [DeskNext]_all => DeskInv'
  <1> SUFFICES ASSUME DeskInv, Waits, [DeskNext]_all PROVE DeskInv'
    OBVIOUS
  <1>1. ASSUME NEW t \in Thread, Answering(t) PROVE DeskInv'
    BY <1>1, AnsweredKeeps, UntouchedKeeps DEF Answering
  <1>2. ASSUME NEW t \in Thread, Step(t) PROVE DeskInv'
    BY <1>2, CreateSupportKeeps, CreateMessageKeeps, MailFirstKeeps, MailMessageKeeps, SaveMessageKeeps,
       TransitionKeeps, SaveTicketKeeps, DeleteSupportKeeps DEF Step
  <1> QED
    BY <1>1, <1>2, OpenKeeps, CrashKeeps, DeleteInstanceKeeps, UntouchedKeeps DEF DeskNext, all

-----------------------------------------------------------------------------
(* Pages and threads.                                                      *)

LEMMA WaitsOne ==
  ASSUME Waits, NEW t \in Thread,
         \A u \in Thread \ {t} : page'[u] = page[u] /\ thread'[u] = thread[u],
         page'[t].at = "asks" <=> thread'[t].at # "idle",
         page'[t].at = "asks" => thread'[t].key = KeyOf[page'[t].kind]
  PROVE  Waits'
  BY DEF Waits

LEMMA OpenWaits ==
  ASSUME IInv, DeskInv, Waits, NEW t \in Thread, NEW kind \in Kind,
         NEW m \in Message \union {Missing}, NEW text \in Text \union {Missing}, Open(t, kind, m, text)
  PROVE  Waits'
  <1> DEFINE new(point) == [at |-> point, kind |-> kind, message |-> m, text |-> text]
  <1>1. CASE Misses(KeyOf[kind])
    <2>1. page' = [page EXCEPT ![t] = new("asks")] /\ AskRoles(t, KeyOf[kind])
      BY <1>1 DEF Open
    <2>2. page'[t].at = "asks" /\ page'[t].kind = kind
      BY <2>1 DEF DeskInv, DeskTypes
    <2>3. thread'[t].at \in {"store", "owner"} /\ thread'[t].key = KeyOf[kind]
      BY <2>1 DEF AskRoles, IInv, TypeOK
    <2>4. \A u \in Thread \ {t} : page'[u] = page[u] /\ thread'[u] = thread[u]
      BY <2>1 DEF AskRoles, IInv, TypeOK, DeskInv, DeskTypes
    <2> QED
      BY <2>2, <2>3, <2>4, WaitsOne
  <1>2. CASE ~Misses(KeyOf[kind])
    <2>1. page' = [page EXCEPT ![t] = new("granted")] /\ thread' = thread /\ page[t].at = "none"
      BY <1>2 DEF Open, vars, Free
    <2>2. page'[t].at = "granted"
      BY <2>1 DEF DeskInv, DeskTypes
    <2>3. \A u \in Thread \ {t} : page'[u] = page[u]
      BY <2>1 DEF DeskInv, DeskTypes
    <2> QED
      BY <2>1, <2>2, <2>3, WaitsOne DEF Waits
  <1> QED
    BY <1>1, <1>2

LEMMA AnsweringWaits ==
  ASSUME IInv, DeskInv, Waits, NEW t \in Thread, Answering(t)
  PROVE  Waits'
  <1>1. CASE AskOwner(t) /\ UNCHANGED desk
    <2>1. thread'[t].at = "store" /\ thread'[t].key = thread[t].key /\ page' = page
      BY <1>1 DEF AskOwner, IInv, TypeOK, Idle, Busy, desk
    <2>2. \A u \in Thread \ {t} : thread'[u] = thread[u]
      BY <1>1 DEF AskOwner, IInv, TypeOK
    <2> QED
      BY <1>1, <2>1, <2>2, WaitsOne DEF Waits, AskOwner
  <1>2. CASE Answered(t)
    <2>1. thread' = [thread EXCEPT ![t] = [at |-> "idle"]]
      BY <1>2 DEF Answered, Store
    <2>2. thread'[t].at = "idle" /\ \A u \in Thread \ {t} : thread'[u] = thread[u]
      BY <2>1 DEF IInv, TypeOK
    <2>3. page'[t].at # "asks" /\ \A u \in Thread \ {t} : page'[u] = page[u]
      <3>1. CASE Go(t, "granted")
        <4>1. page[t] \in Page
          BY <1>2, AtPage DEF Answered, Store, Waits
        <4> QED
          BY <3>1, <4>1 DEF Go, Page, DeskInv, DeskTypes
      <3>2. CASE Leave(t)
        BY <3>2, NoPageLeft DEF Leave, DeskInv, DeskTypes
      <3> QED
        BY <1>2, <3>1, <3>2 DEF Answered
    <2> QED
      BY <2>2, <2>3, WaitsOne
  <1> QED
    BY <1>1, <1>2 DEF Answering

LEMMA CrashWaits ==
  ASSUME IInv, DeskInv, Waits, NEW t \in Thread, Crash(t)
  PROVE  Waits'
  <1>1. page'[t].at = "none" /\ \A u \in Thread \ {t} : page'[u] = page[u]
    BY NoPageLeft DEF Crash, Leave, DeskInv, DeskTypes
  <1>2. thread'[t].at = "idle" /\ \A u \in Thread \ {t} : thread'[u] = thread[u]
    BY DEF Crash, Die, vars, IInv, TypeOK
  <1> QED
    BY <1>1, <1>2, WaitsOne

LEMMA StepWaits ==
  ASSUME DeskInv, Waits, NEW t \in Thread, Step(t)
  PROVE  /\ Waits'
         /\ page'[t].at \notin {"asks", "granted"} /\ \A u \in Thread \ {t} : page'[u] = page[u]
  <1>1. page[t].at \notin {"asks", "none"} /\ thread' = thread
    BY DEF Step, CreateSupport, CreateMessage, MailFirst, MailMessage, SaveMessage, Transition, SaveTicket,
           DeleteSupport, At, Ready, vars
  <1>2. page[t] \in Page
    BY <1>1, AtPage
  <1>3. \/ Leave(t)
        \/ \E point \in {"content", "mail", "save"} :
              \/ Go(t, point)
              \/ \E m \in Message : page' = [page EXCEPT ![t].at = point, ![t].message = m]
    <2>1. ASSUME CreateMessage(t) PROVE \/ Leave(t)
                                        \/ \E m \in Message : page' = [page EXCEPT ![t].at = "mail", ![t].message = m]
      BY <2>1 DEF CreateMessage, Fresh
    <2>2. ASSUME MailMessage(t) PROVE \/ Leave(t)
                                      \/ \E m \in Message : page' = [page EXCEPT ![t].at = "save", ![t].message = m]
      BY <1>1, <2>2, AtPage DEF MailMessage, Subject, Fresh, Ready, Named
    <2> QED
      BY <2>1, <2>2 DEF Step, CreateSupport, MailFirst, SaveMessage, Transition, SaveTicket, DeleteSupport
  <1>4. page'[t].at \notin {"asks", "granted"} /\ \A u \in Thread \ {t} : page'[u] = page[u]
    <2>1. CASE Leave(t)
      BY <2>1, NoPageLeft DEF Leave, DeskInv, DeskTypes
    <2>2. ASSUME NEW point \in {"content", "mail", "save"}, Go(t, point)
          PROVE  page'[t].at = point /\ \A u \in Thread \ {t} : page'[u] = page[u]
      BY <1>2, <2>2 DEF Go, Page, DeskInv, DeskTypes
    <2>3. ASSUME NEW point \in {"content", "mail", "save"}, NEW m \in Message,
                 page' = [page EXCEPT ![t].at = point, ![t].message = m]
          PROVE  page'[t].at = point /\ \A u \in Thread \ {t} : page'[u] = page[u]
      BY <1>2, <2>3 DEF Page, DeskInv, DeskTypes
    <2> QED
      BY <1>3, <2>1, <2>2, <2>3
  <1> QED
    BY <1>1, <1>4, WaitsOne DEF Waits

LEMMA ChangeWaits ==
  ASSUME IInv, Waits, NEW k \in Key, Change(k), UNCHANGED page
  PROVE  Waits'
  <1>1. ASSUME NEW t \in Thread PROVE thread'[t].at = thread[t].at /\ (thread[t].at # "idle" => thread'[t].key = thread[t].key)
    <2>1. CASE Asks(t, k)
      <3>1. thread[t] \in Busy
        BY <2>1, BusyIsNotIdle DEF Asks, IInv, TypeOK
      <3>2. thread'[t] = [thread[t] EXCEPT !.late = TRUE, !.seen = @ \union {byRole'[k] \/ byOwner'[k]}]
        BY <2>1 DEF Change
      <3> QED
        BY <3>1, <3>2 DEF Busy
    <2>2. CASE ~Asks(t, k)
      BY <2>2 DEF Change
    <2> QED
      BY <2>1, <2>2
  <1> QED
    BY <1>1 DEF Waits

LEMMA WaitsKeeps == IInv /\ DeskInv /\ Waits /\ [DeskNext]_all => Waits'
  <1> SUFFICES ASSUME IInv, DeskInv, Waits, [DeskNext]_all PROVE Waits'
    OBVIOUS
  <1>1. ASSUME UNCHANGED <<thread, page>> PROVE Waits'
    BY <1>1 DEF Waits
  <1>2. ASSUME NEW k \in Key, Change(k), UNCHANGED desk PROVE Waits'
    BY <1>2, ChangeWaits DEF desk
  <1> QED
    BY <1>1, <1>2, OpenWaits, AnsweringWaits, StepWaits, CrashWaits
       DEF DeskNext, all, vars, desk, Tick, DeleteInstance

LEMMA WaitsStarts == DeskInit => Waits
  BY NoPageLeft DEF DeskInit, Init, Waits

(* The desk keeps the invariant of the cache, mails before it stores, and waits for its own answers. *)
THEOREM DeskInvariant == DeskSpec => [](IInv /\ DeskInv /\ Waits)
  <1>1. DeskInit => IInv
    BY InitIInv DEF DeskInit
  <1>2. IInv /\ [DeskNext]_all => IInv'
    BY StepIInv, DeskStep
  <1> QED
    BY <1>1, <1>2, DeskStarts, WaitsStarts, DeskKeeps, WaitsKeeps, PTL DEF DeskSpec

(* The desk asks the cache as the cache expects: with pages that also wait, leave or die, an
   answer is still wrong for the time to live at most (squest_rbac.py:83-95). *)
THEOREM DeskStale == DeskSpec => []StaleAtMostTtl
  BY DeskUsesCache, StaleForTtlOnly, PTL

(* A ticket that is closed was announced as closed by a mail, whatever else happened to it
   and to its instance meanwhile (views/support.py:53-64, models/support.py:38-45). *)
THEOREM ClosedTold == DeskSpec => []ClosedWasTold
  <1>1. DeskInv => ClosedWasTold
    BY DEF DeskInv
  <1> QED
    BY <1>1, DeskInvariant, PTL

(* What a message says was in a mail, except for a first message whose page has not mailed
   it, or died before it did (support_request_forms.py:25-32, support_message_forms.py:20-28). *)
THEOREM StoredMailed == DeskSpec => []StoredWasMailed
  <1>1. DeskInv => StoredWasMailed
    BY DEF DeskInv
  <1> QED
    BY <1>1, DeskInvariant, PTL

LEMMA PassedInTime ==
  ASSUME IInv, DeskInv, Waits, [DeskNext]_all, NEW t \in Thread,
         page'[t].at = "granted", page[t].at # "granted"
  PROVE  LET k == KeyOf[page'[t].kind]
         IN  Granted(k) \/ quiet[k] < Ttl \/ (thread[t].at # "idle" /\ thread[t].late)
  <1> DEFINE k == KeyOf[page'[t].kind]
  <1>1. ASSUME NEW u \in Thread, NEW kind \in Kind, NEW m \in Message \union {Missing},
               NEW text \in Text \union {Missing}, Open(u, kind, m, text)
        PROVE  Granted(k) \/ quiet[k] < Ttl
    <2>1. PICK point \in {"asks", "granted"} :
              page' = [page EXCEPT ![u] = [at |-> point, kind |-> kind, message |-> m, text |-> text]]
              /\ (point = "granted" => entry[KeyOf[kind]] # Missing /\ entry[KeyOf[kind]].answer)
      BY <1>1 DEF Open, Misses
    <2>2. t = u
      BY <2>1 DEF DeskInv, DeskTypes
    <2>3. page'[t].kind = kind /\ point = "granted"
      BY <2>1, <2>2 DEF DeskInv, DeskTypes
    <2>4. k \in Key /\ entry[k] # Missing /\ entry[k].answer
      BY <2>1, <2>3, KeyOfAssumption
    <2>5. entry[k].left \in 1..Ttl /\ quiet[k] \in 0..Ttl
      BY <2>4 DEF IInv, TypeOK, Entry
    <2>6. ASSUME ~Granted(k) PROVE entry[k].left + quiet[k] <= Ttl
      <3>1. Granted(k) \in BOOLEAN
        BY DEF Granted
      <3>2. entry[k].answer # Granted(k)
        BY <2>4, <2>6, <3>1
      <3> QED
        BY <2>4, <3>2 DEF IInv, WrongIsRecent
    <2> QED
      BY <2>5, <2>6, TtlAssumption
  <1>2. ASSUME NEW u \in Thread, Answered(u)
        PROVE  Granted(k) \/ (thread[t].at # "idle" /\ thread[t].late)
    <2>1. t = u
      BY <1>2 DEF Answered, Go, Leave, DeskInv, DeskTypes
    <2>2. thread[t].at = "store"
      BY <1>2, <2>1 DEF Answered, Store
    <2>3. page[t] \in Page /\ thread[t].key = KeyOf[page[t].kind]
      BY <2>2, AtPage DEF Waits
    <2>4. CASE thread[t].answer
      <3>1. page' = [page EXCEPT ![t].at = "granted"]
        BY <1>2, <2>1, <2>4 DEF Answered, Go
      <3>2. page'[t].kind = page[t].kind
        BY <2>3, <3>1 DEF Page, DeskInv, DeskTypes
      <3>3. Honest(thread[t])
        BY <2>2 DEF IInv, HandlersAreHonest
      <3> QED
        BY <2>2, <2>3, <2>4, <3>2, <3>3 DEF Honest, HoldsRight
    <2>5. CASE ~thread[t].answer
      BY <1>2, <2>1, <2>5, NoPageLeft DEF Answered, Leave, DeskInv, DeskTypes
    <2> QED
      BY <2>4, <2>5
  <1>3. ASSUME NEW u \in Thread, Step(u) PROVE FALSE
    BY <1>3, StepWaits
  <1>4. ASSUME NEW u \in Thread, Crash(u) PROVE FALSE
    BY <1>4, NoPageLeft DEF Crash, Leave, DeskInv, DeskTypes
  <1>5. ~UNCHANGED page
    OBVIOUS
  <1> QED
    BY <1>1, <1>2, <1>3, <1>4, <1>5 DEF DeskNext, Answering, all, desk, DeleteInstance

(* No page passes has_perm on a permission that was taken away longer than the life of an entry
   ago, unless it was being answered since before (squest_rbac.py:82-95, views/support.py:46). *)
THEOREM RevokedRefused == DeskSpec => RevokedIsRefused
  <1>1. IInv /\ DeskInv /\ Waits /\ [DeskNext]_all =>
          [\A t \in Thread : page'[t].at = "granted" /\ page[t].at # "granted" =>
              LET k == KeyOf[page'[t].kind]
              IN  Granted(k) \/ quiet[k] < Ttl \/ (thread[t].at # "idle" /\ thread[t].late)]_all
    BY PassedInTime
  <1> QED
    BY <1>1, DeskInvariant, PTL DEF DeskSpec, RevokedIsRefused
=============================================================================
