-------------------------------- MODULE Quota --------------------------------
(***************************************************************************)
(* The quota of organizations and teams for one attribute.  A quota bounds *)
(* what the instances of its scope use; the quota of an organization also  *)
(* covers what it gave to its teams.  Nothing enforces a limit afterwards: *)
(* it is compared with the consumption when a quota is validated, and that *)
(* happens before it is saved, in another statement.                       *)
(*                                                                         *)
(* A change is validated by the form (QuotaForm) or by the serializer      *)
(* (QuotaSerializer).  A slow administrator's change waits between the two *)
(* in pending; the others' are validated and saved in one step.            *)
(*                                                                         *)
(* The API may also give a row to another scope or to another attribute:  *)
(* Elsewhere stands for the rows of the other attributes, and for a row    *)
(* that was deleted while an edit still held it.                           *)
(*                                                                         *)
(* Bounds: the limits of one attribute, amounts up to Max(Amount),         *)
(* instances only in the scopes of Used, one slow change at a time.        *)
(***************************************************************************)
EXTENDS Scopes, Integers, FiniteSets, FiniteSetsExt

CONSTANTS Amount,    \* limits and usages
          Used,      \* the scopes in which instances have resources
          Elsewhere, \* where a row is that limits no scope for this attribute
          None

ASSUME QuotaAssumption ==
    /\ Amount \subseteq Nat /\ 0 \in Amount /\ None \notin Amount /\ None \notin Scope
    /\ Org \cap Team = {} /\ Used \subseteq Scope /\ IsFiniteSet(Team)
    /\ Elsewhere \notin Scope /\ Elsewhere # None

VARIABLES limit,    \* Quota.limit of the scope, None without a row
          usage,    \* the values of the resources of the scope's instances
          pending,  \* a change that was validated and not saved yet
          given     \* history: where the last step took a row from, None if it moved none

quotaVars == <<orgOf, limit, usage, pending, given>>

Place == Scope \cup {Elsewhere}

\* A form sets or clears the limit of a scope; the API creates a row, or edits the one that is at "of".
Change ==
    [by: {"form"}, of: {None}, scope: Scope, limit: Amount \cup {None}]
        \cup [by: {"create"}, of: {None}, scope: Scope, limit: Amount]
        \cup [by: {"edit"}, of: Place, scope: Place, limit: Amount]

-----------------------------------------------------------------------------
Limited(S) == {s \in S : limit[s] # None}

\* mutant: what the teams were given is not consumed
GivenToNobody(o) == 0

\* Quota.consumed: the usage of the scope itself, and for an organization the limits of its teams.
Given(o)    == MapThenSumSet(LAMBDA t : limit[t], Limited(TeamsOf(o)))
Consumed(s) == usage[s] + IF s \in Org THEN Given(s) ELSE 0

Available(s) == limit[s] - Consumed(s)

CurrentLimit(s) == IF limit[s] = None THEN 0 ELSE limit[s]

\* The field of a team exists only if its organization has a quota.
FormAccepts(s, l) ==
    /\ s \in Team => limit[orgOf[s]] # None
    /\ l # None =>
          /\ l >= Consumed(s)
          /\ s \in Team => l <= Available(orgOf[s]) + CurrentLimit(s)

\* mutant: the limit that is going to be replaced is not available
ApiAcceptsLess(s, l) ==
    /\ s \in Org => l >= IF limit[s] = None THEN 0 ELSE Consumed(s)
    /\ s \in Team => limit[orgOf[s]] # None /\ l <= Available(orgOf[s])

\* Without a row the serializer takes the consumption of an organization for 0; it never
\* compares the limit of a team with what the team uses.
ApiAccepts(s, l) ==
    /\ s \in Org => l >= IF limit[s] = None THEN 0 ELSE Consumed(s)
    /\ s \in Team => limit[orgOf[s]] # None /\ l <= Available(orgOf[s]) + CurrentLimit(s)

\* What an edit does to another attribute is not looked at.
Accepted(c) ==
    CASE c.by = "form"   -> FormAccepts(c.scope, c.limit)
      [] c.by = "create" -> limit[c.scope] = None /\ ApiAccepts(c.scope, c.limit)
      [] c.by = "edit"   -> /\ c.of \in Scope => limit[c.of] # None
                            /\ c.scope \in Scope =>
                                  /\ c.scope = c.of \/ limit[c.scope] = None
                                  /\ ApiAccepts(c.scope, c.limit)

\* mutant: the quotas of the teams stay behind
WithoutItself(s) == [limit EXCEPT ![s] = None]

\* post_delete: the quota of an organization takes those of its teams with it.
Without(s) == [x \in Scope |-> IF x = s \/ (s \in Org /\ x \in TeamsOf(s)) THEN None ELSE limit[x]]

\* An edit takes its row to another place, unless a row is there by now (unique_together).
Moves(c) == c.by = "edit" /\ c.scope # c.of /\ (c.scope \in Scope => limit[c.scope] = None)

MovedFrom(c) == IF Moves(c) THEN c.of ELSE None

\* Saving a change whatever happened since it was validated: the form looks the row up again; the
\* API creates one, unless there is one by now, or saves the object it holds, deleted or not. It is
\* no deletion to take a row from an organization: the quotas of the teams stay.
Saved(c) ==
    CASE c.by = "form" /\ c.limit = None -> IF limit[c.scope] = None THEN limit ELSE Without(c.scope)
      [] c.by = "form" /\ c.limit # None -> [limit EXCEPT ![c.scope] = c.limit]
      [] c.by = "create" -> IF limit[c.scope] = None THEN [limit EXCEPT ![c.scope] = c.limit] ELSE limit
      [] c.by = "edit" -> IF c.scope # c.of /\ ~Moves(c) THEN limit
                          ELSE [s \in Scope |-> CASE s = c.scope -> c.limit
                                                 [] s # c.scope /\ s = c.of -> None
                                                 [] OTHER -> limit[s]]

\* The edit that waits holds its row: when others change the limits to m, or move a row, the row is
\* where they moved it, gone, or where it was.
Followed(m, from, to) ==
    IF pending = None \/ pending.by # "edit" THEN {pending}
    ELSE {[pending EXCEPT !.of = x] : x \in
             IF pending.of = from THEN {to} \cup ({from} \cap {Elsewhere})
             ELSE {IF pending.of \in Scope /\ m[pending.of] = None THEN Elsewhere ELSE pending.of}}

-----------------------------------------------------------------------------
QuotaInit ==
    /\ orgOf \in [Team -> Org]
    /\ limit = [s \in Scope |-> None]
    /\ usage = [s \in Scope |-> 0]
    /\ pending = None
    /\ given = None

ChangeQuota(c) ==
    /\ Accepted(c)
    /\ limit' = Saved(c)
    /\ given' = MovedFrom(c)
    /\ pending' \in Followed(Saved(c), MovedFrom(c), c.scope)
    /\ UNCHANGED <<orgOf, usage>>

Validate(c) ==
    /\ pending = None
    /\ Accepted(c)
    /\ pending' = c
    /\ given' = None
    /\ UNCHANGED <<orgOf, limit, usage>>

Save ==
    /\ pending # None
    /\ limit' = Saved(pending)
    /\ given' = MovedFrom(pending)
    /\ pending' = None
    /\ UNCHANGED <<orgOf, usage>>

\* The worker or the browser of the slow administrator goes away.
Abandon ==
    /\ pending # None
    /\ pending' = None
    /\ given' = None
    /\ UNCHANGED <<orgOf, limit, usage>>

DeleteQuota(s) ==
    /\ limit[s] # None
    /\ limit' = Without(s)
    /\ given' = None
    /\ pending' \in Followed(Without(s), None, None)
    /\ UNCHANGED <<orgOf, usage>>

\* The form and the serializer of a team let its organization change; its quota goes with it.
MoveTeam(t, o) ==
    /\ orgOf' = [orgOf EXCEPT ![t] = o]
    /\ given' = None
    /\ UNCHANGED <<limit, usage, pending>>

\* Resources of instances come and go; limits only bound what a survey lets one ask for.
Use(s, n) ==
    /\ usage' = [usage EXCEPT ![s] = n]
    /\ given' = None
    /\ UNCHANGED <<orgOf, limit, pending>>

QuotaNext ==
    \/ \E c \in Change : ChangeQuota(c)
    \/ \E c \in Change : Validate(c)
    \/ Save
    \/ Abandon
    \/ \E s \in Scope : DeleteQuota(s)
    \/ \E t \in Team, o \in Org : MoveTeam(t, o)
    \/ \E s \in Used, n \in Amount : Use(s, n)

QuotaSpec == QuotaInit /\ [][QuotaNext]_quotaVars

-----------------------------------------------------------------------------
(* What the limits mean.                                                   *)

QuotaTypeOK ==
    /\ orgOf \in [Team -> Org]
    /\ limit \in [Scope -> Amount \cup {None}]
    /\ usage \in [Scope -> Amount]
    /\ pending \in Change \cup {None}
    /\ given \in Place \cup {None}

\* The pending change is saved, and would not be accepted any more.
Overtaken == pending # None /\ pending' = None /\ limit' # limit /\ ~Accepted(pending)

\* A limit the serializer lets in below the consumption: a team's, or a new one of an organization.
BelowUsage(c) == /\ c.by # "form"
                 /\ c.scope \in Team \/ limit[c.scope] = None
                 /\ c.limit < Consumed(c.scope)

\* The row of scope s was given to another scope or attribute (only the API does that).
HandedOver(s) == given' = s

\* What a limit is for: the usage of the scope, and of its teams as far as they may go.
Committed(s) ==
    usage[s] + MapThenSumSet(LAMBDA t : limit[t], {t \in Team : orgOf[t] = s /\ limit[t] # None})

Covers(s) == limit[s] # None => Committed(s) <= limit[s]

\* A limit covers what its scope uses and what its teams were given (quota.py:48-75, quota_forms.py:34-61,
\* quota_serializer.py:31-53).  A step breaks that only if it uses more, moves a team, saves a change
\* that would be refused by now, or is one of the two limits the API does not compare.
LimitsCover ==
    [][\A s \in Scope : Covers(s) =>
          \/ Covers(s)'
          \/ usage'[s] > usage[s]
          \/ orgOf' # orgOf
          \/ Overtaken
          \/ \E c \in Change : c.scope = s /\ BelowUsage(c) /\ Accepted(c) /\ limit' = Saved(c)]_quotaVars

Covered(t) == limit[t] # None => limit[orgOf[t]] # None

\* A team has a quota only under a quota of its organization (quota.py:107-113, quota_serializer.py:39-46).
\* That breaks only if the team moves, the API hands the row of the organization over to another scope
\* or attribute, or the organization lost its quota while the team's was being saved.
TeamsUnderOrg ==
    [][\A t \in Team : Covered(t) =>
          Covered(t)' \/ orgOf'[t] # orgOf[t] \/ HandedOver(orgOf[t]) \/ Overtaken]_quotaVars

\* A limit the form accepts is accepted by the API too (quota_forms.py:34-68, quota_serializer.py:12-54).
ApiNeverStricter == \A s \in Scope, l \in Amount : FormAccepts(s, l) => ApiAccepts(s, l)

=============================================================================
