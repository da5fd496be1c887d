------------------------------- MODULE Scopes -------------------------------
(***************************************************************************)
(* Organizations and their teams (profiles/models), which permissions and  *)
(* quotas are about.                                                       *)
(***************************************************************************)

CONSTANTS Org, Team

VARIABLE orgOf    \* Team.org

Scope == Org \union Team

TeamsOf(o) == {t \in Team : orgOf[t] = o}
=============================================================================
