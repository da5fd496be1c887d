\* A workflow for a team, one for an organization and one for all scopes.
CONSTANTS
    Request = {r1}
    Org = {o1, o2}
    Team = {t1}
    MaxWorkflow = 3
    NoOrg = NoOrg
    None = None
SPECIFICATION Spec
INVARIANTS
    ServedOnce
    ChoicesAgree
    ResetIsDone
PROPERTIES
    DefaultsFromDeletion
