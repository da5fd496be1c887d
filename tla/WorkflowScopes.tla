--------------------------- MODULE WorkflowScopes ---------------------------
(***************************************************************************)
(* Which approval workflow a request goes through.  A workflow serves some *)
(* scopes, or all of them when it names none; that of a team comes before  *)
(* that of its organization, which comes before that of all scopes.        *)
(*                                                                         *)
(* The code computes it three times: for a request (Request), for the      *)
(* requests to reset after a workflow was edited (ApprovalWorkflow), and   *)
(* for the page of a scope (Scope).  Workflows of different operations     *)
(* never meet, so one operation is modelled; ApprovalFlow is what happens  *)
(* inside one workflow.                                                    *)
(***************************************************************************)
EXTENDS Scopes, Integers

CONSTANTS
    Request,
    MaxWorkflow,   \* bound: workflows
    NoOrg,         \* in place of the organization of a team that does not exist
    None           \* no workflow

Workflow == 1..MaxWorkflow   \* primary keys, the default order of a query

ASSUME Kinds ==
    /\ MaxWorkflow \in Nat
    /\ Org \intersect Team = {} /\ NoOrg \notin Org /\ None \notin Workflow

VARIABLES
    exists, enabled, scopes,  \* ApprovalWorkflow: the rows, enabled, scopes
    request                   \* state, scope of the instance, approval_workflow_state

vars == <<exists, enabled, scopes, orgOf, request>>
workflows == <<exists, enabled, scopes>>

ExistingTeam == {t \in Team : orgOf[t] # NoOrg}

\* uses: the workflow of the state; old: its steps were changed since it was instantiated
Row == [state : {"FREE", "SUBMITTED", "OTHER"}, scope : Scope, uses : Workflow \union {None}, old : BOOLEAN]

Submitted == {r \in Request : request[r].state = "SUBMITTED"}

First(ws) == IF ws = {} THEN None ELSE CHOOSE w \in ws : \A v \in ws : w <= v

----------------------------------------------------------------------------
\* For a request

Serving(s) == {w \in exists : enabled[w] /\ s \in scopes[w]}
Default == {w \in exists : enabled[w] /\ scopes[w] = {}}

GetApprovalWorkflow(s) ==
    IF Serving(s) # {} THEN First(Serving(s))
    ELSE IF s \in Team /\ Serving(orgOf[s]) # {} THEN First(Serving(orgOf[s]))
    ELSE First(Default)

----------------------------------------------------------------------------
\* For a workflow

\* ScopeQuerySet.expand
Expand(ss) == ss \union {t \in Team : orgOf[t] \in ss}

AssignedToAnother(w) ==
    {s \in Scope : /\ \E v \in exists : enabled[v] /\ s \in scopes[v]
                   /\ s \notin scopes[w]}

\* mutant: a team that has a workflow of its own stays with its organization's
ExpandedWithOwn(w) == Expand(scopes[w])

ExpandedScopes(w) == Expand(scopes[w]) \ AssignedToAnother(w)

ShouldUse(w) ==
    IF ~enabled[w] THEN {}
    ELSE IF scopes[w] # {} THEN {r \in Submitted : request[r].scope \in ExpandedScopes(w)}
    ELSE {r \in Submitted : request[r].scope \notin Expand(AssignedToAnother(w))}

Using(w) == {r \in Submitted : request[r].uses = w}

\* The hash of a state was computed from an enabled workflow and from its steps.
GoodVersion(w) == {r \in Using(w) : enabled[w] /\ ~request[r].old}

\* mutant: requests that went to another workflow stay
RequestToResetOfVersion(w) == (ShouldUse(w) \ GoodVersion(w)) \union (Using(w) \ GoodVersion(w))

RequestToReset(w) ==
    (ShouldUse(w) \ GoodVersion(w)) \union (Using(w) \ GoodVersion(w)) \union (Using(w) \ ShouldUse(w))

----------------------------------------------------------------------------
\* For a scope

\* mutant: the workflow for all scopes is shown beside the others
WorkflowsOrDefault(s) ==
    Serving(s) \union Default \union (IF s \in Team THEN Serving(orgOf[s]) ELSE {})

\* Scope.get_workflows: each query excludes the operations the ones before have a workflow for.
\* It shows enabled operations only, and the operation is one.
GetWorkflows(s) ==
    LET own == Serving(s)
        org == IF s \in Team /\ own = {} THEN Serving(orgOf[s]) ELSE {}
        all == IF own \union org = {} THEN Default ELSE {}
    IN  own \union org \union all

----------------------------------------------------------------------------
Init ==
    /\ exists = {} /\ enabled = [w \in Workflow |-> FALSE] /\ scopes = [w \in Workflow |-> {}]
    /\ orgOf = [t \in Team |-> NoOrg]
    /\ request \in [Request -> [state : {"FREE"}, scope : Org, uses : {None}, old : {FALSE}]]

----------------------------------------------------------------------------
\* Workflows.  The form and the serializer check the same.

\* mutant: disabled workflows are not looked at
UnusedByEnabled(w, ss) ==
    IF ss = {} THEN Default \ {w} = {}
    ELSE \A s \in ss, v \in exists \ {w} : enabled[v] => s \notin scopes[v]

\* mutant: the check for all scopes is forgotten
UnusedScopes(w, ss) == \A s \in ss, v \in exists \ {w} : s \notin scopes[v]

Unused(w, ss) ==
    IF ss = {} THEN Default \ {w} = {}
    ELSE \A s \in ss, v \in exists \ {w} : s \notin scopes[v]

SaveWorkflow(w, ss, on) ==
    /\ Unused(w, ss)
    /\ exists' = exists \union {w}
    /\ scopes' = [scopes EXCEPT ![w] = ss]
    /\ enabled' = [enabled EXCEPT ![w] = on]
    /\ UNCHANGED <<orgOf, request>>

CreateWorkflow(w, ss, on) == w \notin exists /\ SaveWorkflow(w, ss, on)
EditWorkflow(w, ss, on) == w \in exists /\ SaveWorkflow(w, ss, on)

\* its states are deleted with it (CASCADE), and the requests lose theirs (SET_NULL)
WithoutWorkflow(row, w) == IF row.uses = w THEN [row EXCEPT !.uses = None, !.old = FALSE] ELSE row

DeleteWorkflow(w) ==
    /\ w \in exists
    /\ exists' = exists \ {w}
    /\ scopes' = [scopes EXCEPT ![w] = {}] /\ enabled' = [enabled EXCEPT ![w] = FALSE]
    /\ request' = [r \in Request |-> WithoutWorkflow(request[r], w)]
    /\ UNCHANGED <<orgOf>>

\* a step is created, edited, moved or deleted: the hash changes
ChangeSteps(w) ==
    /\ w \in exists
    /\ request' = [r \in Request |->
          IF request[r].uses = w THEN [request[r] EXCEPT !.old = TRUE] ELSE request[r]]
    /\ UNCHANGED <<workflows, orgOf>>

----------------------------------------------------------------------------
\* Requests.  What the new state's steps do is in ApprovalFlow: they may accept the request.

SetupApprovalWorkflow(row, state) ==
    [row EXCEPT !.state = state, !.uses = GetApprovalWorkflow(row.scope), !.old = FALSE]

Submit(r, s) ==
    /\ request[r].state = "FREE" /\ s \in Org \union ExistingTeam
    /\ \E state \in {"SUBMITTED", "OTHER"} :
          request' = [request EXCEPT ![r] = SetupApprovalWorkflow([@ EXCEPT !.scope = s], state)]
    /\ UNCHANGED <<workflows, orgOf>>

\* Only a SUBMITTED request is re-submitted; the new steps, or the operation, may accept it at once.
ReSubmit(r) ==
    /\ r \in Submitted
    /\ \E state \in {"SUBMITTED", "OTHER"} :
          request' = [request EXCEPT ![r] = SetupApprovalWorkflow(@, state)]
    /\ UNCHANGED <<workflows, orgOf>>

\* accepted, refused or put on hold
Leave(r) ==
    /\ r \in Submitted
    /\ request' = [request EXCEPT ![r].state = "OTHER"]
    /\ UNCHANGED <<workflows, orgOf>>

\* What the reset of w leaves; the new steps may accept some of the requests.
AfterReset(w, accepted) ==
    [r \in Request |->
        IF r \notin RequestToReset(w) THEN request[r]
        ELSE SetupApprovalWorkflow(request[r], IF r \in accepted THEN "OTHER" ELSE "SUBMITTED")]

Reset(w) ==
    /\ w \in exists
    /\ \E accepted \in SUBSET RequestToReset(w) :
          /\ \A r \in accepted : GetApprovalWorkflow(request[r].scope) # None
          /\ request' = AfterReset(w, accepted)
    /\ UNCHANGED <<workflows, orgOf>>

----------------------------------------------------------------------------
\* What the workflows depend on

EditInstance(r, s) ==
    /\ request[r].state # "FREE" /\ s \in Org \union ExistingTeam
    /\ request' = [request EXCEPT ![r].scope = s]
    /\ UNCHANGED <<workflows, orgOf>>

SaveTeam(t, o) ==
    /\ orgOf' = [orgOf EXCEPT ![t] = o]
    /\ UNCHANGED <<workflows, request>>

\* PROTECT from instances and teams; the rows of ApprovalWorkflow.scopes go with the scope
DeleteScope(s) ==
    /\ s \in Team => s \in ExistingTeam
    /\ \A t \in Team : orgOf[t] # s
    /\ \A r \in Request : request[r].state # "FREE" => request[r].scope # s
    /\ orgOf' = IF s \in Team THEN [orgOf EXCEPT ![s] = NoOrg] ELSE orgOf
    /\ scopes' = [w \in Workflow |-> scopes[w] \ {s}]
    /\ UNCHANGED <<exists, enabled, request>>

FormStep ==
    \E w \in Workflow, on \in BOOLEAN, ss \in SUBSET (Org \union ExistingTeam) :
        CreateWorkflow(w, ss, on) \/ EditWorkflow(w, ss, on)

Next ==
    \/ FormStep
    \/ \E w \in Workflow : DeleteWorkflow(w) \/ ChangeSteps(w) \/ Reset(w)
    \/ \E r \in Request, s \in Scope : Submit(r, s) \/ EditInstance(r, s)
    \/ \E r \in Request : ReSubmit(r) \/ Leave(r)
    \/ \E t \in Team, o \in Org : SaveTeam(t, o)
    \/ \E s \in Scope : DeleteScope(s)

Spec == Init /\ [][Next]_vars
----------------------------------------------------------------------------
\* Every variable keeps its type; rows refer to workflows and scopes that exist.
TypeOK ==
    /\ exists \subseteq Workflow
    /\ enabled \in [Workflow -> BOOLEAN]
    /\ scopes \in [Workflow -> SUBSET Scope]
    /\ \A w \in Workflow : scopes[w] \subseteq Org \union ExistingTeam
    /\ \A w \in Workflow \ exists : scopes[w] = {} /\ ~enabled[w]
    /\ orgOf \in [Team -> Org \union {NoOrg}]
    /\ request \in [Request -> Row]
    /\ \A r \in Request : request[r].scope \in Org \union ExistingTeam
    /\ \A r \in Request : request[r].uses \in exists \union {None}

\* approval_workflow_form.py: "The scope has already an approval workflow based on this operation"
ServedOnce == \A v, w \in exists : v # w => scopes[v] \intersect scopes[w] = {}

\* approval_workflow_form.py: "An approval workflow for all scopes already exists".
OneDefault == \A v, w \in Default : v = w

\* The form and the serializer never enable a second workflow for all scopes.  (Deleting the last
\* scope of a workflow does: it has no scope any more, which means all scopes.)
DefaultsFromDeletion == [][OneDefault /\ ~OneDefault' => ~FormStep]_vars

\* The reset of a workflow looks for the requests that should use it (scopes, their teams, minus
\* those of other workflows); a request looks for its workflow the other way round.  As long as
\* one workflow at most is for all scopes, they agree on every request and workflow.
ResetAgreesWithChoice ==
    OneDefault =>
        \A w \in exists : ShouldUse(w) = {r \in Submitted : GetApprovalWorkflow(request[r].scope) = w}

\* The page of a scope shows the workflow its requests would get, and no other.
PageAgreesWithChoice ==
    OneDefault =>
        \A s \in Org \union ExistingTeam :
            GetWorkflows(s) = {w \in exists : w = GetApprovalWorkflow(s)}

\* The three computations of the workflow of a scope are one choice.
ChoicesAgree == ResetAgreesWithChoice /\ PageAgreesWithChoice

\* A reset leaves the requests that should use the workflow, all with its present steps: none is
\* left behind, and none is kept that belongs elsewhere (approval_workflow.py:67-110).
ResetIsDone ==
    OneDefault =>
        \A w \in exists, r \in Submitted :
            LET after == AfterReset(w, {})[r]
            IN  /\ after.uses = w <=> GetApprovalWorkflow(request[r].scope) = w
                /\ after.uses = w => enabled[w] /\ ~after.old
============================================================================
