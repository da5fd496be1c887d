------------------------------- MODULE Survey -------------------------------
(***************************************************************************)
(* The answers of a request, on top of the catalog: what the user filled   *)
(* in, what the steps of an approval workflow changed, and what the        *)
(* administrator provided when he accepted; RHAAP/AWX is given their       *)
(* combination.  The surveys change under the requests: fields come and go *)
(* with the job templates, and move between user and administrator.  So do *)
(* the steps of the workflows: they are exchanged and deleted, and what a  *)
(* deleted step was answered goes with it.                                 *)
(*                                                                         *)
(* Bounds: MaxStep steps in a workflow, two of them change places in one   *)
(* step; a field that is asked for is answered with a value.               *)
(***************************************************************************)
EXTENDS Catalog, Integers, FiniteSetsExt

CONSTANTS Request, Value, MaxStep

VARIABLE request    \* operation, the step to approve next, and the surveys

vars == <<catalogVars, request>>

Answers == [Variable -> Value \union {None}]

\* The positions of the steps in the workflow of a request
Step == 1..MaxStep

RequestRow == [operation : Operation, current : Step \union {None},
               user : Answers, steps : [Step -> Answers], admin : Answers]

ASSUME ValueAssumption == None \notin Value /\ None \notin RequestRow

ASSUME StepAssumption == MaxStep \in Nat \ {0} /\ None \notin Step

TypeOK ==
    /\ CatalogTypeOK
    /\ request \in [Request -> {None} \union RequestRow]
    /\ \A r \in Request : request[r] # None => Exists(request[r].operation)

Init == CatalogInit /\ request = [r \in Request |-> None]

Open(r) == request[r] # None
Kind(r) == kind[request[r].operation]
Asked(r) == Fields(request[r].operation)

\* A dictionary with v in xs, and what d holds elsewhere
Updated(d, xs, v) == [x \in Variable |-> IF x \in xs THEN v[x] ELSE d[x]]

Blank == [x \in Variable |-> None]

NoSteps == [s \in Step |-> Blank]

\* The steps that answered x; a later one overrides those before it.
Holders(q, x) == {s \in Step : q.steps[s][x] # None}

StepAnswer(q, x) == IF Holders(q, x) = {} THEN None ELSE q.steps[Max(Holders(q, x))][x]

\* What the job is launched with, None if x has no answer
FullSurvey(q, x) ==
    IF q.admin[x] # None THEN q.admin[x]
    ELSE IF StepAnswer(q, x) # None THEN StepAnswer(q, x) ELSE q.user[x]

----------------------------------------------------------------------------
\* FormGenerator: the user is asked for the fields that are his
RequestOperation(r, o, current, v) ==
    /\ ~Open(r) /\ Exists(o) /\ operation[o].enabled
    /\ request' = [request EXCEPT ![r] =
           [operation |-> o, current |-> current, steps |-> NoSteps, admin |-> Blank,
            user |-> Updated(Blank, {x \in Variable : kind[o][x] = "USER"}, v)]]

\* The answers take the place of those the step had before; an automatic approval gives none.
ApproveStep(r, next, xs, v) ==
    /\ Open(r) /\ request[r].current # None /\ xs \subseteq Asked(r)
    /\ next # None => next > request[r].current
    /\ request' = [request EXCEPT ![r] = [@ EXCEPT
           !.steps = [request[r].steps EXCEPT ![request[r].current] = Updated(Blank, xs, v)],
           !.current = next]]

\* A new workflow state, or none, takes the place of the old one.
SetupApprovalWorkflow(r, current) ==
    /\ Open(r)
    /\ request' = [request EXCEPT ![r] = [@ EXCEPT !.steps = NoSteps, !.current = current]]

WithoutWorkflow(q) == [q EXCEPT !.steps = NoSteps, !.current = None]

\* The states of the step are deleted (CASCADE), and the whole workflow state if it was the current one.
WithoutStep(q, s) ==
    IF q.current = s THEN WithoutWorkflow(q) ELSE [q EXCEPT !.steps = [q.steps EXCEPT ![s] = Blank]]

\* Where x is after the steps at positions s and t changed places
Other(s, t, x) == CASE x = s -> t [] x # s /\ x = t -> s [] OTHER -> x

Exchanged(q, s, t) ==
    [q EXCEPT !.steps = [x \in Step |-> q.steps[Other(s, t, x)]], !.current = Other(s, t, q.current)]

\* The workflow, or a step of it, that the requests rs are approved by
DeleteApprovalWorkflow(rs) ==
    request' = [r \in Request |-> IF r \in rs /\ Open(r) THEN WithoutWorkflow(request[r]) ELSE request[r]]

DeleteApprovalStep(rs, s) ==
    request' = [r \in Request |-> IF r \in rs /\ Open(r) THEN WithoutStep(request[r], s) ELSE request[r]]

\* Two steps change places with what they were answered: an answered step may come up once more.
MoveStep(rs, s, t) ==
    request' = [r \in Request |-> IF r \in rs /\ Open(r) THEN Exchanged(request[r], s, t) ELSE request[r]]

\* mutant: the administrator's survey keeps his own fields only
AcceptUIOwnFields(r, v) ==
    /\ Open(r) /\ request[r].current = None
    /\ request' = [request EXCEPT ![r] =
           [@ EXCEPT !.admin = Updated(Blank, {x \in Asked(r) : Kind(r)[x] = "USER"}, v)]]

\* The form asks for every field, and its answers take the place of the administrator's survey.
AcceptUI(r, v) ==
    /\ Open(r) /\ request[r].current = None
    /\ request' = [request EXCEPT ![r] = [@ EXCEPT !.admin = Updated(Blank, Asked(r), v)]]

\* mutant: every answer goes to the user's survey
AcceptAPIForUser(r, xs, v) ==
    /\ Open(r) /\ xs \subseteq Asked(r)
    /\ request' = [request EXCEPT ![r] = [@ EXCEPT !.user = Updated(request[r].user, xs, v)]]

\* The API puts every answer it is given in the survey its field belongs to.
AcceptAPI(r, xs, v) ==
    /\ Open(r) /\ xs \subseteq Asked(r)
    /\ request' = [request EXCEPT ![r] = [@ EXCEPT
           !.user = Updated(request[r].user, {x \in xs : Kind(r)[x] = "USER"}, v),
           !.admin = Updated(request[r].admin, {x \in xs : Kind(r)[x] = "ADMIN"}, v)]]

DeleteRequest(r) ==
    /\ Open(r)
    /\ request' = [request EXCEPT ![r] = None]

AnswerStep ==
    \/ \E r \in Request, o \in Operation, current \in {1, None}, v \in [Variable -> Value] :
          RequestOperation(r, o, current, v)
    \/ \E r \in Request, next \in Step \union {None}, xs \in SUBSET Variable, v \in [Variable -> Value] :
          ApproveStep(r, next, xs, v)
    \/ \E r \in Request, current \in {1, None} : SetupApprovalWorkflow(r, current)
    \/ \E rs \in SUBSET Request \ {{}} :
          \/ DeleteApprovalWorkflow(rs)
          \/ \E s \in Step : DeleteApprovalStep(rs, s)
          \/ \E s, t \in Step : s < t /\ MoveStep(rs, s, t)
    \/ \E r \in Request, v \in [Variable -> Value] : AcceptUI(r, v)
    \/ \E r \in Request, xs \in SUBSET Variable, v \in [Variable -> Value] : AcceptAPI(r, xs, v)
    \/ \E r \in Request : DeleteRequest(r)

----------------------------------------------------------------------------
\* Under a change of the catalog

\* mutant: the answer leaves its survey and reaches no other
Dropped(q, old, new) ==
    [q EXCEPT
        !.user = [x \in Variable |-> IF old[x] = "USER" /\ new[x] = "ADMIN" THEN None ELSE q.user[x]],
        !.admin = [x \in Variable |-> IF old[x] = "ADMIN" /\ new[x] = "USER" THEN None ELSE q.admin[x]]]

\* on_change of TowerSurveyField carries the answer along.
Carried(q, old, new) ==
    LET toAdmin(x) == old[x] = "USER" /\ new[x] = "ADMIN" /\ q.user[x] # None
        toUser(x) == old[x] = "ADMIN" /\ new[x] = "USER" /\ q.admin[x] # None
    IN [q EXCEPT
           !.user = [x \in Variable |-> IF toUser(x) THEN q.admin[x] ELSE IF toAdmin(x) THEN None ELSE q.user[x]],
           !.admin = [x \in Variable |-> IF toAdmin(x) THEN q.user[x] ELSE IF toUser(x) THEN None ELSE q.admin[x]]]

\* Requests go with their operation.
UnderCatalog ==
    request' = [r \in Request |->
        IF ~Open(r) \/ operation'[request[r].operation] = None THEN None
        ELSE Carried(request[r], Kind(r), kind'[request[r].operation])]

Next ==
    \/ CatalogNext /\ UnderCatalog
    \/ AnswerStep /\ UNCHANGED catalogVars

Spec == Init /\ [][Next]_vars

----------------------------------------------------------------------------
(***************************************************************************)
(* A user may read his own survey of a request, so nothing the             *)
(* administrator keeps for himself may be in it: a field that is moved     *)
(* takes its answers along in every request, and one that comes back with  *)
(* another template starts as the user's without the administrator's       *)
(* answer.                                                                 *)
(***************************************************************************)
HiddenFromUser ==
    \A r \in Request : Open(r) => \A x \in Variable : request[r].user[x] # None => Kind(r)[x] # "ADMIN"

(***************************************************************************)
(* An answer to a field that is still in the survey is never lost, however *)
(* the field and the steps moved and whoever accepted, except in the ways  *)
(* a workflow loses it: its state is made anew or deleted with it, or the  *)
(* step that holds it is deleted (or the current one, and the state with   *)
(* it) or was moved behind the current one and is approved once more.      *)
(***************************************************************************)
WorkflowLoses(r, x) ==
    \/ \E current \in {1, None} : SetupApprovalWorkflow(r, current)
    \/ \E rs \in SUBSET Request :
          /\ r \in rs
          /\ \/ DeleteApprovalWorkflow(rs)
             \/ \E s \in Holders(request[r], x) \union (Step \intersect {request[r].current}) :
                   DeleteApprovalStep(rs, s)
    \/ /\ request[r].current \in Holders(request[r], x)
       /\ \E next \in Step \union {None}, xs \in SUBSET Variable, v \in [Variable -> Value] :
             ApproveStep(r, next, xs, v)

NothingForgotten ==
    [][\A r \in Request : Open(r) /\ Open(r)' =>
          \A x \in Asked(r) \intersect Asked(r)' :
              FullSurvey(request[r], x) # None /\ FullSurvey(request[r], x)' = None
                  => WorkflowLoses(r, x)]_vars

HeldOnce(q, x) ==
    /\ q.user[x] # None => StepAnswer(q, x) = None /\ q.admin[x] = None
    /\ q.admin[x] # None => StepAnswer(q, x) = None

(***************************************************************************)
(* Moving a field between the two surveys does not change what the job     *)
(* will be given, unless the answer of the user and another one were both  *)
(* there, or the administrator's and a step's: then the move lets the      *)
(* older one win.                                                          *)
(***************************************************************************)
MoveKeepsAnswer ==
    [][\A r \in Request : Open(r) /\ Open(r)' =>
          \A x \in Variable :
              HeldOnce(request[r], x) /\ FullSurvey(request[r], x)' # FullSurvey(request[r], x)
                  => ~\E o \in Operation : SwitchField(o, x)]_vars
=============================================================================
