------------------------ MODULE WorkflowScopesProofs ------------------------
(***************************************************************************)
(* The choice of an approval workflow, for every number of requests,       *)
(* scopes and workflows.                                                   *)
(*                                                                         *)
(* Two workflows never share a scope, so that at most one serves a scope   *)
(* directly; with one workflow for all scopes at most, the three queries   *)
(* of the code then describe the same choice.                              *)
(***************************************************************************)
EXTENDS WorkflowScopes, WellFoundedInduction, TLAPS

(* A request that was not made yet has no team's scope: a team may go. *)
FreeInOrg == \A r \in Request : request[r].state = "FREE" => request[r].scope \in Org

IInv == TypeOK /\ FreeInOrg /\ ServedOnce

-----------------------------------------------------------------------------
(* The first workflow of a query.                                          *)

LEMMA FirstIsThere ==
  ASSUME NEW ws \in SUBSET Workflow, ws # {}
  PROVE  First(ws) \in ws
  <1> DEFINE R == {ss \in Nat \X Nat : ss[1] < ss[2]}
  <1>1. ws \subseteq Nat
    BY DEF Workflow
  <1>2. IsWellFoundedOn(R, Nat)
    <2>1. IsWellFoundedOn(OpToRel(<, Nat), Nat)
      BY NatLessThanWellFounded, Zenon
    <2>2. OpToRel(<, Nat) = R
      BY Zenon DEF OpToRel
    <2> QED
      BY <2>1, <2>2, Zenon
  <1>3. PICK w \in ws : \A v \in ws : ~ (<<v, w>> \in R)
    BY <1>1, <1>2, WFMin, Zenon
  <1>4. \A v \in ws : w <= v
    <2> SUFFICES ASSUME NEW v \in ws PROVE w <= v
      OBVIOUS
    <2>1. v \in Nat /\ w \in Nat
      BY <1>1
    <2>2. ~(v < w)
      BY <1>3, <2>1
    <2> QED
      BY <2>1, <2>2
  <1> QED
    BY <1>4 DEF First

LEMMA FirstOfAny ==
  ASSUME NEW ws \in SUBSET Workflow
  PROVE  First(ws) \in ws \union {None}
  BY FirstIsThere DEF First

LEMMA FirstOfOne ==
  ASSUME NEW ws \in SUBSET Workflow, \A v, w \in ws : v = w, NEW w \in Workflow
  PROVE  First(ws) = w <=> w \in ws
  <1>1. CASE ws = {}
    BY <1>1, Kinds DEF First
  <1>2. CASE ws # {}
    BY <1>2, FirstIsThere
  <1> QED
    BY <1>1, <1>2

LEMMA ChosenExists ==
  ASSUME TypeOK, NEW s \in Scope
  PROVE  GetApprovalWorkflow(s) \in exists \union {None}
  <1>1. /\ \A x : Serving(x) \in SUBSET Workflow /\ Serving(x) \subseteq exists
        /\ Default \in SUBSET Workflow /\ Default \subseteq exists
    BY DEF TypeOK, Serving, Default
  <1> QED
    BY <1>1, FirstOfAny DEF GetApprovalWorkflow

-----------------------------------------------------------------------------
(* What is chosen, without the order of the queries.                       *)

LEMMA ServingOne ==
  ASSUME TypeOK, ServedOnce, NEW s \in Scope
  PROVE  Serving(s) \in SUBSET Workflow /\ \A v, w \in Serving(s) : v = w
  BY DEF TypeOK, ServedOnce, Serving

LEMMA ChosenIs ==
  ASSUME TypeOK, ServedOnce, OneDefault, NEW s \in Org \union ExistingTeam, NEW w \in exists
  PROVE  GetApprovalWorkflow(s) = w <=>
            \/ w \in Serving(s)
            \/ Serving(s) = {} /\ s \in Team /\ w \in Serving(orgOf[s])
            \/ Serving(s) = {} /\ (s \in Team => Serving(orgOf[s]) = {}) /\ w \in Default
  <1>1. s \in Scope /\ w \in Workflow /\ (s \in Team => orgOf[s] \in Scope)
    BY Kinds DEF TypeOK, Scope, ExistingTeam
  <1>2. First(Serving(s)) = w <=> w \in Serving(s)
    BY <1>1, ServingOne, FirstOfOne
  <1>3. s \in Team => (First(Serving(orgOf[s])) = w <=> w \in Serving(orgOf[s]))
    BY <1>1, ServingOne, FirstOfOne
  <1>4. First(Default) = w <=> w \in Default
    <2>1. Default \in SUBSET Workflow /\ \A u, v \in Default : u = v
      BY DEF OneDefault, Default, TypeOK
    <2> QED
      BY <1>1, <2>1, FirstOfOne
  <1> QED
    BY <1>2, <1>3, <1>4 DEF GetApprovalWorkflow

-----------------------------------------------------------------------------
(* The three queries.                                                      *)

LEMMA QueriesAgree == IInv => ChoicesAgree
  <1> SUFFICES ASSUME IInv, OneDefault PROVE ResetAgreesWithChoice /\ PageAgreesWithChoice
    BY DEF ChoicesAgree, ResetAgreesWithChoice, PageAgreesWithChoice
  <1> USE DEF IInv
  <1>1. ASSUME NEW w \in exists, NEW r \in Submitted
        PROVE  r \in ShouldUse(w) <=> GetApprovalWorkflow(request[r].scope) = w
    <2> DEFINE s == request[r].scope
    <2>1. s \in Org \union ExistingTeam
      BY DEF TypeOK, Submitted
    <2>2. /\ w \in Workflow /\ scopes[w] \subseteq Scope
          /\ s \in Scope /\ (s \in Team => orgOf[s] \in Scope)
      BY <2>1, Kinds DEF TypeOK, ExistingTeam, Scope
    <2> HIDE DEF s
    <2>3. s \in ExpandedScopes(w) <=>
            /\ s \in scopes[w] \/ (s \in Team /\ orgOf[s] \in scopes[w])
            /\ Serving(s) # {} => s \in scopes[w]
      BY <2>2 DEF ExpandedScopes, Expand, AssignedToAnother, Serving
    <2>4. scopes[w] = {} => (s \notin Expand(AssignedToAnother(w)) <=>
            Serving(s) = {} /\ (s \in Team => Serving(orgOf[s]) = {}))
      BY <2>2 DEF Expand, AssignedToAnother, Serving
    <2>5. r \in ShouldUse(w) <=>
            /\ enabled[w]
            /\ IF scopes[w] # {} THEN s \in ExpandedScopes(w) ELSE s \notin Expand(AssignedToAnother(w))
      BY DEF ShouldUse, s
    <2>6. GetApprovalWorkflow(s) = w <=>
            \/ w \in Serving(s)
            \/ Serving(s) = {} /\ s \in Team /\ w \in Serving(orgOf[s])
            \/ Serving(s) = {} /\ (s \in Team => Serving(orgOf[s]) = {}) /\ w \in Default
      BY <2>1, ChosenIs
    <2>7. /\ \A x : w \in Serving(x) <=> enabled[w] /\ x \in scopes[w]
          /\ w \in Default <=> enabled[w] /\ scopes[w] = {}
      BY DEF Serving, Default
    <2> QED
      BY <2>3, <2>4, <2>5, <2>6, <2>7 DEF s
  <1>2. ResetAgreesWithChoice
    <2>1. \A w \in exists : ShouldUse(w) \subseteq Submitted
      BY DEF ShouldUse
    <2> QED
      BY <1>1, <2>1 DEF ResetAgreesWithChoice
  <1>3. ASSUME NEW s \in Org \union ExistingTeam, NEW w \in exists
        PROVE  w \in GetWorkflows(s) <=> w = GetApprovalWorkflow(s)
    BY ChosenIs DEF GetWorkflows
  <1>4. PageAgreesWithChoice
    <2>1. \A s : GetWorkflows(s) \subseteq exists
      BY DEF GetWorkflows, Serving, Default
    <2> QED
      BY <1>3, <2>1 DEF PageAgreesWithChoice
  <1> QED
    BY <1>2, <1>4

-----------------------------------------------------------------------------
(* The row that a new workflow state leaves.                               *)

LEMMA SetUp ==
  ASSUME TypeOK, NEW row \in Row, NEW state \in {"SUBMITTED", "OTHER"}
  PROVE  LET new == SetupApprovalWorkflow(row, state)
         IN  /\ new \in Row
             /\ new.scope = row.scope /\ new.state = state
             /\ new.uses = GetApprovalWorkflow(row.scope) /\ new.old = FALSE
             /\ new.uses \in exists \union {None}
  <1> DEFINE u == GetApprovalWorkflow(row.scope)
  <1>1. u \in exists \union {None} /\ u \in Workflow \union {None}
    BY ChosenExists DEF Row, TypeOK
  <1> HIDE DEF u
  <1>2. SetupApprovalWorkflow(row, state) = [row EXCEPT !.state = state, !.uses = u, !.old = FALSE]
    BY DEF SetupApprovalWorkflow, u
  <1> QED
    BY <1>1, <1>2 DEF Row, u

LEMMA ResetLeaves == IInv => ResetIsDone
  <1> SUFFICES ASSUME IInv, OneDefault, NEW w \in exists, NEW r \in Submitted
               PROVE  LET after == AfterReset(w, {})[r]
                      IN  /\ after.uses = w <=> GetApprovalWorkflow(request[r].scope) = w
                          /\ after.uses = w => enabled[w] /\ ~after.old
    BY DEF ResetIsDone
  <1> DEFINE chosen == GetApprovalWorkflow(request[r].scope)
             after == AfterReset(w, {})[r]
  <1>1. r \in Request /\ request[r] \in Row
    BY DEF Submitted, IInv, TypeOK
  <1>2. r \in ShouldUse(w) <=> chosen = w
    BY QueriesAgree DEF ChoicesAgree, ResetAgreesWithChoice
  <1>3. chosen = w => enabled[w]
    BY <1>2 DEF ShouldUse
  <1>4. after = IF r \in RequestToReset(w) THEN SetupApprovalWorkflow(request[r], "SUBMITTED")
                ELSE request[r]
    BY <1>1 DEF AfterReset
  <1>5. CASE r \in RequestToReset(w)
    <2> DEFINE new == SetupApprovalWorkflow(request[r], "SUBMITTED")
    <2>1. new.uses = chosen /\ new.old = FALSE
      <3>1. TypeOK
        BY DEF IInv
      <3> QED
        BY <1>1, <3>1, SetUp
    <2> HIDE DEF new
    <2>2. after = new
      BY <1>4, <1>5 DEF new
    <2>3. after.uses = chosen /\ ~after.old
      BY <2>1, <2>2
    <2> QED
      BY <1>3, <2>3
  <1>6. CASE r \notin RequestToReset(w)
    <2>1. r \in Using(w) <=> request[r].uses = w
      BY DEF Using
    <2>2. r \in GoodVersion(w) => r \in Using(w) /\ enabled[w] /\ ~request[r].old
      BY DEF GoodVersion
    <2>3. (r \in ShouldUse(w) => r \in GoodVersion(w)) /\ (r \in Using(w) => r \in GoodVersion(w) /\ r \in ShouldUse(w))
      BY <1>6 DEF RequestToReset
    <2> QED
      BY <1>2, <1>4, <1>6, <2>1, <2>2, <2>3
  <1> QED
    BY <1>5, <1>6

-----------------------------------------------------------------------------
(* The invariant is kept.                                                  *)

(* Without workflows no scope is served twice. *)
THEOREM InitIInv == Init => IInv
  <1> SUFFICES ASSUME Init PROVE IInv
    OBVIOUS
  <1>1. request \in [Request -> Row] /\ \A r \in Request : request[r].scope \in Org /\ request[r].uses = None
    BY DEF Init, Row, Scope
  <1>2. TypeOK
    BY <1>1 DEF Init, TypeOK
  <1> QED
    BY <1>1, <1>2 DEF Init, IInv, FreeInOrg, ServedOnce

LEMMA SaveWorkflowKeeps ==
  ASSUME IInv, NEW w \in Workflow, NEW ss \in SUBSET (Org \union ExistingTeam), NEW on \in BOOLEAN,
         SaveWorkflow(w, ss, on)
  PROVE  IInv'
  <1>1. /\ exists' = exists \union {w} /\ scopes' = [scopes EXCEPT ![w] = ss]
        /\ enabled' = [enabled EXCEPT ![w] = on] /\ UNCHANGED <<orgOf, request>>
    BY DEF SaveWorkflow
  <1>2. ss \subseteq Scope
    BY DEF Scope, ExistingTeam
  <1>3. TypeOK'
    BY <1>1, <1>2 DEF IInv, TypeOK, ExistingTeam
  <1>4. \A v \in exists \ {w} : ss \intersect scopes[v] = {}
    BY DEF SaveWorkflow, Unused
  <1>5. ServedOnce'
    BY <1>1, <1>4 DEF IInv, TypeOK, ServedOnce
  <1> QED
    BY <1>1, <1>3, <1>5 DEF IInv, FreeInOrg

LEMMA DeleteWorkflowKeeps ==
  ASSUME IInv, NEW w \in Workflow, DeleteWorkflow(w)
  PROVE  IInv'
  <1>1. /\ exists' = exists \ {w} /\ scopes' = [scopes EXCEPT ![w] = {}]
        /\ enabled' = [enabled EXCEPT ![w] = FALSE] /\ orgOf' = orgOf
        /\ request' = [r \in Request |-> WithoutWorkflow(request[r], w)]
    BY DEF DeleteWorkflow
  <1>2. ASSUME NEW r \in Request
        PROVE  /\ request'[r] \in Row /\ request'[r].uses \in (exists \ {w}) \union {None}
               /\ request'[r].scope = request[r].scope /\ request'[r].state = request[r].state
    <2>1. request[r] \in Row /\ request[r].uses \in exists \union {None}
      BY DEF IInv, TypeOK
    <2>2. request'[r] = WithoutWorkflow(request[r], w)
      BY <1>1
    <2> QED
      BY <2>1, <2>2 DEF WithoutWorkflow, Row
  <1>3. TypeOK'
    BY <1>1, <1>2 DEF IInv, TypeOK, ExistingTeam
  <1>4. FreeInOrg' /\ ServedOnce'
    BY <1>1, <1>2 DEF IInv, TypeOK, FreeInOrg, ServedOnce
  <1> QED
    BY <1>3, <1>4 DEF IInv

(* A step that changes requests only, and never to a row that is not one. *)
LEMMA RequestsKeep ==
  ASSUME IInv, UNCHANGED <<workflows, orgOf>>,
         request' = [r \in Request |-> request'[r]],
         \A r \in Request :
            /\ request'[r] \in Row
            /\ request'[r].scope \in Org \union ExistingTeam
            /\ request'[r].uses \in exists \union {None}
            /\ request'[r].state = "FREE" => request'[r].scope \in Org
  PROVE  IInv'
  <1>1. request' \in [Request -> Row]
    OBVIOUS
  <1>2. TypeOK'
    BY <1>1 DEF IInv, TypeOK, ExistingTeam, workflows
  <1> QED
    BY <1>2 DEF IInv, FreeInOrg, ServedOnce, workflows

LEMMA ChangeStepsKeeps ==
  ASSUME IInv, NEW w \in Workflow, ChangeSteps(w)
  PROVE  IInv'
  <1>1. ASSUME NEW r \in Request
        PROVE  /\ request'[r] \in Row
               /\ request'[r].scope = request[r].scope /\ request'[r].state = request[r].state
               /\ request'[r].uses = request[r].uses
    <2>1. request[r] \in Row
      BY DEF IInv, TypeOK
    <2>2. request'[r] = IF request[r].uses = w THEN [request[r] EXCEPT !.old = TRUE] ELSE request[r]
      BY DEF ChangeSteps
    <2> QED
      BY <2>1, <2>2 DEF Row
  <1>2. request' = [r \in Request |-> request'[r]] /\ UNCHANGED <<workflows, orgOf>>
    BY DEF ChangeSteps
  <1>3. \A r \in Request :
            /\ request'[r].scope \in Org \union ExistingTeam
            /\ request'[r].uses \in exists \union {None}
            /\ request'[r].state = "FREE" => request'[r].scope \in Org
    BY <1>1 DEF IInv, TypeOK, FreeInOrg
  <1> QED
    BY <1>1, <1>2, <1>3, RequestsKeep

(* One request gets a new row. *)
LEMMA OneRequestKeeps ==
  ASSUME IInv, UNCHANGED <<workflows, orgOf>>, NEW r \in Request, NEW row \in Row,
         request' = [request EXCEPT ![r] = row],
         row.scope \in Org \union ExistingTeam, row.uses \in exists \union {None},
         row.state = "FREE" => row.scope \in Org
  PROVE  IInv'
  <1>1. request' = [q \in Request |-> request'[q]]
    BY DEF IInv, TypeOK
  <1>2. \A q \in Request : request'[q] = IF q = r THEN row ELSE request[q]
    BY DEF IInv, TypeOK
  <1>3. \A q \in Request :
            /\ request'[q] \in Row
            /\ request'[q].scope \in Org \union ExistingTeam
            /\ request'[q].uses \in exists \union {None}
            /\ request'[q].state = "FREE" => request'[q].scope \in Org
    BY <1>2 DEF IInv, TypeOK, FreeInOrg
  <1> QED
    BY <1>1, <1>3, RequestsKeep

LEMMA SubmitKeeps ==
  ASSUME IInv, NEW r \in Request, NEW s \in Scope, Submit(r, s)
  PROVE  IInv'
  <1> DEFINE moved == [request[r] EXCEPT !.scope = s]
  <1>1. PICK state \in {"SUBMITTED", "OTHER"} :
          request' = [request EXCEPT ![r] = SetupApprovalWorkflow(moved, state)]
    BY DEF Submit
  <1>2. moved \in Row /\ moved.scope = s
    BY DEF IInv, TypeOK, Row
  <1> HIDE DEF moved
  <1> DEFINE new == SetupApprovalWorkflow(moved, state)
  <1>3. new \in Row /\ new.scope = s /\ new.state # "FREE" /\ new.uses \in exists \union {None}
    <2>1. TypeOK
      BY DEF IInv
    <2> QED
      BY <1>2, <2>1, SetUp
  <1>4. request' = [request EXCEPT ![r] = new]
    BY <1>1
  <1> HIDE DEF new
  <1>5. s \in Org \union ExistingTeam /\ UNCHANGED <<workflows, orgOf>>
    BY DEF Submit
  <1> QED
    BY <1>3, <1>4, <1>5, OneRequestKeeps

LEMMA ReSubmitKeeps ==
  ASSUME IInv, NEW r \in Request, ReSubmit(r)
  PROVE  IInv'
  <1>1. PICK state \in {"SUBMITTED", "OTHER"} :
          request' = [request EXCEPT ![r] = SetupApprovalWorkflow(request[r], state)]
    BY DEF ReSubmit
  <1> DEFINE new == SetupApprovalWorkflow(request[r], state)
  <1>2. request[r] \in Row /\ request[r].scope \in Org \union ExistingTeam
    BY DEF IInv, TypeOK
  <1>3. /\ new \in Row /\ new.scope = request[r].scope /\ new.state # "FREE"
        /\ new.uses \in exists \union {None}
    <2>1. TypeOK
      BY DEF IInv
    <2> QED
      BY <1>2, <2>1, SetUp
  <1>4. request' = [request EXCEPT ![r] = new]
    BY <1>1
  <1> HIDE DEF new
  <1>5. UNCHANGED <<workflows, orgOf>>
    BY DEF ReSubmit
  <1> QED
    BY <1>2, <1>3, <1>4, <1>5, OneRequestKeeps

LEMMA LeaveKeeps ==
  ASSUME IInv, NEW r \in Request, Leave(r)
  PROVE  IInv'
  <1> DEFINE new == [request[r] EXCEPT !.state = "OTHER"]
  <1>1. /\ new \in Row /\ new.scope \in Org \union ExistingTeam /\ new.state = "OTHER"
        /\ new.uses \in exists \union {None}
    BY DEF IInv, TypeOK, Row
  <1>2. request' = [request EXCEPT ![r] = new] /\ UNCHANGED <<workflows, orgOf>>
    BY DEF Leave
  <1> HIDE DEF new
  <1> QED
    BY <1>1, <1>2, OneRequestKeeps

LEMMA EditInstanceKeeps ==
  ASSUME IInv, NEW r \in Request, NEW s \in Scope, EditInstance(r, s)
  PROVE  IInv'
  <1> DEFINE new == [request[r] EXCEPT !.scope = s]
  <1>1. /\ new \in Row /\ new.scope = s /\ new.state # "FREE"
        /\ new.uses \in exists \union {None}
    BY DEF IInv, TypeOK, Row, EditInstance
  <1>2. /\ request' = [request EXCEPT ![r] = new] /\ UNCHANGED <<workflows, orgOf>>
        /\ s \in Org \union ExistingTeam
    BY DEF EditInstance
  <1> HIDE DEF new
  <1> QED
    BY <1>1, <1>2, OneRequestKeeps

LEMMA ResetKeeps ==
  ASSUME IInv, NEW w \in Workflow, Reset(w)
  PROVE  IInv'
  <1>1. PICK accepted \in SUBSET RequestToReset(w) : request' = AfterReset(w, accepted)
    BY DEF Reset
  <1>2. ASSUME NEW r \in Request
        PROVE  /\ request'[r] \in Row
               /\ request'[r].scope \in Org \union ExistingTeam
               /\ request'[r].uses \in exists \union {None}
               /\ request'[r].state = "FREE" => request'[r].scope \in Org
    <2> DEFINE state == IF r \in accepted THEN "OTHER" ELSE "SUBMITTED"
               new == SetupApprovalWorkflow(request[r], state)
    <2>1. request[r] \in Row /\ request[r].scope \in Org \union ExistingTeam
      BY DEF IInv, TypeOK
    <2>2. /\ new \in Row /\ new.scope = request[r].scope /\ new.state # "FREE"
          /\ new.uses \in exists \union {None}
      <3>1. TypeOK /\ state \in {"SUBMITTED", "OTHER"}
        BY DEF IInv
      <3> HIDE DEF state
      <3> QED
        BY <2>1, <3>1, SetUp
    <2>3. request'[r] = IF r \notin RequestToReset(w) THEN request[r] ELSE new
      BY <1>1 DEF AfterReset
    <2> HIDE DEF new
    <2> QED
      BY <2>1, <2>2, <2>3 DEF IInv, TypeOK, FreeInOrg
  <1>3. request' = [r \in Request |-> request'[r]] /\ UNCHANGED <<workflows, orgOf>>
    BY <1>1 DEF Reset, AfterReset
  <1> QED
    BY <1>2, <1>3, RequestsKeep

LEMMA SaveTeamKeeps ==
  ASSUME IInv, NEW t \in Team, NEW o \in Org, SaveTeam(t, o)
  PROVE  IInv'
  <1>1. orgOf' = [orgOf EXCEPT ![t] = o] /\ UNCHANGED <<workflows, request>>
    BY DEF SaveTeam
  <1>2. orgOf' \in [Team -> Org \union {NoOrg}] /\ ExistingTeam \subseteq ExistingTeam'
    BY <1>1, Kinds DEF IInv, TypeOK, ExistingTeam
  <1>3. TypeOK'
    BY <1>1, <1>2 DEF IInv, TypeOK, workflows
  <1> QED
    BY <1>1, <1>3 DEF IInv, FreeInOrg, ServedOnce, workflows

LEMMA DeleteScopeKeeps ==
  ASSUME IInv, NEW s \in Scope, DeleteScope(s)
  PROVE  IInv'
  <1>1. /\ orgOf' = IF s \in Team THEN [orgOf EXCEPT ![s] = NoOrg] ELSE orgOf
        /\ scopes' = [w \in Workflow |-> scopes[w] \ {s}]
        /\ UNCHANGED <<exists, enabled, request>>
        /\ \A r \in Request : request[r].state # "FREE" => request[r].scope # s
    BY DEF DeleteScope
  <1>2. orgOf' \in [Team -> Org \union {NoOrg}] /\ ExistingTeam' = ExistingTeam \ {s}
    BY <1>1 DEF IInv, TypeOK, ExistingTeam
  <1>3. \A r \in Request : request[r].scope \in Org \union ExistingTeam'
    BY <1>1, <1>2, Kinds DEF IInv, TypeOK, FreeInOrg
  <1>4. /\ scopes' \in [Workflow -> SUBSET Scope]
        /\ \A w \in Workflow : scopes'[w] \subseteq Org \union ExistingTeam'
        /\ \A w \in Workflow \ exists : scopes'[w] = {}
    BY <1>1, <1>2 DEF IInv, TypeOK
  <1>5. TypeOK'
    BY <1>1, <1>2, <1>3, <1>4 DEF IInv, TypeOK
  <1>6. ServedOnce'
    BY <1>1 DEF IInv, TypeOK, ServedOnce
  <1> QED
    BY <1>1, <1>5, <1>6 DEF IInv, FreeInOrg

(* No form, reset, request or deletion gives a scope a second workflow. *)
THEOREM StepIInv == IInv /\ [Next]_vars => IInv'
  <1> SUFFICES ASSUME IInv, [Next]_vars PROVE IInv'
    OBVIOUS
  <1>1. CASE FormStep
    BY <1>1, SaveWorkflowKeeps DEF FormStep, CreateWorkflow, EditWorkflow
  <1>2. ASSUME NEW w \in Workflow, DeleteWorkflow(w) \/ ChangeSteps(w) \/ Reset(w) PROVE IInv'
    BY <1>2, DeleteWorkflowKeeps, ChangeStepsKeeps, ResetKeeps
  <1>3. ASSUME NEW r \in Request, NEW s \in Scope, Submit(r, s) \/ EditInstance(r, s) PROVE IInv'
    BY <1>3, SubmitKeeps, EditInstanceKeeps
  <1>4. ASSUME NEW r \in Request, ReSubmit(r) \/ Leave(r) PROVE IInv'
    BY <1>4, ReSubmitKeeps, LeaveKeeps
  <1>5. ASSUME NEW t \in Team, NEW o \in Org, SaveTeam(t, o) PROVE IInv'
    BY <1>5, SaveTeamKeeps
  <1>6. ASSUME NEW s \in Scope, DeleteScope(s) PROVE IInv'
    BY <1>6, DeleteScopeKeeps
  <1>7. CASE UNCHANGED vars
    BY <1>7 DEF vars, IInv, TypeOK, FreeInOrg, ServedOnce, ExistingTeam
  <1> QED
    BY <1>1, <1>2, <1>3, <1>4, <1>5, <1>6, <1>7 DEF Next

(* A scope is served by one workflow at most in every state. *)
THEOREM Invariant == Spec => []IInv
  BY InitIInv, StepIInv, PTL DEF Spec

-----------------------------------------------------------------------------
(* The variables keep their types, and rows refer to workflows and scopes that exist. *)
THEOREM TypeCorrect == Spec => []TypeOK
  <1>1. IInv => TypeOK
    BY DEF IInv
  <1> QED
    BY <1>1, Invariant, PTL

(* No scope has two workflows of one operation (approval_workflow_form.py:26). *)
THEOREM ScopesServedOnce == Spec => []ServedOnce
  <1>1. IInv => ServedOnce
    BY DEF IInv
  <1> QED
    BY <1>1, Invariant, PTL

(* The query of a request, of a reset and of the page of a scope make one choice
   (request.py:393, approval_workflow.py:67, scope.py:183). *)
THEOREM OneChoice == Spec => []ChoicesAgree
  BY Invariant, QueriesAgree, PTL

(* After a reset the requests that wait in the workflow are those that should, with its
   present steps (approval_workflow.py:97-110). *)
THEOREM ResetComplete == Spec => []ResetIsDone
  BY Invariant, ResetLeaves, PTL

(* No form makes a second workflow for all scopes (approval_workflow_form.py:17-30). *)
THEOREM SecondDefaultFromDeletion == Spec => DefaultsFromDeletion
  <1>1. IInv /\ [Next]_vars => [OneDefault /\ ~OneDefault' => ~FormStep]_vars
    <2> SUFFICES ASSUME IInv, OneDefault, NEW w \in Workflow, NEW on \in BOOLEAN,
                        NEW ss \in SUBSET (Org \union ExistingTeam), SaveWorkflow(w, ss, on)
                 PROVE  OneDefault'
      BY DEF FormStep, CreateWorkflow, EditWorkflow
    <2>1. \A v \in Default' : (v = w /\ ss = {}) \/ v \in Default
      BY DEF SaveWorkflow, Default, IInv, TypeOK
    <2>2. ss = {} => Default \ {w} = {}
      BY DEF SaveWorkflow, Unused
    <2>3. w \in Default' => ss = {}
      BY DEF SaveWorkflow, Default, IInv, TypeOK
    <2> QED
      BY <2>1, <2>2, <2>3 DEF OneDefault
  <1> QED
    BY <1>1, Invariant, PTL DEF Spec, DefaultsFromDeletion
=============================================================================
