----------------------------- MODULE ApprovalFlow -----------------------------
(***************************************************************************)
(* The steps of one approval workflow and the requests that go through     *)
(* them: service_catalog/models/approval_*.py and the parts of request.py, *)
(* views and API that touch a workflow.  RequestLifecycle keeps of all     *)
(* this whether a step waits; here is which one, in which order, and what  *)
(* becomes of it when administrators change the steps under requests on    *)
(* their way.                                                              *)
(*                                                                         *)
(* The operation has no automatic options, the workflow is the only one of *)
(* its operation and the instance stays out of it.                         *)
(***************************************************************************)
EXTENDS Naturals, FiniteSets, Functions, Transitions

CONSTANTS
    Request,
    MaxStep,     \* bound: steps created in a behaviour
    Conditional, \* the steps whose auto_accept_condition holds
    Reorders,    \* whether administrators move the steps under requests that wait
    None

Step == 1..MaxStep

ASSUME ConstantsAssumption ==
    /\ MaxStep \in Nat
    /\ Conditional \subseteq Step
    /\ Reorders \in BOOLEAN
    /\ None \notin Step

Verdict == {"PENDING", "APPROVED", "REJECTED"}

(* The rows of an instantiated workflow; a version says which steps are where. *)
ApprovalWorkflowState ==
    [version : BOOLEAN \X UNION {[S -> 0..MaxStep] : S \in SUBSET Step},
     current : Step \cup {None},
     verdict : UNION {[S -> Verdict] : S \in SUBSET Step}]

ASSUME NoneIsNoFlow == None \notin ApprovalWorkflowState

VARIABLES
    enabled,     \* ApprovalWorkflow.enabled
    lastStep,    \* the id of the step created last
    position,    \* ApprovalStep.position of the steps that exist
    request      \* Request.state, and the ApprovalWorkflowState of the request

workflow == <<enabled, lastStep, position>>
vars == <<workflow, request>>

(* ApprovalWorkflow.hash, as far as this model changes what goes into it. *)
Version == <<enabled, position>>

(* The steps an ApprovalWorkflowState has a state for. *)
StepsOf(flow) == DOMAIN flow.verdict

First(S) ==
    IF S = {} THEN None ELSE CHOOSE s \in S : \A t \in S : position[s] <= position[t]

(* ApprovalWorkflow.instantiate *)
Instantiated ==
    [version |-> Version,
     current |-> First({s \in DOMAIN position : position[s] = 0}),
     verdict |-> [s \in DOMAIN position |-> "PENDING"]]

(* Mutant: position > current + 1. *)
SkippingLater(flow) == {s \in StepsOf(flow) : position[s] > position[flow.current] + 1}

(* The candidates of ApprovalWorkflowState.get_next_step. *)
Later(flow) == {s \in StepsOf(flow) : position[s] >= position[flow.current] + 1}

(* ApprovalWorkflowState.approve_current_step, but for request.accept *)
Approved(flow) ==
    [flow EXCEPT !.current = First(Later(flow)),
                 !.verdict = [@ EXCEPT ![flow.current] = "APPROVED"]]

Waits(flow) == flow # None /\ flow.current # None

(* Mutant: a condition that holds ends the workflow. *)
AutoApprovedAtOnce(flow) ==
    IF ~Waits(flow) \/ flow.current \notin Conditional THEN flow
    ELSE [flow EXCEPT !.current = None, !.verdict[flow.current] = "APPROVED"]

(* Request.try_accept_current_step approves from the current step on up to the first
   one whose condition does not hold; its recursion in closed form. *)
AutoApproved(flow) ==
    IF ~Waits(flow) THEN flow
    ELSE LET ahead == {flow.current} \cup Later(flow)
             stop == First(ahead \ Conditional)
             passed == {s \in ahead : stop = None \/ position[s] < position[stop]}
         IN [flow EXCEPT !.current = stop,
                         !.verdict = [s \in StepsOf(flow) |->
                                         IF s \in passed THEN "APPROVED" ELSE @[s]]]

(* Mutant: accept() is not guarded by the state machine. *)
AcceptAnyIfDone(before, flow, s) == IF Waits(before) /\ ~Waits(flow) THEN "ACCEPTED" ELSE s

(* request.accept() when the last step was approved: it raises in a state it does not
   leave, and what was saved stays. *)
AcceptIfDone(before, flow, s) ==
    IF Waits(before) /\ ~Waits(flow) /\ s \in AcceptFrom THEN "ACCEPTED" ELSE s

(* What Request.save leaves after auto_accept_and_process_signal. *)
Saved(s, flow) ==
    [state |-> AcceptIfDone(flow, AutoApproved(flow), s), flow |-> AutoApproved(flow)]

Store(r, row) ==
    /\ request' = [request EXCEPT ![r] = row]
    /\ UNCHANGED workflow

StateOf(r) == request[r].state
FlowOf(r) == request[r].flow

(* Request.setup_approval_workflow of a SUBMITTED request. *)
SetUp == IF enabled THEN Saved("SUBMITTED", Instantiated)
                    ELSE [state |-> "SUBMITTED", flow |-> None]

-----------------------------------------------------------------------------
(* Requests. *)

Submit(r) ==
    /\ StateOf(r) = "FREE"
    /\ Store(r, SetUp)

(* RequestApproveView and ApproveCurrentStep.approve look at the step, not at the
   state of the request; approving saves the workflow state only, so that the
   condition of the next step is not evaluated. *)
ApproveStep(r) ==
    /\ Waits(FlowOf(r))
    /\ Store(r, [state |-> AcceptIfDone(FlowOf(r), Approved(FlowOf(r)), StateOf(r)),
                 flow |-> Approved(FlowOf(r))])

RejectedStep(flow) ==
    [flow EXCEPT !.verdict = [@ EXCEPT ![flow.current] = "REJECTED"]]

(* request_reject: reject_current_step raises if there is a flow without current step. *)
RejectUI(r) ==
    /\ StateOf(r) \in RejectFrom
    /\ FlowOf(r) = None \/ Waits(FlowOf(r))
    /\ Store(r, Saved("REJECTED",
                      IF FlowOf(r) = None THEN None ELSE RejectedStep(FlowOf(r))))

(* ApproveCurrentStep.reject: the step is saved before the state machine refuses. *)
RejectStepAPI(r) ==
    /\ Waits(FlowOf(r))
    /\ Store(r, IF StateOf(r) \in RejectFrom
                THEN Saved("REJECTED", RejectedStep(FlowOf(r)))
                ELSE [state |-> StateOf(r), flow |-> RejectedStep(FlowOf(r))])

(* RequestStateMachine.reject leaves the step alone. *)
RejectAPI(r) ==
    /\ StateOf(r) \in RejectFrom
    /\ Store(r, Saved("REJECTED", FlowOf(r)))

Hold(r) ==
    /\ StateOf(r) = "SUBMITTED"
    /\ Store(r, Saved("ON_HOLD", FlowOf(r)))

Cancel(r) ==
    /\ StateOf(r) \in CancelFrom
    /\ Store(r, Saved("CANCELED", FlowOf(r)))

(* request_accept refuses a request with a workflow that is not ACCEPTED yet. *)
AcceptUI(r) ==
    /\ StateOf(r) \in AcceptFrom
    /\ FlowOf(r) = None \/ StateOf(r) = "ACCEPTED"
    /\ Store(r, Saved("ACCEPTED", FlowOf(r)))

(* RequestStateMachine.accept does not look at the workflow. *)
AcceptAPI(r) ==
    /\ StateOf(r) \in AcceptFrom
    /\ Store(r, Saved("ACCEPTED", FlowOf(r)))

ReSubmitUI(r) ==
    /\ StateOf(r) = "SUBMITTED"
    /\ Store(r, SetUp)

(* RequestStateMachine.re_submit saves SUBMITTED over what the steps decided; without
   a workflow saving the deleted workflow state raises, which changes nothing. *)
ReSubmitAPI(r) ==
    /\ StateOf(r) = "SUBMITTED"
    /\ Store(r, [SetUp EXCEPT !.state = "SUBMITTED"])

(* What follows is RequestLifecycle's; here it shows which states a flow meets. *)
Process(r) ==
    /\ StateOf(r) \in ProcessFrom
    /\ Store(r, Saved("PROCESSING", FlowOf(r)))

End(r, outcome) ==
    /\ StateOf(r) = "PROCESSING"
    /\ Store(r, Saved(outcome, FlowOf(r)))

-----------------------------------------------------------------------------
(* The workflow. *)

(* ApprovalStep.on_create_set_position *)
CreateStep ==
    LET new == lastStep + 1
        after == IF DOMAIN position = {} THEN 0
                 ELSE (CHOOSE p \in Range(position) :
                          \A q \in Range(position) : q <= p) + 1
    IN /\ lastStep < MaxStep
       /\ lastStep' = new
       /\ position' = [s \in DOMAIN position \cup {new} |->
                          IF s = new THEN after ELSE position[s]]
       /\ UNCHANGED <<enabled, request>>

(* The state of the step goes with it, and with the state of the current step the whole
   workflow state (ApprovalWorkflowState.current_step is CASCADE). *)
WithoutStep(flow, s) ==
    IF flow = None \/ (Waits(flow) /\ flow.current = s) THEN None
    ELSE [flow EXCEPT !.verdict = Restrict(@, StepsOf(flow) \ {s})]

DeleteStep(s) ==
    /\ s \in DOMAIN position
    /\ position' = Restrict(position, DOMAIN position \ {s})
    /\ request' = [r \in Request |-> [request[r] EXCEPT !.flow = WithoutStep(@, s)]]
    /\ UNCHANGED <<enabled, lastStep>>

(* ApprovalWorkflowUpdateStepsPosition, ajax_approval_step_position_update *)
Reorder ==
    /\ Reorders \/ \A r \in Request : ~Waits(FlowOf(r))
    /\ \E p \in [DOMAIN position -> 0..(Cardinality(DOMAIN position) - 1)] :
          /\ IsInjective(p)
          /\ position' = p
    /\ UNCHANGED <<enabled, lastStep, request>>

Enable ==
    /\ enabled' = ~enabled
    /\ UNCHANGED <<lastStep, position, request>>

DeleteWorkflow ==
    /\ DOMAIN position # {}
    /\ enabled' = FALSE
    /\ position' = Restrict(position, {})
    /\ request' = [r \in Request |-> [request[r] EXCEPT !.flow = None]]
    /\ UNCHANGED lastStep

(* Mutant: only requests that already use the workflow are reset. *)
ToResetUsing ==
    {r \in Request : /\ StateOf(r) = "SUBMITTED"
                     /\ FlowOf(r) # None
                     /\ ~enabled \/ FlowOf(r).version # Version}

(* ApprovalWorkflow._get_request_to_reset *)
ToReset ==
    {r \in Request : /\ StateOf(r) = "SUBMITTED"
                     /\ IF FlowOf(r) = None THEN enabled
                        ELSE ~enabled \/ FlowOf(r).version # Version}

(* ApprovalWorkflow.reset_all_approval_workflow_state *)
ResetAll ==
    /\ ToReset # {}
    /\ request' = [r \in Request |-> IF r \in ToReset THEN SetUp ELSE request[r]]
    /\ UNCHANGED workflow

Init ==
    /\ enabled = FALSE
    /\ lastStep = 0
    /\ position = [s \in {} |-> 0]
    /\ request = [r \in Request |-> [state |-> "FREE", flow |-> None]]

Review(r) ==
    \/ ApproveStep(r)
    \/ RejectUI(r) \/ RejectStepAPI(r) \/ RejectAPI(r)
    \/ Hold(r)
    \/ Cancel(r)
    \/ AcceptUI(r) \/ AcceptAPI(r)
    \/ ReSubmitUI(r) \/ ReSubmitAPI(r)

Administration ==
    \/ CreateStep
    \/ \E s \in Step : DeleteStep(s)
    \/ Reorder
    \/ Enable
    \/ DeleteWorkflow
    \/ ResetAll

Next ==
    \/ \E r \in Request :
          \/ Submit(r)
          \/ Review(r)
          \/ Process(r)
          \/ \E outcome \in {"COMPLETE", "FAILED"} : End(r, outcome)
    \/ Administration

Spec == Init /\ [][Next]_vars

-----------------------------------------------------------------------------
(* Every row has its type; a workflow state speaks of existing steps only, and its
   current step is one of them (the cascades of ApprovalStep and ApprovalStepState). *)
TypeOK ==
    /\ enabled \in BOOLEAN
    /\ lastStep \in 0..MaxStep
    /\ DOMAIN position \subseteq 1..lastStep
    /\ position \in [DOMAIN position -> Nat]
    /\ request = [r \in Request |-> [state |-> StateOf(r), flow |-> FlowOf(r)]]
    /\ \A r \in Request : StateOf(r) \in RequestState \cup {"FREE"}
    /\ \A r \in Request : FlowOf(r) # None =>
          /\ StepsOf(FlowOf(r)) \subseteq DOMAIN position
          /\ FlowOf(r).verdict \in [StepsOf(FlowOf(r)) -> Verdict]
          /\ FlowOf(r).current \in StepsOf(FlowOf(r)) \cup {None}

(* The steps before the current one are approved, the current one and those after it
   are not, however approvals, conditions, new steps, deleted steps and resets mixed:
   no step is asked twice and none is passed over (get_next_step,
   try_accept_current_step), as long as nobody moves the steps
   while it waits. *)
InOrder ==
    \A r \in Request : Waits(FlowOf(r)) =>
        \A s \in StepsOf(FlowOf(r)) :
            FlowOf(r).verdict[s] = "APPROVED" <=> position[s] < position[FlowOf(r).current]

(* A request that its workflow accepts was approved at every step: "each step need to be
   accepted in order to validate the request" (docs/manual/administration/
   approval_workflow.md).  Broken when steps are moved under a waiting request. *)
AcceptedStepByStep ==
    [][\A r \in Request :
          /\ StateOf(r) # "ACCEPTED"
          /\ Waits(FlowOf(r))
          /\ request'[r].state = "ACCEPTED"
          /\ request'[r].flow # None
          /\ ~Waits(request'[r].flow)
          => \A s \in DOMAIN request'[r].flow.verdict : request'[r].flow.verdict[s] = "APPROVED"]_vars

(* Approving a step, by hand or by its condition, never accepts a request that was
   refused or is done: the views look at the step only, and what protects the request
   is that accept() raises. *)
SettledStaysSettled ==
    [][\A r \in Request :
          StateOf(r) \in {"CANCELED", "REJECTED", "COMPLETE"} => request'[r].state # "ACCEPTED"]_vars

(* "Reset to submitted" leaves every waiting request on the steps the workflow has now,
   whether it joined before the workflow was enabled, before its steps changed, or uses
   a workflow that was disabled since (_get_request_to_reset). *)
ResetBringsUpToDate ==
    [][ResetAll =>
          \A r \in Request : request'[r].state = "SUBMITTED" =>
              IF enabled THEN request'[r].flow # None /\ request'[r].flow.version = Version
                         ELSE request'[r].flow = None]_vars
=============================================================================
