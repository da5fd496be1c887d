--------------------------- MODULE RequestLifecycle ---------------------------
(***************************************************************************)
(* The life of a request and of the instance it is about                   *)
(* (service_catalog/models/request.py, instance.py, the views and API      *)
(* views that drive them, the Celery task that polls RHAAP/AWX and the     *)
(* beat scheduler).  A handler runs here without interference: one action  *)
(* is one HTTP request, one task execution or one restart, with every save *)
(* and every post_save signal it triggers.  HandlerInterleaving.tla cuts   *)
(* the same handlers at their commits.                                     *)
(*                                                                         *)
(* The tables are functions over row identifiers.  A request that was      *)
(* never created is "FREE", a deleted one is "GONE": rows are not reused.  *)
(***************************************************************************)
EXTENDS Naturals, FiniteSets, Transitions

CONSTANTS
    Request, Instance, Operation,  \* primary keys of the three tables
    OpType,        \* Operation.type
    AutoAccept,    \* operations with Operation.auto_accept
    AutoProcess,   \* operations with Operation.auto_process
    Workflow,      \* operations for which an ApprovalWorkflow exists
    AutoStep,      \* of those, the ones whose steps all have an auto accept condition
    AutoChain,     \* of those, the ones with more than one step
    Orphaned,      \* operations whose job template was deleted (SET_NULL) at some time
    None,          \* the null foreign key
    MaxJob,        \* bound: jobs launched on RHAAP/AWX in a behaviour
    MaxMsg         \* bound: check messages of one request waiting in the broker

ASSUME ConstantsAssumption ==
    /\ OpType \in [Operation -> Type]
    /\ AutoAccept \subseteq Operation
    /\ AutoProcess \subseteq Operation
    /\ Workflow \subseteq Operation
    /\ AutoStep \subseteq Workflow
    /\ AutoChain \subseteq AutoStep
    /\ Orphaned \subseteq Operation \ AutoAccept  \* a bound: see the README
    /\ None \notin Operation \cup Instance \cup Request
    /\ MaxJob \in Nat
    /\ MaxMsg \in Nat

VARIABLES
    reqState,    \* Request.state, "FREE" or "GONE"
    operation,   \* Request.operation
    target,      \* Request.instance
    approval,    \* Request.approval_workflow_state: no workflow, a current step, none left
    towerJobId,  \* Request.tower_job_id, 0 for null
    expired,     \* Request.periodic_task_date_expire is in the past
    instState,   \* Instance.state, "FREE" when there is no row
    task,        \* the PeriodicTask "job_status_check_request_<id>" exists
    queue,       \* check_tower_job_status_task messages of the request in the broker
    lastJob,     \* jobs RHAAP/AWX has launched so far
    jobStatus,   \* RHAAP/AWX: status of each job
    jobOwner     \* RHAAP/AWX: the request in the "squest" extra variable of the job

requestVars == <<reqState, operation, target, approval, towerJobId, expired>>
jobVars == <<lastJob, jobStatus, jobOwner>>
vars == <<requestVars, instState, task, queue, jobVars>>

ApprovalState == {"none", "waiting", "approved"}
JobStatus == {"none", "running", "successful", "failed", "canceled"}
Job == 1..MaxJob

Exists(r) == reqState[r] \in RequestState
TypeOf(r) == OpType[operation[r]]
InstOf(r) == instState[target[r]]

-----------------------------------------------------------------------------
(***************************************************************************)
(* What a handler leaves behind is a row: the state and approval of the    *)
(* request, the state of its instance, and whether a job was launched.     *)
(* A launch has more than one outcome, so the routines of  *)
(* request.py map a row to a set of rows.                                  *)
(***************************************************************************)
Row(s, a, i) == [state |-> s, approval |-> a, inst |-> i, started |-> FALSE]

(* process() followed by perform_processing(): the job starts, or the launch
   raises or returns no id and has_failed() runs, or there is no job template to
   take the extra variables from, and the exception comes after process() saved
   the instance and before anything saved the new state of the request. *)
Processed(o, row) ==
    {[row EXCEPT !.state = "PROCESSING", !.inst = Busy[OpType[o]], !.started = TRUE],
     [row EXCEPT !.state = "FAILED", !.inst = FailedState[OpType[o]]]}
    \cup {[row EXCEPT !.inst = Busy[OpType[p]]] : p \in Orphaned \cap {o}}

(* accept() and the post_save signal of its save: with auto_process the signal
   processes the request at once.  When the instance may be processed but not by
   this type of operation the signal raises, after the row was written. *)
Accepted(o, row) ==
    LET accepted == [row EXCEPT !.state = "ACCEPTED"] IN
    IF o \in AutoProcess /\ row.inst \in StartFrom[OpType[o]]
    THEN Processed(o, accepted)
    ELSE {accepted}

(* Steps whose auto accept condition holds are approved by the post_save signal.
   The last one calls accept(), whose own save runs the signal once more, nested;
   when accept() returns, django-fsm sets the object to ACCEPTED again and the
   outer signal carries on with that object.  It saves it when the only step was
   approved; after a chain of steps try_accept_current_step() returns False and the
   object is saved only if a second launch is attempted.  An exception in the nested
   signal leaves the row that the outer one would have written. *)
AutoStepAccepted(o, row) ==
    UNION {IF nested.started /\ o \in AutoChain THEN {nested} ELSE Accepted(o, nested) :
              nested \in Accepted(o, [row EXCEPT !.approval = "approved"])}

(* With auto_process the signal of an accepted request raises when the instance may
   be processed, but not by this type of operation. *)
Raises(o, row) == o \in AutoProcess /\ row.inst \in CanProcess \ StartFrom[OpType[o]]

(* The signal of the save of a SUBMITTED row.  It accepts the object it holds, and
   saves it only at its end: when it raises the row stays as it was written. *)
AutoAccepted(o, row) ==
    IF o \in AutoAccept /\ ~Raises(o, row) THEN Accepted(o, row) ELSE {row}

(* setup_approval_workflow() and the signals of its save. *)
WithoutWorkflow(o, row) == AutoAccepted(o, [row EXCEPT !.approval = "none"])
WithManualStep(o, row) == AutoAccepted(o, [row EXCEPT !.approval = "waiting"])

WithWorkflow(o, row) ==
    (IF o \in Workflow THEN WithManualStep(o, row) ELSE {})
        \cup (IF o \in AutoStep THEN AutoStepAccepted(o, row) ELSE {})

(* The workflow that applies is read when the request is created or submitted
   again: an administrator may have enabled or disabled it since. *)
Submitted(o, row) == WithoutWorkflow(o, row) \cup WithWorkflow(o, row)

(* RequestReSubmitView calls re_submit(save=False): without a workflow nothing is
   saved, and no signal comes. *)
ReSubmittedByUi(o, row) == {[row EXCEPT !.approval = "none"]} \cup WithWorkflow(o, row)

(* The handler that made w of row was cut short by a missing job template. *)
CutShort(row, w) == ~w.started /\ w.inst \in BusyState /\ w.inst # row.inst

(* RequestStateMachine.re_submit saves the object once more after re_submit()
   returned, when django-fsm has set it to SUBMITTED, unless the signal raised; that
   save has its own signal. *)
SavedAgain(o, row, w) ==
    IF Raises(o, row) \/ CutShort(row, w)
    THEN {w}
    ELSE AutoAccepted(o, [w EXCEPT !.state = "SUBMITTED"])

ReSubmittedByApi(o, row) == UNION {SavedAgain(o, row, w) : w \in Submitted(o, row)}

-----------------------------------------------------------------------------
(* The RHAAP/AWX side of a launch, then setup_periodic_check_task().  The name of
   the periodic task is unique: when the row is still there the creation raises
   and neither the job id nor the expiry date is saved. *)
LaunchJob(r) ==
    /\ lastJob < MaxJob
    /\ lastJob' = lastJob + 1
    /\ jobStatus' = [jobStatus EXCEPT ![lastJob + 1] = "running"]
    /\ jobOwner' = [jobOwner EXCEPT ![lastJob + 1] = r]
    /\ IF task[r]
       THEN UNCHANGED <<towerJobId, expired, task>>
       ELSE /\ towerJobId' = [towerJobId EXCEPT ![r] = lastJob + 1]
            /\ expired' = [expired EXCEPT ![r] = FALSE]
            /\ task' = [task EXCEPT ![r] = TRUE]

(* The state in the database when that exception cut the handler short. *)
StoredState(r, row) == IF row.started /\ task[r] THEN "PROCESSING" ELSE row.state

Store(r, i, row) ==
    /\ reqState' = [reqState EXCEPT ![r] = StoredState(r, row)]
    /\ approval' = [approval EXCEPT ![r] = row.approval]
    /\ instState' = [instState EXCEPT ![i] = row.inst]
    /\ IF row.started THEN LaunchJob(r)
                      ELSE UNCHANGED <<towerJobId, expired, task, jobVars>>
    /\ UNCHANGED queue

CurrentRow(r) == Row(reqState[r], approval[r], InstOf(r))

StoreOwn(r, rows) ==
    /\ \E row \in rows : Store(r, target[r], row)
    /\ UNCHANGED <<operation, target>>

-----------------------------------------------------------------------------
(* Requests are made.                                                       *)

CreateRequest(r, i, o, s) ==
    /\ reqState[r] = "FREE"
    /\ operation' = [operation EXCEPT ![r] = o]
    /\ target' = [target EXCEPT ![r] = i]
    /\ \E row \in Submitted(o, Row("SUBMITTED", "none", s)) : Store(r, i, row)

(* The service request wizard and ServiceRequestSerializer.save *)
RequestService(r, i, o) ==
    /\ instState[i] = "FREE"
    /\ OpType[o] = "CREATE"
    /\ CreateRequest(r, i, o, "PENDING")

(* Instance.has_pending_delete_request *)
HasPendingDeleteRequest(i) ==
    \E r \in Request : /\ Exists(r)
                       /\ target[r] = i
                       /\ TypeOf(r) = "DELETE"
                       /\ reqState[r] \in {"SUBMITTED", "ACCEPTED"}

(* instance_request_new_operation checks for a pending deletion, the API does not. *)
RequestOperation(r, i, o) ==
    /\ instState[i] = "AVAILABLE"
    /\ OpType[o] \in {"UPDATE", "DELETE"}
    /\ CreateRequest(r, i, o, "AVAILABLE")

RequestOperationUI(r, i, o) == ~HasPendingDeleteRequest(i) /\ RequestOperation(r, i, o)
RequestOperationAPI(r, i, o) == RequestOperation(r, i, o)

-----------------------------------------------------------------------------
(* Requests are reviewed.                                                   *)

HoldRequest(r) ==
    /\ reqState[r] = "SUBMITTED"
    /\ reqState' = [reqState EXCEPT ![r] = "ON_HOLD"]
    /\ UNCHANGED <<operation, target, approval, towerJobId, expired, instState, task, queue, jobVars>>

ReSubmitUI(r) ==
    /\ reqState[r] = "SUBMITTED"
    /\ StoreOwn(r, ReSubmittedByUi(operation[r], CurrentRow(r)))

ReSubmitAPI(r) ==
    /\ reqState[r] = "SUBMITTED"
    /\ StoreOwn(r, ReSubmittedByApi(operation[r], CurrentRow(r)))

CancelRequest(r) ==
    /\ reqState[r] \in CancelFrom
    /\ StoreOwn(r, {Row("CANCELED", approval[r], AbortPending(InstOf(r)))})

RejectRequest(r) ==
    /\ reqState[r] \in RejectFrom
    /\ StoreOwn(r, {Row("REJECTED", approval[r], AbortPending(InstOf(r)))})

(* AcceptRequestForm.save or AcceptRequestSerializer.save, then accept().  The
   form saves the request before it resets the instance: with auto_process that
   save already tries to process an ACCEPTED request, and raises when the
   operation cannot start from the state of the instance; when it can, the two
   attempts have together the outcomes of the second one. *)
AcceptRequest(r) ==
    LET o == operation[r]
        reset == Row("ACCEPTED", approval[r], LastStable(InstOf(r)))
    IN /\ reqState[r] \in AcceptFrom
       /\ ~ (reqState[r] = "ACCEPTED" /\ Raises(o, CurrentRow(r)))
       /\ StoreOwn(r, Accepted(o, reset))

(* request_accept refuses a request whose workflow has not accepted it. *)
AcceptUI(r) ==
    /\ approval[r] = "none" \/ reqState[r] = "ACCEPTED"
    /\ AcceptRequest(r)

AcceptAPI(r) == AcceptRequest(r)

(* Mutant: the state is assigned instead of calling the guarded accept(). *)
ApproveWithoutGuard(r) ==
    /\ Exists(r)
    /\ approval[r] = "waiting"
    /\ StoreOwn(r, Accepted(operation[r], [CurrentRow(r) EXCEPT !.approval = "approved"]))

(* approve_current_step on the last step: the step is APPROVED whatever the state
   of the request, then accept() is called, which django-fsm may refuse. *)
ApproveLastStep(r) ==
    LET approved == [CurrentRow(r) EXCEPT !.approval = "approved"]
    IN /\ Exists(r)
       /\ approval[r] = "waiting"
       /\ StoreOwn(r, IF reqState[r] \in AcceptFrom THEN Accepted(operation[r], approved)
                                                    ELSE {approved})

-----------------------------------------------------------------------------
(* Requests are processed.                                                  *)

(* try_process_request *)
ProcessRequest(r) ==
    /\ reqState[r] \in ProcessFrom
    /\ InstOf(r) \in CanProcess
    /\ InstOf(r) \in StartFrom[TypeOf(r)]
    /\ StoreOwn(r, Processed(operation[r], CurrentRow(r)))

(* RHAAP/AWX ends a job. *)
JobEnds(j) ==
    /\ jobStatus[j] = "running"
    /\ \E status \in {"successful", "failed", "canceled"} :
           jobStatus' = [jobStatus EXCEPT ![j] = status]
    /\ UNCHANGED <<requestVars, instState, task, queue, lastJob, jobOwner>>

(* periodic_task_date_expire passes. *)
TimePasses(r) ==
    /\ Exists(r)
    /\ task[r]
    /\ ~expired[r]
    /\ expired' = [expired EXCEPT ![r] = TRUE]
    /\ UNCHANGED <<reqState, operation, target, approval, towerJobId, instState, task, queue, jobVars>>

(* Celery beat puts a check message in the broker every ten seconds, whether or
   not the previous one was executed. *)
BeatTick(r) ==
    /\ task[r]
    /\ queue[r] < MaxMsg
    /\ queue' = [queue EXCEPT ![r] = @ + 1]
    /\ UNCHANGED <<requestVars, instState, task, jobVars>>

(* Mutant: a message that is not there is taken. *)
TakeAnyMessage(r) == queue' = [queue EXCEPT ![r] = @ - 1]

TakeMessage(r) ==
    /\ queue[r] > 0
    /\ queue' = [queue EXCEPT ![r] = @ - 1]

(* Request.periodic_task: the foreign key is SET_NULL when the task is deleted. *)
DeletePeriodicTask(r) == task' = [task EXCEPT ![r] = FALSE]

(* check_tower_job_status_task leaves the tables as they are: the row is gone,
   there is no job id, the job runs, or an exception came before the first
   write (complete() and has_failed() refused, no periodic task to delete, no job
   template to find the server of the job with). *)
CheckChangesNothing(r) ==
    \/ ~Exists(r)
    \/ towerJobId[r] = 0
    \/ expired[r] /\ ~task[r]
    \/ /\ ~expired[r]
       /\ \/ operation[r] \in Orphaned
          \/ jobStatus[towerJobId[r]] = "running"
          \/ reqState[r] # "PROCESSING"
          \/ /\ jobStatus[towerJobId[r]] \in {"failed", "canceled"}
             /\ InstOf(r) # Busy[TypeOf(r)]

CheckIgnored(r) ==
    /\ TakeMessage(r)
    /\ CheckChangesNothing(r)
    /\ UNCHANGED <<requestVars, instState, task, jobVars>>

(* Mutant: the expiry branch forgets to delete the task. *)
CheckExpiredKeepsTask(r) ==
    /\ TakeMessage(r)
    /\ Exists(r)
    /\ towerJobId[r] # 0
    /\ expired[r]
    /\ task[r]
    /\ UNCHANGED <<requestVars, instState, task, jobVars>>

(* The expiry branch of check_job_status: the task is deleted and has_failed()
   saves the instance; the save of the request then raises, since the deleted
   PeriodicTask is still the cached value of its foreign key. *)
CheckExpired(r) ==
    /\ TakeMessage(r)
    /\ Exists(r)
    /\ towerJobId[r] # 0
    /\ expired[r]
    /\ task[r]
    /\ DeletePeriodicTask(r)
    /\ instState' = IF reqState[r] = "PROCESSING" /\ InstOf(r) = Busy[TypeOf(r)]
                    THEN [instState EXCEPT ![target[r]] = FailedState[TypeOf(r)]]
                    ELSE instState
    /\ UNCHANGED <<requestVars, jobVars>>

(* Mutant: every job that has not failed counts as successful. *)
CheckUnfailed(r) ==
    /\ TakeMessage(r)
    /\ reqState[r] = "PROCESSING"
    /\ towerJobId[r] # 0
    /\ ~expired[r]
    /\ jobStatus[towerJobId[r]] \notin {"failed", "canceled"}
    /\ reqState' = [reqState EXCEPT ![r] = "COMPLETE"]
    /\ DeletePeriodicTask(r)
    /\ instState' = IF task[r] /\ InstOf(r) \in SuccessFrom[TypeOf(r)]
                    THEN [instState EXCEPT ![target[r]] = SuccessState[TypeOf(r)]]
                    ELSE instState
    /\ UNCHANGED <<operation, target, approval, towerJobId, expired, jobVars>>

(* complete(), save, the task is deleted, then the instance moves unless its
   transition is refused. *)
CheckSuccessful(r) ==
    /\ TakeMessage(r)
    /\ reqState[r] = "PROCESSING"
    /\ towerJobId[r] # 0
    /\ ~expired[r]
    /\ jobStatus[towerJobId[r]] = "successful"
    /\ reqState' = [reqState EXCEPT ![r] = "COMPLETE"]
    /\ DeletePeriodicTask(r)
    /\ instState' = IF task[r] /\ InstOf(r) \in SuccessFrom[TypeOf(r)]
                    THEN [instState EXCEPT ![target[r]] = SuccessState[TypeOf(r)]]
                    ELSE instState
    /\ UNCHANGED <<operation, target, approval, towerJobId, expired, jobVars>>

(* Mutant: has_failed() does not save the instance. *)
CheckFailedKeepsInstance(r) ==
    /\ TakeMessage(r)
    /\ reqState[r] = "PROCESSING"
    /\ towerJobId[r] # 0
    /\ ~expired[r]
    /\ jobStatus[towerJobId[r]] \in {"failed", "canceled"}
    /\ InstOf(r) = Busy[TypeOf(r)]
    /\ reqState' = [reqState EXCEPT ![r] = "FAILED"]
    /\ DeletePeriodicTask(r)
    /\ UNCHANGED <<operation, target, approval, towerJobId, expired, instState, jobVars>>

(* has_failed(), save, the task is deleted. *)
CheckFailed(r) ==
    /\ TakeMessage(r)
    /\ reqState[r] = "PROCESSING"
    /\ towerJobId[r] # 0
    /\ ~expired[r]
    /\ jobStatus[towerJobId[r]] \in {"failed", "canceled"}
    /\ InstOf(r) = Busy[TypeOf(r)]
    /\ reqState' = [reqState EXCEPT ![r] = "FAILED"]
    /\ instState' = [instState EXCEPT ![target[r]] = FailedState[TypeOf(r)]]
    /\ DeletePeriodicTask(r)
    /\ UNCHANGED <<operation, target, approval, towerJobId, expired, jobVars>>

(* Mutant: the scheduler deletes the tasks and schedules nothing. *)
BeatRestartForgets ==
    /\ task' = [r \in Request |-> FALSE]
    /\ UNCHANGED <<requestVars, instState, queue, jobVars>>

(* DatabaseSchedulerWithCleanup.setup_schedule: every check task is deleted, then
   one is created for each PROCESSING request. *)
BeatRestart ==
    LET processing == {r \in Request : reqState[r] = "PROCESSING"}
    IN /\ task' = [r \in Request |-> r \in processing]
       /\ expired' = [r \in Request |-> expired[r] /\ r \notin processing]
       /\ UNCHANGED <<reqState, operation, target, approval, towerJobId, instState, queue, jobVars>>

-----------------------------------------------------------------------------
(* Requests and instances are put away.                                     *)

ArchiveRequest(r) ==
    /\ reqState[r] = "COMPLETE"
    /\ reqState' = [reqState EXCEPT ![r] = "ARCHIVED"]
    /\ UNCHANGED <<operation, target, approval, towerJobId, expired, instState, task, queue, jobVars>>

UnarchiveRequest(r) ==
    /\ reqState[r] = "ARCHIVED"
    /\ reqState' = [reqState EXCEPT ![r] = "COMPLETE"]
    /\ UNCHANGED <<operation, target, approval, towerJobId, expired, instState, task, queue, jobVars>>

ArchiveInstance(i) ==
    /\ instState[i] = "DELETED"
    /\ instState' = [instState EXCEPT ![i] = "ARCHIVED"]
    /\ UNCHANGED <<requestVars, task, queue, jobVars>>

UnarchiveInstance(i) ==
    /\ instState[i] = "ARCHIVED"
    /\ instState' = [instState EXCEPT ![i] = "DELETED"]
    /\ UNCHANGED <<requestVars, task, queue, jobVars>>

(* Request.delete: the periodic task goes with the row, the instance stays. *)
DeleteRequest(r) ==
    /\ Exists(r)
    /\ reqState' = [reqState EXCEPT ![r] = "GONE"]
    /\ DeletePeriodicTask(r)
    /\ UNCHANGED <<operation, target, approval, towerJobId, expired, instState, queue, jobVars>>

(* request_bulk_delete deletes a queryset: Request.delete is not called. *)
BulkDeleteRequests(R) ==
    /\ \A r \in R : Exists(r)
    /\ reqState' = [r \in Request |-> IF r \in R THEN "GONE" ELSE reqState[r]]
    /\ UNCHANGED <<operation, target, approval, towerJobId, expired, instState, task, queue, jobVars>>

(* The deletion of an instance cascades to its requests; neither does that call
   Request.delete. *)
DeleteInstance(i) ==
    /\ instState[i] \in InstanceState
    /\ instState' = [instState EXCEPT ![i] = "GONE"]
    /\ reqState' = [r \in Request |-> IF Exists(r) /\ target[r] = i THEN "GONE" ELSE reqState[r]]
    /\ UNCHANGED <<operation, target, approval, towerJobId, expired, task, queue, jobVars>>

-----------------------------------------------------------------------------
Init ==
    /\ reqState = [r \in Request |-> "FREE"]
    /\ operation = [r \in Request |-> None]
    /\ target = [r \in Request |-> None]
    /\ approval = [r \in Request |-> "none"]
    /\ towerJobId = [r \in Request |-> 0]
    /\ expired = [r \in Request |-> FALSE]
    /\ instState = [i \in Instance |-> "FREE"]
    /\ task = [r \in Request |-> FALSE]
    /\ queue = [r \in Request |-> 0]
    /\ lastJob = 0
    /\ jobStatus = [j \in Job |-> "none"]
    /\ jobOwner = [j \in Job |-> None]

Creation(r) ==
    \E i \in Instance, o \in Operation :
        \/ RequestService(r, i, o)
        \/ RequestOperationUI(r, i, o)
        \/ RequestOperationAPI(r, i, o)

Review(r) ==
    \/ HoldRequest(r)
    \/ ReSubmitUI(r)
    \/ ReSubmitAPI(r)
    \/ CancelRequest(r)
    \/ RejectRequest(r)
    \/ AcceptUI(r)
    \/ AcceptAPI(r)
    \/ ApproveLastStep(r)

Check(r) ==
    \/ CheckIgnored(r)
    \/ CheckExpired(r)
    \/ CheckSuccessful(r)
    \/ CheckFailed(r)

RequestStep(r) ==
    \/ Creation(r)
    \/ Review(r)
    \/ ProcessRequest(r)
    \/ TimePasses(r)
    \/ BeatTick(r)
    \/ Check(r)
    \/ ArchiveRequest(r)
    \/ UnarchiveRequest(r)

(* The administrator deletes rows. *)
Deletion ==
    \/ \E r \in Request : DeleteRequest(r)
    \/ \E R \in SUBSET Request \ {{}} : BulkDeleteRequests(R)
    \/ \E i \in Instance : DeleteInstance(i)

Next ==
    \/ \E r \in Request : RequestStep(r)
    \/ \E i \in Instance : ArchiveInstance(i) \/ UnarchiveInstance(i)
    \/ \E j \in Job : JobEnds(j)
    \/ BeatRestart
    \/ Deletion

Spec == Init /\ [][Next]_vars

(* The scheduler, the worker, RHAAP/AWX and the clock keep going, and the scheduler
   is not restarted for ever, which would renew the expiry dates for ever; users and
   administrators owe nothing. *)
Fairness ==
    /\ \A r \in Request : /\ WF_vars(BeatTick(r))
                          /\ WF_vars(TimePasses(r))
                          /\ WF_vars(Check(r))
    /\ \A j \in Job : WF_vars(JobEnds(j))
    /\ <>[][~BeatRestart]_vars

FairSpec == Spec /\ Fairness

-----------------------------------------------------------------------------
(* Every column holds a value of its type, and a request that was created has an
   operation and an instance (Request and Instance field declarations). *)
TypeOK ==
    /\ reqState \in [Request -> RequestState \cup {"FREE", "GONE"}]
    /\ operation \in [Request -> Operation \cup {None}]
    /\ target \in [Request -> Instance \cup {None}]
    /\ \A r \in Request : reqState[r] # "FREE" => operation[r] # None /\ target[r] # None
    /\ approval \in [Request -> ApprovalState]
    /\ towerJobId \in [Request -> 0..MaxJob]
    /\ expired \in [Request -> BOOLEAN]
    /\ instState \in [Instance -> InstanceState \cup {"FREE", "GONE"}]
    /\ task \in [Request -> BOOLEAN]
    /\ queue \in [Request -> 0..MaxMsg]
    /\ lastJob \in 0..MaxJob
    /\ jobStatus \in [Job -> JobStatus]
    /\ jobOwner \in [Job -> Request \cup {None}]

(* A job that runs on RHAAP/AWX belongs to a request that is PROCESSING and holds
   its id, so that its result will be noticed: no request has two running jobs and
   none is forgotten while its request exists (process, perform_processing and the
   retry of a FAILED request, against check_job_status). *)
RunningJobIsTracked ==
    \A j \in Job : jobStatus[j] = "running" =>
        LET r == jobOwner[j]
        IN reqState[r] = "GONE" \/ (reqState[r] = "PROCESSING" /\ towerJobId[r] = j)

(* A request is COMPLETE or ARCHIVED only on the strength of its last job, which
   was successful: no late message, retry or restart completes it with the result
   of another job (check_job_status, archive, unarchive). *)
CompleteMeansSuccess ==
    \A r \in Request : reqState[r] \in {"COMPLETE", "ARCHIVED"} =>
        /\ towerJobId[r] # 0
        /\ jobStatus[towerJobId[r]] = "successful"

(* An instance that is PROVISIONING, UPDATING or DELETING has a request of that type
   at work on it, or one that was deleted: it never stays busy because every request
   that could move it has ended (process and check_job_status write two rows). *)
BusyInstanceHasDriver ==
    \A i \in Instance : \A t \in Type : instState[i] = Busy[t] =>
        \E r \in Request : /\ reqState[r] \in {"PROCESSING", "GONE"}
                           /\ target[r] = i
                           /\ TypeOf(r) = t

(* Polling and processing go together: a check task exists only for a PROCESSING
   request (or one deleted in bulk), and a PROCESSING request without a check task
   has run out of time (setup_periodic_check_task, check_job_status, setup_schedule). *)
PollerMatchesProcessing ==
    \A r \in Request :
        /\ task[r] => reqState[r] \in {"PROCESSING", "GONE"}
        /\ reqState[r] = "PROCESSING" /\ ~task[r] => expired[r]

(* A request that was refused stays refused: approving the step it was waiting for,
   a check message or a restart never brings a CANCELED or REJECTED request back,
   and none of them launches a job for it (RequestApproveView and ApproveCurrentStep
   do not look at the state of the request). *)
RefusedStaysRefused ==
    [][\A r \in Request :
          /\ reqState[r] = "CANCELED" => reqState'[r] \in {"CANCELED", "GONE"}
          /\ reqState[r] = "REJECTED" => reqState'[r] \in {"REJECTED", "CANCELED", "GONE"}]_vars

(* Every check task is eventually removed: its job ends or its time runs out, and
   the worker handles the message that notices it (check_job_status).  Only a row
   deleted in bulk may keep its task until the scheduler restarts. *)
PollingEnds ==
    \A r \in Request : task[r] ~> (~task[r] \/ reqState[r] = "GONE")

-----------------------------------------------------------------------------
(* What the owner of an instance sees of its state. *)
PhaseOf(s) ==
    CASE s = "FREE" -> "absent"
      [] s \in {"PENDING", "PROVISIONING", "PROVISION_FAILED"} -> "reserved"
      [] s = "ABORTED" -> "withdrawn"
      [] s \in {"AVAILABLE", "UPDATING", "UPDATE_FAILED", "DELETING", "DELETE_FAILED"} -> "live"
      [] s \in {"DELETED", "ARCHIVED"} -> "retired"
      [] OTHER -> "erased"

(* Instances for which a job of the given type succeeded. *)
Achieved(t) ==
    {target[jobOwner[j]] : j \in {k \in Job : /\ jobStatus[k] = "successful"
                                             /\ TypeOf(jobOwner[k]) = t}}

Promise == INSTANCE InstancePromise
    WITH phase <- [i \in Instance |-> PhaseOf(instState[i])],
         created <- Achieved("CREATE"),
         destroyed <- Achieved("DELETE")

(* The handlers keep the promise made to the owner of an instance: it is delivered
   only after a creation job succeeded, retired only after a deletion job succeeded,
   and the late result of another request never brings it back. *)
KeepsPromise == Promise!PromiseSpec

-----------------------------------------------------------------------------
(* An expectation the repository states and the code does not meet.         *)

(* tests/test_service_catalog/test_models/test_request.py expects a request whose
   time has run out to be FAILED when its check task is removed. *)
RemovedPollSettlesRequest ==
    [][\A r \in Request :
          reqState[r] = "PROCESSING" /\ task[r] /\ ~task'[r] => reqState'[r] # "PROCESSING"]_vars
=============================================================================
