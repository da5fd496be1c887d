-------------------------- MODULE HandlerInterleaving --------------------------
(***************************************************************************)
(* The handlers of RequestLifecycle cut at their commits.  The database    *)
(* commits every statement on its own (no ATOMIC_REQUESTS), a handler      *)
(* works on Python objects it loaded when it began, and Model.save writes  *)
(* every column of the object, stale ones included.  What stands between   *)
(* two handlers is only the database: the name of a PeriodicTask is        *)
(* unique, and a row that refers to a deleted PeriodicTask is refused.     *)
(*                                                                         *)
(* The requests exist, are ACCEPTED, and their operations have neither a   *)
(* workflow nor automatic options; time does not run out.                  *)
(***************************************************************************)
EXTENDS Naturals, FiniteSets, Transitions

CONSTANTS
    Request, Instance,
    Web,           \* threads of the web server
    Worker,        \* threads of the Celery worker
    TypeOf,        \* operation.type of each request
    InstanceOf,    \* the instance of each request
    FirstState,    \* the state of each instance at the beginning
    Goal,          \* the states administrators try to give to requests
    Crashes,       \* whether a thread may die between two commits
    None,
    MaxJob,        \* bound: jobs launched on RHAAP/AWX in a behaviour
    MaxMsg         \* bound: check messages of one request waiting in the broker

ASSUME ConstantsAssumption ==
    /\ TypeOf \in [Request -> Type]
    /\ InstanceOf \in [Request -> Instance]
    /\ FirstState \in [Instance -> {"PENDING", "AVAILABLE"}]
    /\ Goal \subseteq {"PROCESSING", "ACCEPTED", "CANCELED", "REJECTED"}
    /\ Crashes \in BOOLEAN
    /\ Web \cap Worker = {}
    /\ None \notin Request
    /\ MaxJob \in Nat
    /\ MaxMsg \in Nat

VARIABLES
    row,        \* the table of requests: state, tower_job_id, periodic_task_id
    instState,  \* the table of instances: state
    task,       \* id of the PeriodicTask "job_status_check_request_<id>", 0 if there is none
    queue,      \* check_tower_job_status_task messages of the request in the broker
    lastJob,    \* jobs RHAAP/AWX has launched so far
    jobStatus,  \* RHAAP/AWX: status of each job
    jobOwner,   \* RHAAP/AWX: the request in the "squest" extra variable of the job
    thread      \* what each thread is doing, and the objects it holds

tables == <<row, instState, task>>
tower == <<lastJob, jobStatus, jobOwner>>
vars == <<tables, queue, tower, thread>>

Thread == Web \cup Worker
Job == 1..MaxJob
JobStatus == {"none", "running", "successful", "failed", "canceled"}
RequestRow == [state : RequestState, job : 0..MaxJob, task : 0..MaxJob]

(* A thread: the point it reached, the primary key of the request, the state it will
   give it, the Request object and the state of the Instance object it holds, and the
   id of the job it launched. *)
Idle == [at |-> "idle", request |-> None, goal |-> None, row |-> None, inst |-> None,
         launched |-> 0]

Own(h) == thread[h].request
Held(h) == thread[h].row
Target(h) == InstanceOf[Own(h)]
Kind(h) == TypeOf[Own(h)]

At(h, point) == thread[h].at = point
Hold(h, point, object) == thread' = [thread EXCEPT ![h].at = point, ![h].row = object]
End(h) == thread' = [thread EXCEPT ![h] = Idle]

(* A handler begins with get_object_or_404 or Request.objects.get. *)
Load(h, r, goal, point) ==
    /\ At(h, "idle")
    /\ thread' = [thread EXCEPT ![h] = [Idle EXCEPT !.at = point, !.request = r,
                                                    !.goal = goal, !.row = row[r]]]

(* Request.save: every column is written, unless the PeriodicTask it refers to is
   gone, and then the exception ends the handler. *)
Save(h, object, point) ==
    /\ IF object.task \in {0, task[Own(h)]}
       THEN /\ row' = [row EXCEPT ![Own(h)] = object]
            /\ IF point = "done" THEN End(h) ELSE Hold(h, point, object)
       ELSE /\ End(h)
            /\ UNCHANGED row
    /\ UNCHANGED <<instState, task, queue, tower>>

(* Instance.save *)
SaveInstance(h, s, point) ==
    /\ instState' = [instState EXCEPT ![Target(h)] = s]
    /\ IF point = "done" THEN End(h) ELSE Hold(h, point, Held(h))
    /\ UNCHANGED <<row, task, queue, tower>>

(* The handler reads its instance, and goes on if that is in one of the states. *)
ReadInstance(h, states, point) ==
    /\ IF instState[Target(h)] \in states
       THEN thread' = [thread EXCEPT ![h].at = point, ![h].inst = instState[Target(h)]]
       ELSE End(h)
    /\ UNCHANGED <<tables, queue, tower>>

-----------------------------------------------------------------------------
(* The views of administrators. *)

GoalFrom == [PROCESSING |-> ProcessFrom, ACCEPTED |-> AcceptFrom,
             CANCELED |-> CancelFrom, REJECTED |-> RejectFrom]

Begin(h, r, goal) ==
    /\ row[r].state \in GoalFrom[goal]
    /\ Load(h, r, goal, "permission")
    /\ UNCHANGED <<tables, queue, tower>>

(* has_perm loads the instance for its scopes.  can_proceed and the transitions are
   decided on these two objects, whatever the database holds by then. *)
CheckPermission(h) ==
    /\ At(h, "permission")
    /\ ReadInstance(h, IF thread[h].goal = "PROCESSING" THEN CanProcess \cap StartFrom[Kind(h)]
                                                        ELSE InstanceState, thread[h].goal)

(* AcceptRequestForm.save writes the request before it resets the instance. *)
SaveAnswers(h) ==
    /\ At(h, "ACCEPTED")
    /\ Save(h, Held(h), "reset_instance")

ResetInstance(h) ==
    /\ At(h, "reset_instance")
    /\ SaveInstance(h, LastStable(thread[h].inst), "save_goal")

(* cancel() and reject() *)
AbortInstance(h) ==
    /\ thread[h].at \in {"CANCELED", "REJECTED"}
    /\ IF thread[h].inst = "PENDING"
       THEN SaveInstance(h, "ABORTED", "save_goal")
       ELSE /\ Hold(h, "save_goal", Held(h))
            /\ UNCHANGED <<tables, queue, tower>>

SaveGoal(h) ==
    /\ At(h, "save_goal")
    /\ Save(h, [Held(h) EXCEPT !.state = thread[h].goal], "done")

-----------------------------------------------------------------------------
(* try_process_request: process(), perform_processing() and a last save. *)

StartInstance(h) ==
    /\ At(h, "PROCESSING")
    /\ SaveInstance(h, Busy[Kind(h)], "save_started")

(* Still ACCEPTED or FAILED: django-fsm changes the state when process() returns. *)
SaveStarted(h) ==
    /\ At(h, "save_started")
    /\ Save(h, Held(h), "launch")

Launch(h) ==
    /\ At(h, "launch")
    /\ lastJob < MaxJob
    /\ lastJob' = lastJob + 1
    /\ jobStatus' = [jobStatus EXCEPT ![lastJob + 1] = "running"]
    /\ jobOwner' = [jobOwner EXCEPT ![lastJob + 1] = Own(h)]
    /\ thread' = [thread EXCEPT ![h].at = "save_launched", ![h].row.state = "PROCESSING",
                                ![h].launched = lastJob + 1]
    /\ UNCHANGED <<tables, queue>>

(* Mutant: a refused launch gives the instance back as AVAILABLE. *)
LaunchFailsToStable(h) ==
    /\ At(h, "launch")
    /\ instState' = [instState EXCEPT ![Target(h)] = "AVAILABLE"]
    /\ Hold(h, "save_launched", [Held(h) EXCEPT !.state = "FAILED"])
    /\ UNCHANGED <<row, task, queue, tower>>

(* RHAAP/AWX refuses: has_failed() on the instance object of the handler. *)
LaunchFails(h) ==
    /\ At(h, "launch")
    /\ instState' = [instState EXCEPT ![Target(h)] = FailedState[Kind(h)]]
    /\ Hold(h, "save_launched", [Held(h) EXCEPT !.state = "FAILED"])
    /\ UNCHANGED <<row, task, queue, tower>>

SaveLaunched(h) ==
    /\ At(h, "save_launched")
    /\ Save(h, Held(h), IF thread[h].launched = 0 THEN "save_last" ELSE "schedule")

(* Mutant: the id of the job is not kept. *)
ScheduleForgetful(h) ==
    LET j == thread[h].launched IN
    /\ At(h, "schedule")
    /\ IF task[Own(h)] = 0
       THEN /\ task' = [task EXCEPT ![Own(h)] = j]
            /\ Hold(h, "save_scheduled", [Held(h) EXCEPT !.task = j])
       ELSE /\ End(h)
            /\ UNCHANGED task
    /\ UNCHANGED <<row, instState, queue, tower>>

(* setup_periodic_check_task creates the task, whose name must be new; its id is here
   the id of the job it polls. *)
Schedule(h) ==
    LET j == thread[h].launched IN
    /\ At(h, "schedule")
    /\ IF task[Own(h)] = 0
       THEN /\ task' = [task EXCEPT ![Own(h)] = j]
            /\ Hold(h, "save_scheduled", [Held(h) EXCEPT !.job = j, !.task = j])
       ELSE /\ End(h)
            /\ UNCHANGED task
    /\ UNCHANGED <<row, instState, queue, tower>>

SaveScheduled(h) ==
    /\ At(h, "save_scheduled")
    /\ Save(h, Held(h), "save_last")

SaveLast(h) ==
    /\ At(h, "save_last")
    /\ Save(h, Held(h), "done")

-----------------------------------------------------------------------------
(* check_tower_job_status_task *)

(* Mutant: a check runs without a message. *)
BeginAnyCheck(h, r) ==
    /\ queue' = [queue EXCEPT ![r] = @ - 1]
    /\ IF row[r].job = 0 THEN UNCHANGED thread ELSE Load(h, r, None, "ask")
    /\ UNCHANGED <<tables, tower>>

BeginCheck(h, r) ==
    /\ queue[r] > 0
    /\ queue' = [queue EXCEPT ![r] = @ - 1]
    /\ IF row[r].job = 0 THEN UNCHANGED thread ELSE Load(h, r, None, "ask")
    /\ UNCHANGED <<tables, tower>>

(* Mutant: the status "canceled" is not handled. *)
AskTowerIgnoringCanceled(h) ==
    LET status == jobStatus[Held(h).job] IN
    /\ At(h, "ask")
    /\ IF Held(h).state = "PROCESSING" /\ status \notin {"running", "canceled"}
       THEN IF status = "successful"
            THEN Hold(h, "save_complete", [Held(h) EXCEPT !.state = "COMPLETE"])
            ELSE Hold(h, "has_failed", [Held(h) EXCEPT !.state = "FAILED"])
       ELSE End(h)
    /\ UNCHANGED <<tables, queue, tower>>

(* get_unified_job_by_id, then the guard of complete() or has_failed(). *)
AskTower(h) ==
    LET status == jobStatus[Held(h).job] IN
    /\ At(h, "ask")
    /\ IF Held(h).state = "PROCESSING" /\ status # "running"
       THEN IF status = "successful"
            THEN Hold(h, "save_complete", [Held(h) EXCEPT !.state = "COMPLETE"])
            ELSE Hold(h, "has_failed", [Held(h) EXCEPT !.state = "FAILED"])
       ELSE End(h)
    /\ UNCHANGED <<tables, queue, tower>>

(* Mutant: the object is refreshed from the database before it is completed. *)
SaveRefreshed(h) ==
    /\ At(h, "save_complete")
    /\ Save(h, [row[Own(h)] EXCEPT !.state = "COMPLETE"], "unschedule")

SaveComplete(h) ==
    /\ At(h, "save_complete")
    /\ Save(h, Held(h), "unschedule")

(* Mutant: a completed request keeps its check task. *)
UnscheduleFailed(h) ==
    /\ At(h, "unschedule")
    /\ IF Held(h).state = "COMPLETE"
       THEN /\ Hold(h, "success", Held(h))
            /\ UNCHANGED <<task, row>>
       ELSE /\ task' = [task EXCEPT ![Own(h)] = 0]
            /\ row' = [row EXCEPT ![Own(h)].task = 0]
            /\ End(h)
    /\ UNCHANGED <<instState, queue, tower>>

(* self.periodic_task is fetched when it is first used: the task must still be there.
   Its deletion sets the foreign key of the row to null. *)
Unschedule(h) ==
    /\ At(h, "unschedule")
    /\ IF Held(h).task # 0 /\ task[Own(h)] = Held(h).task
       THEN /\ task' = [task EXCEPT ![Own(h)] = 0]
            /\ row' = [row EXCEPT ![Own(h)].task = IF @ = task[Own(h)] THEN 0 ELSE @]
            /\ IF Held(h).state = "COMPLETE" THEN Hold(h, "success", Held(h)) ELSE End(h)
       ELSE /\ End(h)
            /\ UNCHANGED <<task, row>>
    /\ UNCHANGED <<instState, queue, tower>>

ReadForSuccess(h) ==
    /\ At(h, "success")
    /\ ReadInstance(h, SuccessFrom[Kind(h)], "save_success")

SaveSuccess(h) ==
    /\ At(h, "save_success")
    /\ SaveInstance(h, SuccessState[Kind(h)], "done")

ReadForFailure(h) ==
    /\ At(h, "has_failed")
    /\ ReadInstance(h, {Busy[Kind(h)]}, "save_failure")

SaveFailure(h) ==
    /\ At(h, "save_failure")
    /\ SaveInstance(h, FailedState[Kind(h)], "save_failed")

SaveFailed(h) ==
    /\ At(h, "save_failed")
    /\ Save(h, Held(h), "unschedule")

-----------------------------------------------------------------------------
(* The environment. *)

(* Celery beat puts a check message in the broker every ten seconds. *)
BeatTick(r) ==
    /\ task[r] # 0
    /\ queue[r] < MaxMsg
    /\ queue' = [queue EXCEPT ![r] = @ + 1]
    /\ UNCHANGED <<tables, tower, thread>>

JobEnds(j) ==
    /\ jobStatus[j] = "running"
    /\ \E status \in {"successful", "failed", "canceled"} :
           jobStatus' = [jobStatus EXCEPT ![j] = status]
    /\ UNCHANGED <<tables, queue, lastJob, jobOwner, thread>>

(* The thread dies, what it committed stays. *)
Crash(h) ==
    /\ Crashes
    /\ ~At(h, "idle")
    /\ End(h)
    /\ UNCHANGED <<tables, queue, tower>>

Init ==
    /\ row = [r \in Request |-> [state |-> "ACCEPTED", job |-> 0, task |-> 0]]
    /\ instState = FirstState
    /\ task = [r \in Request |-> 0]
    /\ queue = [r \in Request |-> 0]
    /\ lastJob = 0
    /\ jobStatus = [j \in Job |-> "none"]
    /\ jobOwner = [j \in Job |-> None]
    /\ thread = [h \in Thread |-> Idle]

WebStep(h) ==
    \/ \E r \in Request, goal \in Goal : Begin(h, r, goal)
    \/ CheckPermission(h)
    \/ SaveAnswers(h) \/ ResetInstance(h)
    \/ AbortInstance(h)
    \/ SaveGoal(h)
    \/ StartInstance(h) \/ SaveStarted(h)
    \/ Launch(h) \/ LaunchFails(h) \/ SaveLaunched(h)
    \/ Schedule(h) \/ SaveScheduled(h)
    \/ SaveLast(h)

WorkerStep(h) ==
    \/ \E r \in Request : BeginCheck(h, r)
    \/ AskTower(h)
    \/ SaveComplete(h) \/ Unschedule(h) \/ ReadForSuccess(h) \/ SaveSuccess(h)
    \/ ReadForFailure(h) \/ SaveFailure(h) \/ SaveFailed(h)

Next ==
    \/ \E h \in Web : WebStep(h)
    \/ \E h \in Worker : WorkerStep(h)
    \/ \E h \in Thread : Crash(h)
    \/ \E r \in Request : BeatTick(r)
    \/ \E j \in Job : JobEnds(j)

Spec == Init /\ [][Next]_vars

(* The worker, the scheduler and RHAAP/AWX keep going; administrators owe nothing. *)
Fairness ==
    /\ \A h \in Worker : WF_vars(WorkerStep(h))
    /\ \A r \in Request : WF_vars(BeatTick(r))
    /\ \A j \in Job : WF_vars(JobEnds(j))

FairSpec == Spec /\ Fairness

-----------------------------------------------------------------------------
(* Every column and every object holds a value of its type. *)
TypeOK ==
    /\ row \in [Request -> RequestRow]
    /\ instState \in [Instance -> InstanceState]
    /\ task \in [Request -> 0..MaxJob]
    /\ queue \in [Request -> 0..MaxMsg]
    /\ lastJob \in 0..MaxJob
    /\ jobStatus \in [Job -> JobStatus]
    /\ jobOwner \in [Job -> Request \cup {None}]
    /\ \A h \in Thread : thread[h] # Idle => Own(h) \in Request /\ Held(h) \in RequestRow

(* What is recorded as a success was one, at every commit: a COMPLETE request holds the
   id of a job of its own that was successful, and an instance reaches the state a success
   leads to only after a job that leads there succeeded.  No object a thread still holds,
   and no thread that died between the launch and the save of the job's id, makes it up. *)
OutcomeIsEarned ==
    /\ \A r \in Request : row[r].state = "COMPLETE" =>
          row[r].job # 0 /\ jobStatus[row[r].job] = "successful" /\ jobOwner[row[r].job] = r
    /\ \A i \in Instance : \A outcome \in {"AVAILABLE", "DELETED"} \ {FirstState[i]} :
          instState[i] = outcome =>
              \E j \in Job : /\ jobStatus[j] = "successful"
                            /\ InstanceOf[jobOwner[j]] = i
                            /\ SuccessState[TypeOf[jobOwner[j]]] = outcome

(* No thread is at work on the request. *)
Quiet(r) == \A h \in Thread : Own(h) # r

(* The only job launched for a request so far. *)
OnlyJob(r, j) == \A k \in Job : jobOwner[k] = r <=> k = j

(* As long as a request was not retried, its running job is the one in its row, the row
   is PROCESSING and refers to a check task that exists, whatever the workers and the
   messages of earlier ticks did meanwhile. *)
FirstJobIsFollowed ==
    \A r \in Request, j \in Job : OnlyJob(r, j) /\ jobStatus[j] = "running" /\ Quiet(r) =>
        /\ row[r] = [state |-> "PROCESSING", job |-> j, task |-> task[r]]
        /\ task[r] # 0
        /\ instState[InstanceOf[r]] = Busy[TypeOf[r]]

(* Two workers that see the same success complete the request once and for all: when
   they are done the check task is gone and the instance got its outcome. *)
CompletionIsDelivered ==
    \A r \in Request, j \in Job :
        OnlyJob(r, j) /\ row[r].state = "COMPLETE" /\ Quiet(r) =>
            task[r] = 0 /\ instState[InstanceOf[r]] = SuccessState[TypeOf[r]]

(* The first job of a request settles it: when it ended some worker saves COMPLETE or
   FAILED, whatever the others do with the same message (check_job_status). *)
FirstJobSettles ==
    \A r \in Request, j \in Job :
        (OnlyJob(r, j) /\ jobStatus[j] = "running" /\ Quiet(r))
            ~> row[r].state \in {"COMPLETE", "FAILED"}
=============================================================================
