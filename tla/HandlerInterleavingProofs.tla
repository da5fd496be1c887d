---------------------- MODULE HandlerInterleavingProofs ----------------------
(***************************************************************************)
(* Theorems of HandlerInterleaving, for every number of requests,          *)
(* instances, threads of the web server and of the worker, jobs and        *)
(* messages.                                                               *)
(*                                                                         *)
(* Two inductive invariants.  IInv says what every object a thread holds   *)
(* is worth: the job in it is a job of the request, a success in it was    *)
(* one, and the state of the instance in it was earned.  It needs no       *)
(* hypothesis: whatever overlaps, crashes or is written back, a success is *)
(* not made up.  Follows adds how a request is handed from the thread that *)
(* launches its first job to the check task and to the workers.  It needs  *)
(* that no thread dies, that requests do not share an instance, and that   *)
(* two administrators are not at work on a request at the same time.       *)
(***************************************************************************)
EXTENDS HandlerInterleaving, TLAPS

WebPoint == {"permission", "ACCEPTED", "CANCELED", "REJECTED", "PROCESSING", "reset_instance",
             "save_goal", "save_started", "launch", "save_launched", "schedule",
             "save_scheduled", "save_last"}
WorkerPoint == {"ask", "save_complete", "unschedule", "success", "save_success",
                "has_failed", "save_failure", "save_failed"}

Point == {"idle"} \cup WebPoint \cup WorkerPoint

Record == [at : Point, request : Request \cup {None},
           goal : Goal \cup {None}, row : RequestRow \cup {None},
           inst : InstanceState \cup {None}, launched : 0..MaxJob]

Typed ==
    /\ row \in [Request -> RequestRow]
    /\ instState \in [Instance -> InstanceState]
    /\ task \in [Request -> 0..MaxJob]
    /\ queue \in [Request -> 0..MaxMsg]
    /\ lastJob \in 0..MaxJob
    /\ jobStatus \in [Job -> JobStatus]
    /\ jobOwner \in [Job -> Request \cup {None}]
    /\ thread \in [Thread -> Record]

(* The jobs launched so far are the first ones. *)
JobsAreLaunched ==
    \A j \in Job : IF j <= lastJob THEN jobStatus[j] # "none" /\ jobOwner[j] \in Request
                                   ELSE jobStatus[j] = "none" /\ jobOwner[j] = None

-----------------------------------------------------------------------------
(* What was earned. *)

(* A job that leads to the outcome succeeded on the instance. *)
Achieved(i, outcome) ==
    \E j \in Job : /\ jobStatus[j] = "successful"
                   /\ InstanceOf[jobOwner[j]] = i
                   /\ SuccessState[TypeOf[jobOwner[j]]] = outcome

(* The states of an instance that was delivered once. *)
AfterDelivery == {"AVAILABLE", "UPDATING", "UPDATE_FAILED", "DELETING", "DELETE_FAILED"}

Earned(i, s) ==
    /\ s \in AfterDelivery => FirstState[i] = "AVAILABLE" \/ Achieved(i, "AVAILABLE")
    /\ s = "DELETED" => Achieved(i, "DELETED")

(* A row, stored or held: its job is one of the request, its success one of the job. *)
RowIsEarned(object, r) ==
    /\ object.job # 0 => jobOwner[object.job] = r
    /\ object.state = "COMPLETE" => object.job # 0 /\ jobStatus[object.job] = "successful"

(* What a handler holds at each of its commits. *)
Sound(th) ==
    /\ th.request \in Request /\ th.row \in RequestRow
    /\ RowIsEarned(th.row, th.request)
    /\ th.launched # 0 => jobOwner[th.launched] = th.request
    /\ th.at \in WebPoint => th.goal \in Goal
    /\ th.at \in {"save_launched", "schedule"} => th.row.state # "COMPLETE"
    /\ th.at = "schedule" => th.launched # 0
    /\ th.at = "ask" => th.row.job # 0
    /\ th.at \in {"save_complete", "success", "save_success"} => th.row.state = "COMPLETE"
    /\ th.at \in {"ACCEPTED", "reset_instance", "PROCESSING", "save_failure"} =>
          th.inst \in InstanceState /\ Earned(InstanceOf[th.request], th.inst)
    /\ th.at = "PROCESSING" => th.inst \in StartFrom[TypeOf[th.request]]
    /\ th.at \in {"save_started", "launch"} =>
          Earned(InstanceOf[th.request], Busy[TypeOf[th.request]])
    /\ th.at = "save_failure" => th.inst = Busy[TypeOf[th.request]]

ThreadsAreSound ==
    \A h \in Thread : IF At(h, "idle") THEN thread[h] = Idle ELSE Sound(thread[h])

RowsAreEarned == \A r \in Request : RowIsEarned(row[r], r)
InstancesAreEarned == \A i \in Instance : Earned(i, instState[i])

IInv == Typed /\ JobsAreLaunched /\ ThreadsAreSound /\ RowsAreEarned /\ InstancesAreEarned

-----------------------------------------------------------------------------
(* How the first job of a request is followed. *)

Stored(s, j, t) == [state |-> s, job |-> j, task |-> t]
InstOf(r) == instState[InstanceOf[r]]

NoJob(r) == \A j \in Job : jobOwner[j] # r
NoWorker(r) == \A h \in Worker : Own(h) # r

(* No job was launched for the request: nothing refers to one, and the thread that is
   about to launch it has made the instance busy. *)
Fresh(r) ==
    /\ row[r].job = 0 /\ row[r].task = 0 /\ task[r] = 0
    /\ NoWorker(r)
    /\ \A h \in Web : Own(h) = r =>
          /\ Held(h).job = 0 /\ Held(h).task = 0 /\ thread[h].launched = 0
          /\ thread[h].at \notin {"schedule", "save_scheduled"}
          /\ thread[h].at \in {"save_started", "launch"} => InstOf(r) = Busy[TypeOf[r]]

(* The thread that launched the job has not stored its id yet. *)
Launching(r, j) ==
    /\ row[r].job = 0 /\ row[r].task = 0
    /\ NoWorker(r)
    /\ InstOf(r) = Busy[TypeOf[r]]
    /\ \E h \in Web :
          /\ Own(h) = r /\ thread[h].launched = j
          /\ \/ /\ thread[h].at \in {"save_launched", "schedule"}
                /\ task[r] = 0 /\ Held(h) = Stored("PROCESSING", 0, 0)
             \/ /\ thread[h].at = "save_scheduled"
                /\ task[r] = j /\ Held(h) = Stored("PROCESSING", j, j)

(* A worker on the request. *)
Checking(h, r, j) ==
    /\ Held(h).job = j
    /\ Held(h).task \in {task[r], j}
    /\ \/ thread[h].at = "ask" /\ Held(h).state \in {"PROCESSING", "COMPLETE"}
       \/ /\ jobStatus[j] = "successful" /\ Held(h).state = "COMPLETE"
          /\ thread[h].at \in {"save_complete", "unschedule", "success", "save_success"}
          /\ thread[h].at \in {"success", "save_success"} => task[r] = 0

(* The request is with the check task and the workers; the thread that launched the job
   may still have its last save to do.  The check task goes with a worker that delivers
   the success. *)
Polled(r, j) ==
    /\ row[r].job = j /\ row[r].state \in {"PROCESSING", "COMPLETE"}
    /\ row[r].task = task[r] /\ task[r] \in {0, j}
    /\ \A h \in Web : Own(h) = r =>
          thread[h].at = "save_last" /\ Held(h) = Stored("PROCESSING", j, j)
    /\ \A h \in Worker : Own(h) = r => Checking(h, r, j)
    /\ jobStatus[j] = "running" => task[r] = j /\ row[r].state = "PROCESSING"
    /\ task[r] = j => /\ InstOf(r) = Busy[TypeOf[r]]
                      /\ row[r].state = "COMPLETE" =>
                            \E h \in Worker : Own(h) = r /\ thread[h].at = "unschedule"
    /\ task[r] = 0 =>
          \/ InstOf(r) = SuccessState[TypeOf[r]]
          \/ /\ InstOf(r) = Busy[TypeOf[r]]
             /\ \E h \in Worker : Own(h) = r /\ thread[h].at \in {"success", "save_success"}

FollowsOne(r) ==
    /\ NoJob(r) => Fresh(r)
    /\ \A j \in Job : OnlyJob(r, j) /\ jobStatus[j] \in {"running", "successful"} =>
          Launching(r, j) \/ Polled(r, j)

Follows == \A r \in Request : FollowsOne(r)

(* Two administrators are not at work on a request at the same time. *)
OneHandlerEach == \A g, h \in Web : Own(g) = Own(h) /\ Own(g) # None => g = h

(* Requests do not share an instance. *)
OneRequestEach == \A q, r \in Request : InstanceOf[q] = InstanceOf[r] => q = r

-----------------------------------------------------------------------------
(* What a success proves stays proved: jobs keep their owner, and a success is final. *)

JobsGrow ==
    \A j \in Job : /\ jobStatus[j] = "successful" => jobStatus'[j] = "successful"
                   /\ jobOwner[j] \in Request => jobOwner'[j] = jobOwner[j]

LEMMA EarnedStays ==
  ASSUME Typed, JobsAreLaunched, JobsGrow, NEW i, NEW s, Earned(i, s)
  PROVE  Earned(i, s)'
  <1>1. \A j \in Job : jobStatus[j] = "successful" => jobOwner[j] \in Request
    BY DEF JobsAreLaunched
  <1>2. ASSUME NEW outcome, Achieved(i, outcome) PROVE Achieved(i, outcome)'
    BY <1>1, <1>2 DEF Achieved, JobsGrow
  <1> QED
    BY <1>2 DEF Earned

LEMMA RowStays ==
  ASSUME Typed, JobsGrow, NEW r \in Request, NEW object \in RequestRow, RowIsEarned(object, r)
  PROVE  RowIsEarned(object, r)'
  BY DEF RowIsEarned, JobsGrow, RequestRow, Job

LEMMA SoundStays ==
  ASSUME Typed, JobsAreLaunched, JobsGrow, NEW th \in Record, Sound(th)
  PROVE  Sound(th)'
  <1>1. RowIsEarned(th.row, th.request)'
    BY RowStays DEF Sound
  <1>2. th.launched # 0 => jobOwner'[th.launched] = th.request
    <2>1. th.launched # 0 => th.launched \in Job
      BY ConstantsAssumption DEF Record, Job
    <2>2. th.launched # 0 => jobOwner[th.launched] \in Request /\ jobOwner[th.launched] = th.request
      BY DEF Sound
    <2> QED
      BY <2>1, <2>2 DEF JobsGrow
  <1>3. th.at \in {"ACCEPTED", "reset_instance", "PROCESSING", "save_failure"} =>
            Earned(InstanceOf[th.request], th.inst)'
    BY EarnedStays DEF Sound
  <1>4. th.at \in {"save_started", "launch"} =>
            Earned(InstanceOf[th.request], Busy[TypeOf[th.request]])'
    BY EarnedStays DEF Sound
  <1> QED
    BY <1>1, <1>2, <1>3, <1>4 DEF Sound

LEMMA SameJobsGrow == ASSUME UNCHANGED tower PROVE JobsGrow
  BY DEF tower, JobsGrow

-----------------------------------------------------------------------------
(* One thread goes on. *)

(* What the thread may hold next. *)
Ready(th) == th \in Record /\ (th = Idle \/ (th.at # "idle" /\ Sound(th)))

(* The record of a thread after a save, and after a read of the instance. *)
Then(th, point, object) == [th EXCEPT !.at = point, !.row = object]
Saw(th, point, s) == [th EXCEPT !.at = point, !.inst = s]

LEMMA ThenFields ==
  ASSUME NEW th \in Record, NEW point \in Point, NEW object \in RequestRow
  PROVE  /\ Then(th, point, object) \in Record
         /\ Then(th, point, object).at = point
         /\ Then(th, point, object).row = object
         /\ Then(th, point, object).request = th.request
         /\ Then(th, point, object).goal = th.goal
         /\ Then(th, point, object).inst = th.inst
         /\ Then(th, point, object).launched = th.launched
  BY DEF Then, Record

LEMMA SawFields ==
  ASSUME NEW th \in Record, NEW point \in Point, NEW s \in InstanceState
  PROVE  /\ Saw(th, point, s) \in Record
         /\ Saw(th, point, s).at = point
         /\ Saw(th, point, s).inst = s
         /\ Saw(th, point, s).request = th.request
         /\ Saw(th, point, s).goal = th.goal
         /\ Saw(th, point, s).row = th.row
         /\ Saw(th, point, s).launched = th.launched
  BY DEF Saw, Record

LEMMA IdleIsReady ==
  /\ Idle \in Record /\ Idle.at = "idle" /\ Idle.request = None /\ Idle.launched = 0
  <1>1. 0 \in 0..MaxJob
    BY ConstantsAssumption
  <1> QED
    BY <1>1 DEF Idle, Record, Point

LEMMA OneThreadMoves ==
  ASSUME Typed, JobsAreLaunched, ThreadsAreSound, JobsGrow, NEW h \in Thread, NEW th,
         Ready(th)', thread' = [thread EXCEPT ![h] = th]
  PROVE  thread' \in [Thread -> Record] /\ ThreadsAreSound'
  <1>1. th \in Record /\ (th = Idle \/ (th.at # "idle" /\ Sound(th)'))
    BY DEF Ready
  <1>2. thread' \in [Thread -> Record]
    BY <1>1 DEF Typed
  <1>3. ASSUME NEW g \in Thread
        PROVE  IF thread[g].at' = "idle" THEN thread[g]' = Idle ELSE Sound(thread[g])'
    <2>1. CASE g = h
      BY <1>1, <2>1, IdleIsReady DEF Typed
    <2>2. CASE g # h
      <3>1. thread'[g] = thread[g] /\ thread[g] \in Record
        BY <2>2 DEF Typed
      <3>2. IF thread[g].at = "idle" THEN thread[g] = Idle ELSE Sound(thread[g])
        BY DEF ThreadsAreSound, At
      <3> QED
        BY <3>1, <3>2, SoundStays
    <2> QED
      BY <2>1, <2>2
  <1> QED
    BY <1>2, <1>3 DEF ThreadsAreSound, At

LEMMA ThreadsStay ==
  ASSUME Typed, JobsAreLaunched, ThreadsAreSound, JobsGrow, UNCHANGED thread
  PROVE  thread' \in [Thread -> Record] /\ ThreadsAreSound'
  <1>1. ASSUME NEW g \in Thread
        PROVE  IF thread[g].at' = "idle" THEN thread[g]' = Idle ELSE Sound(thread[g])'
    <2>1. thread'[g] = thread[g] /\ thread[g] \in Record
      BY DEF Typed
    <2> QED
      BY <2>1, SoundStays DEF ThreadsAreSound, At
  <1> QED
    BY <1>1 DEF ThreadsAreSound, At, Typed

(* Only tower decides whether a record is ready. *)
LEMMA ReadyLater ==
  ASSUME UNCHANGED tower, NEW th, Ready(th)
  PROVE  Ready(th)'
  BY DEF Ready, Sound, RowIsEarned, Earned, Achieved, tower

LEMMA ActiveIsSound ==
  ASSUME IInv, NEW h \in Thread, ~At(h, "idle")
  PROVE  thread[h] \in Record /\ Sound(thread[h]) /\ Own(h) \in Request /\ Held(h) \in RequestRow
  BY DEF IInv, Typed, ThreadsAreSound, Sound, Own, Held

-----------------------------------------------------------------------------
(* The ways in which a handler commits. *)

LEMMA SaveKeeps ==
  ASSUME IInv, NEW h \in Thread, ~At(h, "idle"), NEW object \in RequestRow, NEW point,
         RowIsEarned(object, Own(h)), Save(h, object, point),
         point # "done" => Ready(Then(thread[h], point, object))
  PROVE  IInv'
  <1> DEFINE next == Then(thread[h], point, object)
  <1>1. UNCHANGED <<instState, task, queue, tower>> /\ JobsGrow
    BY SameJobsGrow DEF Save
  <1>2. Own(h) \in Request /\ Ready(Idle) /\ thread \in [Thread -> Record]
    BY ActiveIsSound, IdleIsReady DEF Ready, IInv, Typed
  <1>3. /\ row' = row \/ row' = [row EXCEPT ![Own(h)] = object]
        /\ \/ thread' = [thread EXCEPT ![h] = Idle]
           \/ point # "done" /\ thread' = [thread EXCEPT ![h] = next]
    BY <1>2 DEF Save, Hold, End, Then
  <1>4. thread' \in [Thread -> Record] /\ ThreadsAreSound'
    BY <1>1, <1>2, <1>3, ReadyLater, OneThreadMoves DEF IInv
  <1>5. row' \in [Request -> RequestRow] /\ \A r \in Request : RowIsEarned(row'[r], r)
    BY <1>2, <1>3 DEF IInv, Typed, RowsAreEarned
  <1>6. RowsAreEarned'
    BY <1>1, <1>5 DEF RowsAreEarned, RowIsEarned, tower
  <1>7. JobsAreLaunched' /\ InstancesAreEarned'
    BY <1>1 DEF IInv, JobsAreLaunched, InstancesAreEarned, Earned, Achieved, tower
  <1> QED
    BY <1>1, <1>4, <1>5, <1>6, <1>7 DEF IInv, Typed, tower

LEMMA SaveInstanceKeeps ==
  ASSUME IInv, NEW h \in Thread, ~At(h, "idle"), NEW s \in InstanceState, NEW point,
         Earned(Target(h), s), SaveInstance(h, s, point),
         point # "done" => Ready(Then(thread[h], point, Held(h)))
  PROVE  IInv'
  <1> DEFINE next == Then(thread[h], point, Held(h))
  <1>1. UNCHANGED <<row, task, queue, tower>> /\ JobsGrow
    BY SameJobsGrow DEF SaveInstance
  <1>2. Target(h) \in Instance /\ Ready(Idle) /\ thread \in [Thread -> Record]
    BY ActiveIsSound, IdleIsReady, ConstantsAssumption DEF Ready, Target, IInv, Typed
  <1>4. \/ thread' = [thread EXCEPT ![h] = Idle]
        \/ point # "done" /\ thread' = [thread EXCEPT ![h] = next]
    BY <1>2 DEF SaveInstance, Hold, End, Then
  <1>5. thread' \in [Thread -> Record] /\ ThreadsAreSound'
    BY <1>1, <1>2, <1>4, ReadyLater, OneThreadMoves DEF IInv
  <1>6. /\ instState' \in [Instance -> InstanceState]
        /\ \A i \in Instance : Earned(i, instState'[i])
    BY <1>2 DEF SaveInstance, IInv, Typed, InstancesAreEarned
  <1>7. InstancesAreEarned'
    BY <1>1, <1>6 DEF InstancesAreEarned, Earned, Achieved, tower
  <1>8. JobsAreLaunched' /\ RowsAreEarned'
    BY <1>1 DEF IInv, JobsAreLaunched, RowsAreEarned, RowIsEarned, tower
  <1> QED
    BY <1>1, <1>5, <1>6, <1>7, <1>8 DEF IInv, Typed, tower

(* The tables stay, and a thread reads, is told, or ends. *)
LEMMA ThreadStepKeeps ==
  ASSUME IInv, NEW h \in Thread, NEW th, Ready(th),
         thread' = [thread EXCEPT ![h] = th], UNCHANGED <<tables, tower>>,
         queue' \in [Request -> 0..MaxMsg]
  PROVE  IInv'
  <1>1. thread' \in [Thread -> Record] /\ ThreadsAreSound'
    BY ReadyLater, SameJobsGrow, OneThreadMoves DEF IInv
  <1>2. JobsAreLaunched' /\ RowsAreEarned' /\ InstancesAreEarned'
    BY DEF IInv, JobsAreLaunched, RowsAreEarned, RowIsEarned, InstancesAreEarned, Earned, Achieved,
           tables, tower
  <1> QED
    BY <1>1, <1>2 DEF IInv, Typed, tables, tower

LEMMA QueueKeeps ==
  ASSUME IInv, UNCHANGED <<tables, tower, thread>>, queue' \in [Request -> 0..MaxMsg]
  PROVE  IInv'
  <1>1. JobsAreLaunched' /\ RowsAreEarned' /\ InstancesAreEarned'
    BY DEF IInv, JobsAreLaunched, RowsAreEarned, RowIsEarned, InstancesAreEarned, Earned, Achieved,
           tables, tower
  <1>2. thread' \in [Thread -> Record] /\ ThreadsAreSound'
    BY SameJobsGrow, ThreadsStay DEF IInv
  <1> QED
    BY <1>1, <1>2 DEF IInv, Typed, tables, tower

LEMMA ReadInstanceKeeps ==
  ASSUME IInv, NEW h \in Thread, ~At(h, "idle"), NEW states, NEW point, ReadInstance(h, states, point),
         instState[Target(h)] \in states =>
             Ready(Saw(thread[h], point, instState[Target(h)]))
  PROVE  IInv'
  <1>1. Ready(Idle) /\ thread \in [Thread -> Record] /\ queue' \in [Request -> 0..MaxMsg]
    BY IdleIsReady DEF Ready, IInv, Typed, ReadInstance
  <1>2. CASE instState[Target(h)] \in states
    <2>1. thread' = [thread EXCEPT ![h] = Saw(thread[h], point, instState[Target(h)])]
      BY <1>1, <1>2 DEF ReadInstance, Saw
    <2> QED
      BY <1>1, <1>2, <2>1, ThreadStepKeeps DEF ReadInstance
  <1>3. CASE instState[Target(h)] \notin states
    BY <1>1, <1>3, ThreadStepKeeps DEF ReadInstance, End
  <1> QED
    BY <1>2, <1>3

-----------------------------------------------------------------------------
(* IInv is kept by the views of administrators. *)

LEMMA TargetsAreEarned ==
  ASSUME IInv, NEW h \in Thread, ~At(h, "idle")
  PROVE  /\ Target(h) = InstanceOf[thread[h].request] /\ Kind(h) = TypeOf[thread[h].request]
         /\ Target(h) \in Instance /\ Kind(h) \in Type
         /\ instState[Target(h)] \in InstanceState /\ Earned(Target(h), instState[Target(h)])
  BY ActiveIsSound, ConstantsAssumption DEF Target, Kind, Own, IInv, Typed, InstancesAreEarned

LEMMA LoadKeeps ==
  ASSUME IInv, NEW h \in Thread, NEW r \in Request, NEW goal \in Goal \cup {None},
         NEW point \in {"permission", "ask"}, Load(h, r, goal, point), UNCHANGED <<tables, tower>>,
         queue' \in [Request -> 0..MaxMsg],
         point = "permission" => goal \in Goal, point = "ask" => row[r].job # 0
  PROVE  IInv'
  <1> DEFINE new == [Idle EXCEPT !.at = point, !.request = r, !.goal = goal, !.row = row[r]]
  <1>1. row[r] \in RequestRow /\ RowIsEarned(row[r], r)
    BY DEF IInv, Typed, RowsAreEarned
  <1>2. /\ new \in Record /\ new.at = point /\ new.request = r /\ new.goal = goal
        /\ new.row = row[r] /\ new.launched = 0
    <2>1. point \in Point
      BY DEF WebPoint, WorkerPoint, Point
    <2> QED
      BY <1>1, <2>1, IdleIsReady DEF Record
  <1> HIDE DEF new
  <1>3. Sound(new)
    BY <1>1, <1>2 DEF Sound, WebPoint
  <1>4. Ready(new) /\ thread' = [thread EXCEPT ![h] = new]
    BY <1>2, <1>3 DEF Ready, Load, new
  <1> QED
    BY <1>4, ThreadStepKeeps

LEMMA BeginKeeps ==
  ASSUME IInv, NEW h \in Web, NEW r \in Request, NEW goal \in Goal, Begin(h, r, goal)
  PROVE  IInv'
  BY LoadKeeps DEF Begin, Thread, IInv, Typed

LEMMA CheckPermissionKeeps ==
  ASSUME IInv, NEW h \in Thread, CheckPermission(h)
  PROVE  IInv'
  <1> DEFINE s == instState[Target(h)]
             goal == thread[h].goal
             states == IF goal = "PROCESSING" THEN CanProcess \cap StartFrom[Kind(h)] ELSE InstanceState
  <1>1. ~At(h, "idle") /\ ReadInstance(h, states, goal)
    BY DEF CheckPermission, At
  <1>2. thread[h] \in Record /\ Sound(thread[h]) /\ goal \in Goal
    BY <1>1, ActiveIsSound DEF CheckPermission, At, Sound, WebPoint
  <1>3. goal \in {"PROCESSING", "ACCEPTED", "CANCELED", "REJECTED"}
    BY <1>2, ConstantsAssumption
  <1>4. ASSUME s \in states PROVE Ready(Saw(thread[h], goal, s))
    <2>1. s \in InstanceState /\ Earned(Target(h), s)
      BY <1>1, TargetsAreEarned
    <2> DEFINE new == Saw(thread[h], goal, s)
    <2>2. goal \in Point /\ goal # "idle"
      BY <1>3 DEF WebPoint, Point
    <2>5. /\ new \in Record /\ new.at = goal /\ new.inst = s /\ new.goal = goal
          /\ new.request = thread[h].request
          /\ new.row = thread[h].row /\ new.launched = thread[h].launched
      <3> HIDE DEF s
      <3> QED
        BY <1>2, <2>1, <2>2, SawFields
    <2>3. goal = "PROCESSING" => s \in StartFrom[TypeOf[thread[h].request]]
      BY <1>1, <1>4, TargetsAreEarned
    <2>4. Earned(InstanceOf[thread[h].request], s)
      BY <1>1, <2>1, TargetsAreEarned
    <2>6. Ready(new)
      <3> HIDE DEF s, goal, new
      <3> QED
        BY <1>2, <1>3, <2>1, <2>2, <2>3, <2>4, <2>5 DEF Ready, Sound
    <2> QED
      BY <2>6
  <1> QED
    BY <1>1, <1>4, ReadInstanceKeeps

(* A save of an object the handler already holds. *)
LEMMA HeldSaveKeeps ==
  ASSUME IInv, NEW h \in Thread, ~At(h, "idle"),
         NEW point \in {"done", "reset_instance", "launch", "save_last", "unschedule", "schedule"},
         Save(h, Held(h), point),
         thread[h].at \in WebPoint \/ point \in {"done", "unschedule"},
         point = "reset_instance" => At(h, "ACCEPTED"),
         point = "launch" => At(h, "save_started"),
         point = "schedule" => At(h, "save_launched") /\ thread[h].launched # 0
  PROVE  IInv'
  <1>1. thread[h] \in Record /\ Sound(thread[h]) /\ Held(h) \in RequestRow
        /\ Held(h) = thread[h].row /\ RowIsEarned(Held(h), Own(h))
    BY ActiveIsSound DEF Sound, Held, Own
  <1>2. ASSUME point # "done" PROVE Ready(Then(thread[h], point, Held(h)))
    <2>1. point \in Point /\ point # "idle"
      BY <1>2 DEF WebPoint, WorkerPoint, Point
    <2> DEFINE new == Then(thread[h], point, Held(h))
    <2>3. /\ new \in Record /\ new.at = point /\ new.row = thread[h].row
          /\ new.request = thread[h].request /\ new.goal = thread[h].goal
          /\ new.inst = thread[h].inst /\ new.launched = thread[h].launched
      BY <1>1, <2>1, ThenFields
    <2>4. Ready(new)
      <3> HIDE DEF new
      <3> QED
        BY <1>1, <1>2, <2>1, <2>3 DEF Ready, Sound, At, WebPoint
    <2> QED
      BY <2>4
  <1> QED
    BY <1>1, <1>2, SaveKeeps

(* The saves of try_process_request and of check_job_status. *)
LEMMA PlainSavesKeep ==
  ASSUME IInv, NEW h \in Thread,
         \/ SaveAnswers(h) \/ SaveStarted(h) \/ SaveLaunched(h) \/ SaveScheduled(h)
         \/ SaveLast(h) \/ SaveComplete(h) \/ SaveFailed(h)
  PROVE  IInv'
  <1>1. CASE SaveAnswers(h)
    BY <1>1, HeldSaveKeeps DEF SaveAnswers, At, WebPoint
  <1>2. CASE SaveStarted(h)
    BY <1>2, HeldSaveKeeps DEF SaveStarted, At, WebPoint
  <1>3. CASE SaveLaunched(h)
    <2>1. CASE thread[h].launched = 0
      BY <1>3, <2>1, HeldSaveKeeps DEF SaveLaunched, At, WebPoint
    <2>2. CASE thread[h].launched # 0
      BY <1>3, <2>2, HeldSaveKeeps DEF SaveLaunched, At, WebPoint
    <2> QED
      BY <2>1, <2>2
  <1>4. CASE SaveScheduled(h)
    BY <1>4, HeldSaveKeeps DEF SaveScheduled, At, WebPoint
  <1>5. CASE SaveLast(h)
    BY <1>5, HeldSaveKeeps DEF SaveLast, At
  <1>6. CASE SaveComplete(h)
    BY <1>6, HeldSaveKeeps DEF SaveComplete, At
  <1>7. CASE SaveFailed(h)
    BY <1>7, HeldSaveKeeps DEF SaveFailed, At
  <1> QED
    BY <1>1, <1>2, <1>3, <1>4, <1>5, <1>6, <1>7

LEMMA SaveGoalKeeps ==
  ASSUME IInv, NEW h \in Thread, SaveGoal(h)
  PROVE  IInv'
  <1> DEFINE object == [Held(h) EXCEPT !.state = thread[h].goal]
  <1>1. ~At(h, "idle") /\ Save(h, object, "done") /\ thread[h].at = "save_goal"
    BY DEF SaveGoal, At
  <1>2. Held(h) \in RequestRow /\ RowIsEarned(Held(h), Own(h)) /\ thread[h].goal \in Goal
    BY <1>1, ActiveIsSound DEF Sound, Held, Own, WebPoint
  <1>3. thread[h].goal \in RequestState /\ thread[h].goal # "COMPLETE"
    BY <1>2, ConstantsAssumption DEF RequestState
  <1>4. object \in RequestRow /\ RowIsEarned(object, Own(h))
    BY <1>2, <1>3 DEF RequestRow, RowIsEarned
  <1> HIDE DEF object
  <1> QED
    BY <1>1, <1>4, SaveKeeps

(* A save of the instance by a thread that goes on with the same objects. *)
LEMMA HeldInstanceKeeps ==
  ASSUME IInv, NEW h \in Thread, ~At(h, "idle"), NEW s \in InstanceState,
         NEW point \in {"done", "save_goal", "save_started", "save_failed"},
         Earned(Target(h), s), SaveInstance(h, s, point),
         thread[h].at \in WebPoint \/ point \in {"done", "save_failed"},
         point = "save_started" => s = Busy[Kind(h)]
  PROVE  IInv'
  <1>1. thread[h] \in Record /\ Sound(thread[h]) /\ Held(h) \in RequestRow
        /\ Held(h) = thread[h].row
    BY ActiveIsSound DEF Held
  <1>2. Target(h) = InstanceOf[thread[h].request] /\ Kind(h) = TypeOf[thread[h].request]
    BY TargetsAreEarned
  <1>3. ASSUME point # "done" PROVE Ready(Then(thread[h], point, Held(h)))
    <2> DEFINE new == Then(thread[h], point, Held(h))
    <2>1. point \in Point /\ point # "idle"
      BY <1>3 DEF WebPoint, WorkerPoint, Point
    <2>2. /\ new \in Record /\ new.at = point /\ new.row = thread[h].row
          /\ new.request = thread[h].request /\ new.goal = thread[h].goal
          /\ new.inst = thread[h].inst /\ new.launched = thread[h].launched
      BY <1>1, <2>1, ThenFields
    <2>3. Ready(new)
      <3> HIDE DEF new
      <3> QED
        BY <1>1, <1>2, <1>3, <2>1, <2>2 DEF Ready, Sound, WebPoint
    <2> QED
      BY <2>3
  <1> QED
    BY <1>1, <1>3, SaveInstanceKeeps

LEMMA StatesOfInstances ==
  /\ \A k \in Type : /\ Busy[k] \in InstanceState /\ FailedState[k] \in InstanceState
                     /\ SuccessState[k] \in InstanceState
  /\ \A s \in InstanceState : LastStable(s) \in InstanceState
  BY DEF Type, Busy, FailedState, SuccessState, InstanceState, LastStable

(* A reset, a start and a failure claim no more than the state they start from. *)
LEMMA ClaimsNoMore ==
  ASSUME NEW i, NEW s \in InstanceState, NEW k \in Type, Earned(i, s)
  PROVE  /\ Earned(i, LastStable(s))
         /\ s \in StartFrom[k] => Earned(i, Busy[k])
         /\ s = Busy[k] => Earned(i, FailedState[k])
  BY DEF Earned, AfterDelivery, LastStable, StartFrom, Busy, FailedState, Type, InstanceState

LEMMA InstanceSavesKeep ==
  ASSUME IInv, NEW h \in Thread,
         ResetInstance(h) \/ AbortInstance(h) \/ StartInstance(h) \/ SaveFailure(h)
  PROVE  IInv'
  <1>1. CASE ResetInstance(h)
    <2>1. /\ ~At(h, "idle") /\ thread[h].at \in WebPoint
          /\ SaveInstance(h, LastStable(thread[h].inst), "save_goal")
      BY <1>1 DEF ResetInstance, At, WebPoint
    <2>2. thread[h].inst \in InstanceState /\ Earned(Target(h), thread[h].inst)
      BY <1>1, <2>1, ActiveIsSound, TargetsAreEarned DEF ResetInstance, At, Sound
    <2>3. /\ LastStable(thread[h].inst) \in InstanceState
          /\ Earned(Target(h), LastStable(thread[h].inst))
      BY <2>1, <2>2, ClaimsNoMore, StatesOfInstances, TargetsAreEarned
    <2> QED
      BY <2>1, <2>3, HeldInstanceKeeps
  <1>2. CASE AbortInstance(h)
    <2>1. ~At(h, "idle") /\ thread[h].at \in WebPoint
      BY <1>2 DEF AbortInstance, At, WebPoint
    <2>2. CASE SaveInstance(h, "ABORTED", "save_goal")
      <3>1. "ABORTED" \in InstanceState /\ Earned(Target(h), "ABORTED")
        BY DEF InstanceState, Earned, AfterDelivery
      <3> QED
        BY <2>1, <2>2, <3>1, HeldInstanceKeeps
    <2>3. CASE Hold(h, "save_goal", Held(h)) /\ UNCHANGED <<tables, queue, tower>>
      <3> DEFINE new == Then(thread[h], "save_goal", Held(h))
      <3>1. thread[h] \in Record /\ Sound(thread[h]) /\ Held(h) \in RequestRow
            /\ Held(h) = thread[h].row
        BY <2>1, ActiveIsSound DEF Held
      <3>2. "save_goal" \in Point
        BY DEF WebPoint, Point
      <3>3. /\ new \in Record /\ new.at = "save_goal" /\ new.row = thread[h].row
            /\ new.request = thread[h].request /\ new.goal = thread[h].goal
            /\ new.inst = thread[h].inst /\ new.launched = thread[h].launched
        BY <3>1, <3>2, ThenFields
      <3>4. thread' = [thread EXCEPT ![h] = new]
        BY <2>3 DEF Hold, Then, IInv, Typed
      <3> HIDE DEF new
      <3>5. Ready(new)
        BY <2>1, <3>1, <3>3 DEF Ready, Sound
      <3> QED
        BY <2>3, <3>4, <3>5, ThreadStepKeeps DEF IInv, Typed
    <2> QED
      BY <1>2, <2>2, <2>3 DEF AbortInstance
  <1>3. CASE StartInstance(h)
    <2>1. /\ ~At(h, "idle") /\ thread[h].at \in WebPoint
          /\ SaveInstance(h, Busy[Kind(h)], "save_started")
      BY <1>3 DEF StartInstance, At, WebPoint
    <2>2. /\ thread[h].inst \in InstanceState /\ Earned(Target(h), thread[h].inst)
          /\ thread[h].inst \in StartFrom[Kind(h)]
      BY <1>3, <2>1, ActiveIsSound, TargetsAreEarned DEF StartInstance, At, Sound
    <2>3. Busy[Kind(h)] \in InstanceState /\ Earned(Target(h), Busy[Kind(h)])
      BY <2>1, <2>2, ClaimsNoMore, StatesOfInstances, TargetsAreEarned
    <2> QED
      BY <2>1, <2>3, HeldInstanceKeeps
  <1>4. CASE SaveFailure(h)
    <2>1. ~At(h, "idle") /\ SaveInstance(h, FailedState[Kind(h)], "save_failed")
      BY <1>4 DEF SaveFailure, At
    <2>2. /\ thread[h].inst \in InstanceState /\ Earned(Target(h), thread[h].inst)
          /\ thread[h].inst = Busy[Kind(h)]
      BY <1>4, <2>1, ActiveIsSound, TargetsAreEarned DEF SaveFailure, At, Sound
    <2>3. FailedState[Kind(h)] \in InstanceState /\ Earned(Target(h), FailedState[Kind(h)])
      BY <2>1, <2>2, ClaimsNoMore, StatesOfInstances, TargetsAreEarned
    <2> QED
      BY <2>1, <2>3, HeldInstanceKeeps
  <1> QED
    BY <1>1, <1>2, <1>3, <1>4

(* The job that was launched has an owner from now on. *)
LEMMA LaunchKeeps ==
  ASSUME IInv, NEW h \in Thread, Launch(h)
  PROVE  IInv'
  <1> DEFINE j == lastJob + 1
             next == [thread[h] EXCEPT !.at = "save_launched", !.row.state = "PROCESSING",
                                       !.launched = j]
  <1>1. thread[h] \in Record /\ Sound(thread[h]) /\ Own(h) \in Request /\ Own(h) = thread[h].request
        /\ thread[h].row \in RequestRow /\ thread[h].at = "launch"
    BY ActiveIsSound DEF Launch, At, Sound, Own
  <1>2. j \in Job /\ j \in 0..MaxJob /\ j # 0 /\ lastJob \in Nat
    BY ConstantsAssumption DEF Launch, IInv, Typed, Job
  <1>3. /\ \A k \in Job : /\ k # j => jobStatus'[k] = jobStatus[k] /\ jobOwner'[k] = jobOwner[k]
                          /\ k = j => jobStatus'[k] = "running" /\ jobOwner'[k] = Own(h)
        /\ jobStatus[j] = "none" /\ jobOwner[j] = None
        /\ jobStatus' \in [Job -> JobStatus] /\ jobOwner' \in [Job -> Request \cup {None}]
        /\ lastJob' = j /\ lastJob' \in 0..MaxJob
    BY <1>1, <1>2 DEF Launch, IInv, Typed, JobsAreLaunched, JobStatus
  <1>4. JobsGrow
    BY <1>3, ConstantsAssumption DEF JobsGrow
  <1>5. /\ next \in Record /\ next.at = "save_launched" /\ next.request = thread[h].request
        /\ next.goal = thread[h].goal /\ next.launched = j
        /\ next.row = [thread[h].row EXCEPT !.state = "PROCESSING"]
    <2>1. [thread[h].row EXCEPT !.state = "PROCESSING"] \in RequestRow
      BY <1>1 DEF RequestRow, RequestState
    <2>2. "save_launched" \in Point
      BY DEF WebPoint, Point
    <2> HIDE DEF j
    <2> QED
      BY <1>1, <1>2, <2>1, <2>2 DEF Record
  <1>6. /\ next.row \in RequestRow /\ next.row.state = "PROCESSING"
        /\ next.row.job = thread[h].row.job
    BY <1>1, <1>5 DEF RequestRow, RequestState
  <1>7. thread' = [thread EXCEPT ![h] = next]
    BY DEF Launch, IInv, Typed
  <1> HIDE DEF next
  <1>14. PICK new, held, q : new = next /\ held = thread[h].row /\ q = Own(h)
    OBVIOUS
  <1>8. RowIsEarned(held, q)'
    BY <1>1, <1>4, <1>14, RowStays DEF Sound, IInv
  <1>9. Ready(new)'
    <2>2. RowIsEarned(new.row, q)'
      BY <1>6, <1>8, <1>14 DEF RowIsEarned
    <2>3. jobOwner'[new.launched] = q /\ new.request = q /\ q \in Request /\ new.launched # 0
      BY <1>1, <1>2, <1>3, <1>5, <1>14
    <2>4. new.goal \in Goal
      BY <1>1, <1>5, <1>14 DEF Sound, WebPoint
    <2>1. Sound(new)'
      BY <1>5, <1>6, <1>14, <2>2, <2>3, <2>4 DEF Sound
    <2> QED
      BY <1>5, <1>14, <2>1 DEF Ready
  <1>10. thread' \in [Thread -> Record] /\ ThreadsAreSound'
    BY <1>4, <1>7, <1>9, <1>14, OneThreadMoves DEF IInv
  <1>11. RowsAreEarned'
    <2>1. \A r \in Request : row'[r] = row[r] /\ row[r] \in RequestRow /\ RowIsEarned(row[r], r)
      BY DEF Launch, tables, IInv, Typed, RowsAreEarned
    <2>2. \A r \in Request : RowIsEarned(row[r], r)'
      BY <1>4, <2>1, RowStays DEF IInv, RowsAreEarned, Launch, tables
    <2> QED
      BY <2>1, <2>2 DEF RowsAreEarned
  <1>12. InstancesAreEarned'
    BY <1>4, EarnedStays DEF IInv, InstancesAreEarned, Launch, tables
  <1>13. JobsAreLaunched'
    BY <1>1, <1>2, <1>3, ConstantsAssumption DEF IInv, Typed, JobsAreLaunched, Job
  <1> QED
    BY <1>3, <1>10, <1>11, <1>12, <1>13 DEF IInv, Typed, Launch, tables

LEMMA JobEndsKeeps ==
  ASSUME IInv, NEW j \in Job, JobEnds(j)
  PROVE  IInv'
  <1>1. PICK status \in {"successful", "failed", "canceled"} :
            jobStatus' = [jobStatus EXCEPT ![j] = status]
    BY DEF JobEnds
  <1>2. JobsGrow /\ jobStatus' \in [Job -> JobStatus] /\ JobsAreLaunched'
    BY <1>1 DEF JobEnds, JobsGrow, IInv, Typed, JobStatus, JobsAreLaunched
  <1>3. thread' \in [Thread -> Record] /\ ThreadsAreSound'
    BY <1>2, ThreadsStay DEF IInv, JobEnds
  <1>4. RowsAreEarned'
    <2>1. \A r \in Request : RowIsEarned(row[r], r)'
      BY <1>2, RowStays DEF IInv, Typed, RowsAreEarned, JobEnds, tables
    <2> QED
      BY <2>1 DEF RowsAreEarned
  <1>5. InstancesAreEarned'
    BY <1>2, EarnedStays DEF IInv, InstancesAreEarned, JobEnds, tables
  <1> QED
    BY <1>2, <1>3, <1>4, <1>5 DEF IInv, Typed, JobEnds, tables

(* A thread that replaces its object, and leaves the tables alone but for the task. *)
LEMMA ThenIsReady ==
  ASSUME IInv, NEW h \in Thread, ~At(h, "idle"), NEW object \in RequestRow,
         RowIsEarned(object, Own(h)),
         NEW point \in {"save_launched", "save_scheduled", "save_complete", "has_failed", "success"},
         thread[h].at \in WebPoint \/ point \in WorkerPoint,
         point = "save_launched" => object.state # "COMPLETE",
         point \in {"save_complete", "success"} => object.state = "COMPLETE"
  PROVE  Ready(Then(thread[h], point, object))
  <1> DEFINE new == Then(thread[h], point, object)
  <1>1. thread[h] \in Record /\ Sound(thread[h]) /\ Own(h) = thread[h].request
    BY ActiveIsSound DEF Own
  <1>2. point \in Point /\ point # "idle"
    BY DEF WebPoint, WorkerPoint, Point
  <1>3. /\ new \in Record /\ new.at = point /\ new.row = object
        /\ new.request = thread[h].request /\ new.goal = thread[h].goal
        /\ new.inst = thread[h].inst /\ new.launched = thread[h].launched
    BY <1>1, <1>2, ThenFields
  <1>4. Ready(new)
    <2> HIDE DEF new
    <2> QED
      BY <1>1, <1>2, <1>3 DEF Ready, Sound, WebPoint, WorkerPoint
  <1> QED
    BY <1>4

LEMMA LaunchFailsKeeps ==
  ASSUME IInv, NEW h \in Thread, LaunchFails(h)
  PROVE  IInv'
  <1> DEFINE object == [Held(h) EXCEPT !.state = "FAILED"]
             new == Then(thread[h], "save_launched", object)
             s == FailedState[Kind(h)]
  <1>1. /\ ~At(h, "idle") /\ thread[h].at \in WebPoint /\ thread[h].at = "launch"
        /\ Target(h) \in Instance
    BY TargetsAreEarned DEF LaunchFails, At, WebPoint
  <1>2. Held(h) \in RequestRow /\ RowIsEarned(Held(h), Own(h))
    BY <1>1, ActiveIsSound DEF Sound, Held, Own
  <1>3. object \in RequestRow /\ RowIsEarned(object, Own(h)) /\ object.state = "FAILED"
    BY <1>2 DEF RequestRow, RequestState, RowIsEarned
  <1>4. thread' = [thread EXCEPT ![h] = new]
    BY DEF LaunchFails, Hold, Then, IInv, Typed
  <1>5. Ready(new)
    <2> HIDE DEF object
    <2> QED
      BY <1>1, <1>3, ThenIsReady
  <1>6. s \in InstanceState /\ Earned(Target(h), s)
    <2>1. Earned(Target(h), Busy[Kind(h)])
      BY <1>1, ActiveIsSound, TargetsAreEarned DEF Sound
    <2> QED
      BY <1>1, <2>1, ClaimsNoMore, StatesOfInstances, TargetsAreEarned
  <1> HIDE DEF new, s
  <1>7. thread' \in [Thread -> Record] /\ ThreadsAreSound'
    BY <1>4, <1>5, ReadyLater, SameJobsGrow, OneThreadMoves DEF IInv, LaunchFails
  <1>8. /\ instState' \in [Instance -> InstanceState]
        /\ \A i \in Instance : Earned(i, instState'[i])
    BY <1>1, <1>6 DEF LaunchFails, IInv, Typed, InstancesAreEarned, s
  <1>9. JobsAreLaunched' /\ RowsAreEarned' /\ InstancesAreEarned'
    BY <1>8 DEF LaunchFails, IInv, JobsAreLaunched, RowsAreEarned, RowIsEarned, InstancesAreEarned,
                Earned, Achieved, tower
  <1> QED
    BY <1>7, <1>8, <1>9 DEF LaunchFails, IInv, Typed, tower

(* The task of a request changes, and its row at most in the task. *)
LEMMA TaskStepKeeps ==
  ASSUME IInv, NEW h \in Thread, NEW th, Ready(th), thread' = [thread EXCEPT ![h] = th],
         task' \in [Request -> 0..MaxJob], row' \in [Request -> RequestRow],
         \A r \in Request : row'[r].state = row[r].state /\ row'[r].job = row[r].job,
         UNCHANGED <<instState, queue, tower>>
  PROVE  IInv'
  <1>1. thread' \in [Thread -> Record] /\ ThreadsAreSound'
    BY ReadyLater, SameJobsGrow, OneThreadMoves DEF IInv
  <1>2. JobsAreLaunched' /\ RowsAreEarned' /\ InstancesAreEarned'
    BY DEF IInv, JobsAreLaunched, RowsAreEarned, RowIsEarned, InstancesAreEarned, Earned, Achieved,
           tower
  <1> QED
    BY <1>1, <1>2 DEF IInv, Typed, tower

LEMMA ScheduleKeeps ==
  ASSUME IInv, NEW h \in Thread, Schedule(h)
  PROVE  IInv'
  <1> DEFINE j == thread[h].launched
             object == [Held(h) EXCEPT !.job = j, !.task = j]
             new == Then(thread[h], "save_scheduled", object)
  <1>1. /\ ~At(h, "idle") /\ thread[h].at \in WebPoint /\ thread[h].at = "schedule"
    BY DEF Schedule, At, WebPoint
  <1>2. /\ thread[h] \in Record /\ Own(h) \in Request /\ Held(h) \in RequestRow
        /\ RowIsEarned(Held(h), Own(h)) /\ j # 0 /\ jobOwner[j] = Own(h)
        /\ Held(h).state # "COMPLETE"
    BY <1>1, ActiveIsSound DEF Sound, Held, Own
  <1>3. j \in 0..MaxJob
    BY <1>2 DEF Record
  <1>4. object \in RequestRow /\ RowIsEarned(object, Own(h))
    <2> HIDE DEF j
    <2>1. object \in RequestRow /\ object.job = j /\ object.state = Held(h).state
      BY <1>2, <1>3 DEF RequestRow
    <2> QED
      BY <1>2, <2>1 DEF RowIsEarned
  <1>5. Ready(new) /\ Ready(Idle)
    <2> HIDE DEF object
    <2> QED
      BY <1>1, <1>4, ThenIsReady, IdleIsReady DEF Ready
  <1>6. \/ thread' = [thread EXCEPT ![h] = new]
        \/ thread' = [thread EXCEPT ![h] = Idle]
    BY DEF Schedule, Hold, End, Then, IInv, Typed
  <1>7. task' \in [Request -> 0..MaxJob]
    BY <1>2, <1>3 DEF Schedule, IInv, Typed
  <1> HIDE DEF new
  <1> QED
    BY <1>5, <1>6, <1>7, TaskStepKeeps DEF Schedule, IInv, Typed

LEMMA UnscheduleKeeps ==
  ASSUME IInv, NEW h \in Thread, Unschedule(h)
  PROVE  IInv'
  <1> DEFINE new == Then(thread[h], "success", Held(h))
             r == Own(h)
  <1>1. ~At(h, "idle") /\ thread[h].at = "unschedule"
    BY DEF Unschedule, At
  <1>2. /\ thread[h] \in Record /\ r \in Request /\ Held(h) \in RequestRow
        /\ RowIsEarned(Held(h), Own(h))
    BY <1>1, ActiveIsSound DEF Sound, Held, Own
  <1>3. Ready(Idle) /\ (Held(h).state = "COMPLETE" => Ready(new))
    BY <1>1, <1>2, ThenIsReady, IdleIsReady DEF Ready, WorkerPoint
  <1>4. \/ Held(h).state = "COMPLETE" /\ thread' = [thread EXCEPT ![h] = new]
        \/ thread' = [thread EXCEPT ![h] = Idle]
    BY DEF Unschedule, Hold, End, Then, IInv, Typed
  <1>5. task' \in [Request -> 0..MaxJob]
    BY <1>2, ConstantsAssumption DEF Unschedule, IInv, Typed
  <1>6. /\ row' \in [Request -> RequestRow]
        /\ \A q \in Request : row'[q].state = row[q].state /\ row'[q].job = row[q].job
    <2>1. CASE row' = row
      BY <2>1 DEF IInv, Typed
    <2>2. CASE row' = [row EXCEPT ![r].task = IF @ = task[r] THEN 0 ELSE @]
      <3> DEFINE t == IF row[r].task = task[r] THEN 0 ELSE row[r].task
      <3>1. t \in 0..MaxJob /\ row[r] \in RequestRow
        BY <1>2, ConstantsAssumption DEF IInv, Typed, RequestRow
      <3>2. row' = [row EXCEPT ![r] = [row[r] EXCEPT !.task = t]]
        BY <1>2, <2>2 DEF IInv, Typed
      <3> HIDE DEF t
      <3>3. /\ [row[r] EXCEPT !.task = t] \in RequestRow
            /\ [row[r] EXCEPT !.task = t].state = row[r].state
            /\ [row[r] EXCEPT !.task = t].job = row[r].job
        BY <3>1 DEF RequestRow
      <3> QED
        BY <1>2, <3>2, <3>3 DEF IInv, Typed
    <2> QED
      BY <2>1, <2>2 DEF Unschedule
  <1> HIDE DEF new, r
  <1> QED
    BY <1>3, <1>4, <1>5, <1>6, TaskStepKeeps DEF Unschedule

-----------------------------------------------------------------------------
(* IInv is kept by the worker and by the environment. *)

LEMMA BeginCheckKeeps ==
  ASSUME IInv, NEW h \in Thread, NEW r \in Request, BeginCheck(h, r)
  PROVE  IInv'
  <1>1. queue' \in [Request -> 0..MaxMsg]
    BY ConstantsAssumption DEF BeginCheck, IInv, Typed
  <1>2. CASE row[r].job = 0
    BY <1>1, <1>2, QueueKeeps DEF BeginCheck
  <1>3. CASE row[r].job # 0
    BY <1>1, <1>3, LoadKeeps DEF BeginCheck
  <1> QED
    BY <1>2, <1>3

(* The job of the object is a job of its request, and a success is read from RHAAP/AWX. *)
LEMMA AskTowerKeeps ==
  ASSUME IInv, NEW h \in Thread, AskTower(h)
  PROVE  IInv'
  <1> DEFINE status == jobStatus[Held(h).job]
             completed == [Held(h) EXCEPT !.state = "COMPLETE"]
             failed == [Held(h) EXCEPT !.state = "FAILED"]
  <1>1. ~At(h, "idle") /\ UNCHANGED <<tables, queue, tower>>
        /\ thread \in [Thread -> Record] /\ queue' \in [Request -> 0..MaxMsg]
    BY DEF AskTower, At, IInv, Typed
  <1>2. /\ Held(h) \in RequestRow /\ RowIsEarned(Held(h), Own(h)) /\ Held(h).job # 0
    BY <1>1, ActiveIsSound DEF AskTower, At, Sound, Held, Own
  <1>3. CASE status = "successful" /\ Hold(h, "save_complete", completed)
    <2>1. completed \in RequestRow /\ RowIsEarned(completed, Own(h)) /\ completed.state = "COMPLETE"
      BY <1>2, <1>3 DEF RequestRow, RequestState, RowIsEarned
    <2>2. thread' = [thread EXCEPT ![h] = Then(thread[h], "save_complete", completed)]
      BY <1>1, <1>3 DEF Hold, Then
    <2> HIDE DEF completed
    <2>3. Ready(Then(thread[h], "save_complete", completed))
      BY <1>1, <2>1, ThenIsReady DEF WorkerPoint
    <2> QED
      BY <1>1, <2>2, <2>3, ThreadStepKeeps
  <1>4. CASE Hold(h, "has_failed", failed)
    <2>1. failed \in RequestRow /\ RowIsEarned(failed, Own(h))
      BY <1>2 DEF RequestRow, RequestState, RowIsEarned
    <2>2. thread' = [thread EXCEPT ![h] = Then(thread[h], "has_failed", failed)]
      BY <1>1, <1>4 DEF Hold, Then
    <2> HIDE DEF failed
    <2>3. Ready(Then(thread[h], "has_failed", failed))
      BY <1>1, <2>1, ThenIsReady DEF WorkerPoint
    <2> QED
      BY <1>1, <2>2, <2>3, ThreadStepKeeps
  <1>5. CASE End(h)
    BY <1>1, <1>5, IdleIsReady, ThreadStepKeeps DEF End, Ready
  <1> QED
    BY <1>3, <1>4, <1>5 DEF AskTower

LEMMA ReadForSuccessKeeps ==
  ASSUME IInv, NEW h \in Thread, ReadForSuccess(h)
  PROVE  IInv'
  <1> DEFINE s == instState[Target(h)]
             new == Saw(thread[h], "save_success", s)
  <1>1. ~At(h, "idle") /\ ReadInstance(h, SuccessFrom[Kind(h)], "save_success")
        /\ thread[h].at = "success"
    BY DEF ReadForSuccess, At
  <1>2. thread[h] \in Record /\ Sound(thread[h]) /\ s \in InstanceState
    BY <1>1, ActiveIsSound, TargetsAreEarned
  <1>3. "save_success" \in Point
    BY DEF WorkerPoint, Point
  <1>4. /\ new \in Record /\ new.at = "save_success" /\ new.inst = s
        /\ new.goal = thread[h].goal /\ new.request = thread[h].request
        /\ new.row = thread[h].row /\ new.launched = thread[h].launched
    <2> HIDE DEF s
    <2> QED
      BY <1>2, <1>3, SawFields
  <1>5. Ready(new)
    <2> HIDE DEF s, new
    <2> QED
      BY <1>1, <1>2, <1>4 DEF Ready, Sound, WebPoint
  <1> QED
    BY <1>1, <1>5, ReadInstanceKeeps

LEMMA ReadForFailureKeeps ==
  ASSUME IInv, NEW h \in Thread, ReadForFailure(h)
  PROVE  IInv'
  <1> DEFINE s == instState[Target(h)]
             new == Saw(thread[h], "save_failure", s)
  <1>1. ~At(h, "idle") /\ ReadInstance(h, {Busy[Kind(h)]}, "save_failure")
    BY DEF ReadForFailure, At
  <1>2. /\ thread[h] \in Record /\ Sound(thread[h]) /\ s \in InstanceState
        /\ Target(h) = InstanceOf[thread[h].request] /\ Kind(h) = TypeOf[thread[h].request]
        /\ Earned(Target(h), s)
    BY <1>1, ActiveIsSound, TargetsAreEarned
  <1>3. "save_failure" \in Point
    BY DEF WorkerPoint, Point
  <1>4. /\ new \in Record /\ new.at = "save_failure" /\ new.inst = s
        /\ new.goal = thread[h].goal /\ new.request = thread[h].request
        /\ new.row = thread[h].row /\ new.launched = thread[h].launched
    <2> HIDE DEF s
    <2> QED
      BY <1>2, <1>3, SawFields
  <1>5. s \in {Busy[Kind(h)]} => Ready(new)
    <2> HIDE DEF s, new
    <2> QED
      BY <1>1, <1>2, <1>4 DEF Ready, Sound, WebPoint
  <1> QED
    BY <1>1, <1>5, ReadInstanceKeeps

(* The instance gets the outcome of the success the worker has seen. *)
LEMMA SaveSuccessKeeps ==
  ASSUME IInv, NEW h \in Thread, SaveSuccess(h)
  PROVE  IInv'
  <1> DEFINE s == SuccessState[Kind(h)]
             j == thread[h].row.job
  <1>1. ~At(h, "idle") /\ SaveInstance(h, s, "done") /\ thread[h].at = "save_success"
    BY DEF SaveSuccess, At
  <1>2. Target(h) = InstanceOf[thread[h].request] /\ Kind(h) = TypeOf[thread[h].request]
        /\ Kind(h) \in Type
    BY <1>1, TargetsAreEarned
  <1>3. /\ thread[h].row \in RequestRow /\ j # 0 /\ jobStatus[j] = "successful"
        /\ jobOwner[j] = thread[h].request
    BY <1>1, ActiveIsSound DEF Sound, RowIsEarned
  <1>4. j \in Job
    BY <1>3, ConstantsAssumption DEF RequestRow, Job
  <1>5. Achieved(Target(h), s)
    BY <1>2, <1>3, <1>4 DEF Achieved
  <1>6. s \in InstanceState /\ s \in {"AVAILABLE", "DELETED"}
    BY <1>2 DEF Type, SuccessState, InstanceState
  <1> HIDE DEF s
  <1>7. Earned(Target(h), s)
    BY <1>5, <1>6 DEF Earned, AfterDelivery
  <1> QED
    BY <1>1, <1>6, <1>7, SaveInstanceKeeps

LEMMA EnvironmentKeeps ==
  ASSUME IInv, (\E h \in Thread : Crash(h)) \/ (\E r \in Request : BeatTick(r))
  PROVE  IInv'
  <1>1. ASSUME IInv, NEW h \in Thread, Crash(h) PROVE IInv'
    BY <1>1, IdleIsReady, ThreadStepKeeps DEF Crash, End, Ready, IInv, Typed
  <1>2. ASSUME IInv, NEW r \in Request, BeatTick(r) PROVE IInv'
    <2>1. queue' \in [Request -> 0..MaxMsg]
      BY <1>2, ConstantsAssumption DEF BeatTick, IInv, Typed
    <2> QED
      BY <1>2, <2>1, QueueKeeps DEF BeatTick
  <1> QED
    BY <1>1, <1>2

LEMMA IInvAtStart == Init => IInv
  <1> SUFFICES ASSUME Init PROVE IInv
    OBVIOUS
  <1>1. Typed
    <2>1. \A r \in Request : row[r] \in RequestRow
      BY ConstantsAssumption DEF Init, RequestRow, RequestState
    <2>2. instState \in [Instance -> InstanceState]
      BY ConstantsAssumption DEF Init, InstanceState
    <2>3. thread \in [Thread -> Record]
      BY IdleIsReady DEF Init
    <2> QED
      BY <2>1, <2>2, <2>3, ConstantsAssumption DEF Init, Typed, JobStatus, Job
  <1>2. JobsAreLaunched
    BY DEF Init, JobsAreLaunched, Job
  <1>3. ThreadsAreSound
    BY IdleIsReady DEF Init, ThreadsAreSound, At
  <1>4. RowsAreEarned
    BY DEF Init, RowsAreEarned, RowIsEarned
  <1>5. InstancesAreEarned
    BY ConstantsAssumption DEF Init, InstancesAreEarned, Earned, AfterDelivery
  <1> QED
    BY <1>1, <1>2, <1>3, <1>4, <1>5 DEF IInv

LEMMA WebStepsKeep ==
  ASSUME IInv, NEW h \in Web, WebStep(h)
  PROVE  IInv'
  <1>1. h \in Thread
    BY DEF Thread
  <1> QED
    BY <1>1, BeginKeeps, CheckPermissionKeeps, PlainSavesKeep, SaveGoalKeeps, InstanceSavesKeep,
       LaunchKeeps, LaunchFailsKeeps, ScheduleKeeps DEF WebStep

LEMMA WorkerStepsKeep ==
  ASSUME IInv, NEW h \in Worker, WorkerStep(h)
  PROVE  IInv'
  <1>1. h \in Thread
    BY DEF Thread
  <1> QED
    BY <1>1, BeginCheckKeeps, AskTowerKeeps, PlainSavesKeep, UnscheduleKeeps, ReadForSuccessKeeps,
       SaveSuccessKeeps, ReadForFailureKeeps, InstanceSavesKeep DEF WorkerStep

LEMMA IInvIsKept == IInv /\ [Next]_vars => IInv'
  <1> SUFFICES ASSUME IInv, [Next]_vars PROVE IInv'
    OBVIOUS
  <1>1. ASSUME NEW h \in Web, WebStep(h) PROVE IInv'
    BY <1>1, WebStepsKeep
  <1>2. ASSUME NEW h \in Worker, WorkerStep(h) PROVE IInv'
    BY <1>2, WorkerStepsKeep
  <1>3. ASSUME NEW h \in Thread, Crash(h) PROVE IInv'
    BY <1>3, EnvironmentKeeps
  <1>4. ASSUME NEW r \in Request, BeatTick(r) PROVE IInv'
    BY <1>4, EnvironmentKeeps
  <1>5. ASSUME NEW j \in Job, JobEnds(j) PROVE IInv'
    BY <1>5, JobEndsKeeps
  <1>6. CASE UNCHANGED vars
    <2>1. UNCHANGED <<tables, tower, thread>> /\ queue' \in [Request -> 0..MaxMsg]
      BY <1>6 DEF vars, IInv, Typed
    <2> QED
      BY <2>1, QueueKeeps
  <1> QED
    BY <1>1, <1>2, <1>3, <1>4, <1>5, <1>6 DEF Next

(* What the threads hold stays worth what the invariant says, whatever overlaps and whoever dies. *)
THEOREM Inductive == Spec => []IInv
  BY IInvAtStart, IInvIsKept, PTL DEF Spec

-----------------------------------------------------------------------------
(* Every column, and every object a thread holds, has a value of its type, whatever overlaps
   and whoever dies. *)
THEOREM TypeCorrect == Spec => []TypeOK
  <1>1. IInv => TypeOK
    <2> SUFFICES ASSUME IInv PROVE TypeOK
      OBVIOUS
    <2>1. ASSUME NEW h \in Thread, thread[h] # Idle
          PROVE  Own(h) \in Request /\ Held(h) \in RequestRow
      BY <2>1, ActiveIsSound DEF IInv, ThreadsAreSound
    <2> QED
      BY <2>1 DEF IInv, Typed, TypeOK
  <1> QED
    BY <1>1, Inductive, PTL

(* No success is made up: for every number of administrators, workers, requests on one
   instance, retries and crashes, a COMPLETE request holds the id of a successful job of its
   own, and an instance only reaches the state a success leads to after one. *)
THEOREM OutcomesAreEarned == Spec => []OutcomeIsEarned
  <1>1. IInv => OutcomeIsEarned
    <2> SUFFICES ASSUME IInv PROVE OutcomeIsEarned
      OBVIOUS
    <2>1. \A r \in Request : row[r].state = "COMPLETE" =>
             row[r].job # 0 /\ jobStatus[row[r].job] = "successful" /\ jobOwner[row[r].job] = r
      BY DEF IInv, RowsAreEarned, RowIsEarned
    <2>2. ASSUME NEW i \in Instance, NEW outcome \in {"AVAILABLE", "DELETED"} \ {FirstState[i]},
                 instState[i] = outcome
          PROVE  Achieved(i, outcome)
      BY <2>2 DEF IInv, InstancesAreEarned, Earned, AfterDelivery
    <2> QED
      BY <2>1, <2>2 DEF OutcomeIsEarned, Achieved
  <1> QED
    BY <1>1, Inductive, PTL

-----------------------------------------------------------------------------
(* What a step of one thread leaves alone: the other threads, the rows and the tasks of the
   other requests, the other instances, and the jobs that have an owner. *)

OnlyOwn(h) ==
    /\ \A g \in Thread : g # h => thread'[g] = thread[g]
    /\ \A r \in Request : r # Own(h) => row'[r] = row[r] /\ task'[r] = task[r]
    /\ \A i \in Instance : instState'[i] = instState[i] \/ (Own(h) \in Request /\ i = Target(h))
    /\ \A j \in Job : \/ jobStatus'[j] = jobStatus[j] /\ jobOwner'[j] = jobOwner[j]
                      \/ jobOwner[j] = None /\ jobOwner'[j] = Own(h) /\ Own(h) \in Request

LEMMA SaveIsOwn ==
  ASSUME IInv, NEW h \in Thread, NEW object, NEW point, Save(h, object, point)
  PROVE  OnlyOwn(h)
  <1>1. UNCHANGED <<instState, task, queue, tower>>
    BY DEF Save
  <1>2. /\ row' = row \/ row' = [row EXCEPT ![Own(h)] = object]
        /\ thread' = [thread EXCEPT ![h] = Idle] \/ Hold(h, point, object)
    BY DEF Save, End
  <1>3. \A g \in Thread : g # h => thread'[g] = thread[g]
    BY <1>2 DEF Hold, IInv, Typed
  <1>4. \A r \in Request : r # Own(h) => row'[r] = row[r]
    BY <1>2 DEF IInv, Typed
  <1> QED
    BY <1>1, <1>3, <1>4 DEF OnlyOwn, tower

LEMMA SaveInstanceIsOwn ==
  ASSUME IInv, NEW h \in Thread, ~At(h, "idle"), NEW s, NEW point, SaveInstance(h, s, point)
  PROVE  OnlyOwn(h)
  <1>1. UNCHANGED <<row, task, queue, tower>> /\ Own(h) \in Request
    BY ActiveIsSound DEF SaveInstance
  <1>2. \A g \in Thread : g # h => thread'[g] = thread[g]
    BY DEF SaveInstance, End, Hold, IInv, Typed
  <1>3. \A i \in Instance : i # Target(h) => instState'[i] = instState[i]
    BY DEF SaveInstance, IInv, Typed
  <1> QED
    BY <1>1, <1>2, <1>3 DEF OnlyOwn, tower

LEMMA ThreadStepIsOwn ==
  ASSUME IInv, NEW h \in Thread, NEW th, thread' = [thread EXCEPT ![h] = th],
         UNCHANGED <<tables, tower>>
  PROVE  OnlyOwn(h)
  BY DEF OnlyOwn, tables, tower, IInv, Typed

LEMMA WebStepIsOwn ==
  ASSUME IInv, NEW h \in Web, WebStep(h)
  PROVE  OnlyOwn(h)
  <1>1. h \in Thread
    BY DEF Thread
  <1>2. ASSUME NEW r \in Request, NEW goal \in Goal, Begin(h, r, goal) PROVE OnlyOwn(h)
    BY <1>1, <1>2, ThreadStepIsOwn DEF Begin, Load
  <1>3. CASE CheckPermission(h)
    BY <1>1, <1>3, ThreadStepIsOwn DEF CheckPermission, ReadInstance, End, IInv, Typed
  <1>4. CASE SaveAnswers(h) \/ SaveGoal(h) \/ SaveStarted(h) \/ SaveLaunched(h)
             \/ SaveScheduled(h) \/ SaveLast(h)
    BY <1>1, <1>4, SaveIsOwn DEF SaveAnswers, SaveGoal, SaveStarted, SaveLaunched, SaveScheduled,
                                 SaveLast
  <1>5. CASE ResetInstance(h) \/ StartInstance(h)
    BY <1>1, <1>5, SaveInstanceIsOwn DEF ResetInstance, StartInstance, At
  <1>6. CASE AbortInstance(h)
    <2>1. CASE thread[h].inst = "PENDING"
      BY <1>1, <1>6, <2>1, SaveInstanceIsOwn DEF AbortInstance, At
    <2>2. CASE thread[h].inst # "PENDING"
      BY <1>1, <1>6, <2>2, ThreadStepIsOwn DEF AbortInstance, Hold
    <2> QED
      BY <2>1, <2>2
  <1>7. CASE Launch(h)
    <2>1. Own(h) \in Request /\ UNCHANGED tables
      BY <1>1, <1>7, ActiveIsSound DEF Launch, At
    <2>2. \A g \in Thread : g # h => thread'[g] = thread[g]
      BY <1>1, <1>7 DEF Launch, IInv, Typed
    <2>3. lastJob + 1 \in Job /\ jobOwner[lastJob + 1] = None
      BY <1>7, ConstantsAssumption DEF Launch, Job, IInv, Typed, JobsAreLaunched
    <2>4. /\ jobStatus' = [jobStatus EXCEPT ![lastJob + 1] = "running"]
          /\ jobOwner' = [jobOwner EXCEPT ![lastJob + 1] = Own(h)]
      BY <1>7 DEF Launch
    <2>5. \A j \in Job : \/ jobStatus'[j] = jobStatus[j] /\ jobOwner'[j] = jobOwner[j]
                         \/ jobOwner[j] = None /\ jobOwner'[j] = Own(h)
      BY <2>3, <2>4 DEF IInv, Typed
    <2> QED
      BY <2>1, <2>2, <2>5 DEF OnlyOwn, tables
  <1>8. CASE LaunchFails(h)
    <2>1. Own(h) \in Request /\ UNCHANGED <<row, task, queue, tower>>
      BY <1>1, <1>8, ActiveIsSound DEF LaunchFails, At
    <2>2. \A g \in Thread : g # h => thread'[g] = thread[g]
      BY <1>1, <1>8 DEF LaunchFails, Hold, IInv, Typed
    <2>3. \A i \in Instance : i # Target(h) => instState'[i] = instState[i]
      BY <1>8 DEF LaunchFails, IInv, Typed
    <2> QED
      BY <2>1, <2>2, <2>3 DEF OnlyOwn, tower
  <1>9. CASE Schedule(h)
    <2>1. UNCHANGED <<row, instState, queue, tower>>
      BY <1>9 DEF Schedule
    <2>2. \A g \in Thread : g # h => thread'[g] = thread[g]
      BY <1>1, <1>9 DEF Schedule, Hold, End, IInv, Typed
    <2>3. \A r \in Request : r # Own(h) => task'[r] = task[r]
      BY <1>9 DEF Schedule, IInv, Typed
    <2> QED
      BY <2>1, <2>2, <2>3 DEF OnlyOwn, tower
  <1> QED
    BY <1>2, <1>3, <1>4, <1>5, <1>6, <1>7, <1>8, <1>9 DEF WebStep

LEMMA WorkerStepIsOwn ==
  ASSUME IInv, NEW h \in Worker, WorkerStep(h)
  PROVE  OnlyOwn(h)
  <1>1. h \in Thread
    BY DEF Thread
  <1>2. ASSUME NEW r \in Request, BeginCheck(h, r) PROVE OnlyOwn(h)
    <2>1. CASE UNCHANGED thread
      BY <1>2, <2>1 DEF BeginCheck, OnlyOwn, tables, tower
    <2>2. CASE UNCHANGED <<tables, tower>> /\ Load(h, r, None, "ask")
      BY <1>1, <2>2, ThreadStepIsOwn DEF Load
    <2> QED
      BY <1>2, <2>1, <2>2 DEF BeginCheck
  <1>3. CASE AskTower(h)
    BY <1>1, <1>3, ThreadStepIsOwn DEF AskTower, Hold, End
  <1>4. CASE SaveComplete(h) \/ SaveFailed(h)
    BY <1>1, <1>4, SaveIsOwn DEF SaveComplete, SaveFailed
  <1>5. CASE Unschedule(h)
    <2>1. UNCHANGED <<instState, queue, tower>>
      BY <1>5 DEF Unschedule
    <2>2. \A g \in Thread : g # h => thread'[g] = thread[g]
      BY <1>1, <1>5 DEF Unschedule, Hold, End, IInv, Typed
    <2>3. \A r \in Request : r # Own(h) => task'[r] = task[r] /\ row'[r] = row[r]
      BY <1>5 DEF Unschedule, IInv, Typed
    <2> QED
      BY <2>1, <2>2, <2>3 DEF OnlyOwn, tower
  <1>6. CASE ReadForSuccess(h) \/ ReadForFailure(h)
    BY <1>1, <1>6, ThreadStepIsOwn DEF ReadForSuccess, ReadForFailure, ReadInstance, End, IInv, Typed
  <1>7. CASE SaveSuccess(h) \/ SaveFailure(h)
    BY <1>1, <1>7, SaveInstanceIsOwn DEF SaveSuccess, SaveFailure, At
  <1> QED
    BY <1>2, <1>3, <1>4, <1>5, <1>6, <1>7 DEF WorkerStep

(* A request the step is not about is followed as before. *)
Elsewhere(r) ==
    /\ row'[r] = row[r] /\ task'[r] = task[r] /\ InstOf(r)' = InstOf(r)
    /\ \A h \in Thread : Own(h) = r \/ Own(h)' = r => thread'[h] = thread[h]
    /\ \A j \in Job : /\ jobOwner'[j] = r <=> jobOwner[j] = r
                      /\ jobOwner[j] = r => jobStatus'[j] = jobStatus[j]

LEMMA FollowedElsewhere ==
  ASSUME NEW r \in Request, Elsewhere(r), FollowsOne(r)
  PROVE  FollowsOne(r)'
  <1>1. /\ NoJob(r)' = NoJob(r)
        /\ \A j \in Job : OnlyJob(r, j)' = OnlyJob(r, j)
        /\ \A j \in Job : OnlyJob(r, j) => jobStatus'[j] = jobStatus[j]
    BY DEF Elsewhere, NoJob, OnlyJob
  <1>2. Web \subseteq Thread /\ Worker \subseteq Thread
    BY DEF Thread
  <1>3. Fresh(r) => Fresh(r)'
    BY <1>2 DEF Fresh, Elsewhere, NoWorker, Own, Held
  <1>4. \A j \in Job : Launching(r, j) => Launching(r, j)'
    BY <1>2 DEF Launching, Elsewhere, NoWorker, Own, Held
  <1>5. ASSUME NEW j \in Job, OnlyJob(r, j), Polled(r, j) PROVE Polled(r, j)'
    BY <1>1, <1>2, <1>5 DEF Polled, Checking, Elsewhere, Own, Held
  <1> QED
    BY <1>1, <1>3, <1>4, <1>5 DEF FollowsOne

LEMMA OthersAreElsewhere ==
  ASSUME IInv, OneRequestEach, NEW h \in Thread, OnlyOwn(h), NEW r \in Request,
         Own(h) # r, Own(h)' # r
  PROVE  Elsewhere(r)
  <1>1. InstanceOf[r] \in Instance
    BY ConstantsAssumption
  <1>2. InstOf(r)' = InstOf(r)
    BY <1>1 DEF OnlyOwn, InstOf, Target, OneRequestEach
  <1>3. \A j \in Job : /\ jobOwner'[j] = r <=> jobOwner[j] = r
                       /\ jobOwner[j] = r => jobStatus'[j] = jobStatus[j]
    BY ConstantsAssumption DEF OnlyOwn
  <1>4. \A g \in Thread : Own(g) = r \/ Own(g)' = r => thread'[g] = thread[g]
    BY DEF OnlyOwn
  <1> QED
    BY <1>2, <1>3, <1>4 DEF OnlyOwn, Elsewhere

-----------------------------------------------------------------------------
(* Before the first job. *)

LEMMA FreshStays ==
  ASSUME IInv, OneHandlerEach, NEW r \in Request, Fresh(r), NEW h \in Web, OnlyOwn(h),
         NEW new \in Record, thread' = [thread EXCEPT ![h] = new],
         row'[r].job = 0, row'[r].task = 0, task'[r] = 0,
         InstOf(r)' = InstOf(r) \/ Own(h) = r,
         new.request = r =>
             /\ new.row.job = 0 /\ new.row.task = 0 /\ new.launched = 0
             /\ new.at \notin {"schedule", "save_scheduled"}
             /\ new.at \in {"save_started", "launch"} => InstOf(r)' = Busy[TypeOf[r]]
  PROVE  Fresh(r)'
  <1>1. Web \subseteq Thread /\ Worker \subseteq Thread /\ h \notin Worker
    BY ConstantsAssumption DEF Thread
  <1>2. thread'[h] = new
    BY <1>1 DEF IInv, Typed
  <1>3. NoWorker(r)'
    BY <1>1 DEF Fresh, NoWorker, OnlyOwn, Own
  <1>4. ASSUME NEW g \in Web, Own(g)' = r
        PROVE  /\ Held(g)'.job = 0 /\ Held(g)'.task = 0 /\ thread'[g].launched = 0
               /\ thread'[g].at \notin {"schedule", "save_scheduled"}
               /\ thread'[g].at \in {"save_started", "launch"} => InstOf(r)' = Busy[TypeOf[r]]
    <2>1. CASE g = h
      BY <1>2, <1>4, <2>1 DEF Own, Held
    <2>2. CASE g # h
      <3>1. thread'[g] = thread[g] /\ Own(g) = r /\ r # None
        BY <1>1, <1>4, <2>2, ConstantsAssumption DEF OnlyOwn, Own
      <3>2. InstOf(r)' = InstOf(r)
        BY <2>2, <3>1 DEF OneHandlerEach
      <3> QED
        BY <3>1, <3>2 DEF Fresh, Own, Held
    <2> QED
      BY <2>1, <2>2
  <1> QED
    BY <1>3, <1>4 DEF Fresh

(* The thread that is at work on a fresh request. *)
LEMMA FreshThread ==
  ASSUME IInv, NEW r \in Request, Fresh(r), NEW h \in Web, Own(h) = r
  PROVE  /\ h \in Thread /\ ~At(h, "idle") /\ thread[h] \in Record /\ Held(h) \in RequestRow
         /\ Held(h).job = 0 /\ Held(h).task = 0 /\ thread[h].launched = 0
         /\ thread[h].at \notin {"schedule", "save_scheduled"}
         /\ thread[h].at \in {"save_started", "launch"} => InstOf(r) = Busy[TypeOf[r]]
         /\ row[r].job = 0 /\ row[r].task = 0 /\ task[r] = 0
         /\ Kind(h) = TypeOf[r] /\ Target(h) = InstanceOf[r]
         /\ Idle \in Record /\ Idle.request # r
  <1>1. h \in Thread /\ Idle \in Record /\ Idle.request # r
    BY IdleIsReady, ConstantsAssumption DEF Thread
  <1>2. ~At(h, "idle")
    BY <1>1, IdleIsReady, ConstantsAssumption DEF IInv, ThreadsAreSound, Own
  <1> QED
    BY <1>1, <1>2, ActiveIsSound DEF Fresh, Kind, Target

LEMMA FreshSave ==
  ASSUME IInv, OneHandlerEach, NEW r \in Request, Fresh(r), NEW h \in Web, Own(h) = r,
         NEW object \in RequestRow, object.job = 0, object.task = 0,
         NEW point \in {"done", "reset_instance", "launch", "save_last"},
         point = "launch" => At(h, "save_started"),
         Save(h, object, point)
  PROVE  Fresh(r)'
  <1> DEFINE new == IF point = "done" THEN Idle ELSE Then(thread[h], point, object)
  <1>1. /\ h \in Thread /\ thread[h] \in Record /\ thread[h].launched = 0 /\ task[r] = 0
        /\ Idle \in Record /\ Idle.request # r
        /\ thread[h].at = "save_started" => InstOf(r) = Busy[TypeOf[r]]
    BY FreshThread
  <1>2. OnlyOwn(h)
    BY <1>1, SaveIsOwn
  <1>3. /\ row' = [row EXCEPT ![r] = object]
        /\ thread' = [thread EXCEPT ![h] = new]
        /\ UNCHANGED <<instState, task>>
    BY <1>1 DEF Save, Hold, End, Then, IInv, Typed
  <1>4. /\ new \in Record
        /\ new.request = r => /\ new.row = object /\ new.launched = 0 /\ new.at = point
    <2>1. CASE point = "done"
      BY <1>1, <2>1
    <2>2. CASE point # "done"
      <3>1. point \in Point
        BY <2>2 DEF WebPoint, Point
      <3> QED
        BY <1>1, <2>2, <3>1, ThenFields
    <2> QED
      BY <2>1, <2>2
  <1>5. row'[r] = object /\ task'[r] = 0 /\ InstOf(r)' = InstOf(r)
    BY <1>1, <1>3 DEF IInv, Typed, InstOf
  <1> HIDE DEF new
  <1> QED
    BY <1>1, <1>2, <1>3, <1>4, <1>5, FreshStays DEF At

LEMMA FreshInstance ==
  ASSUME IInv, OneHandlerEach, NEW r \in Request, Fresh(r), NEW h \in Web, Own(h) = r,
         NEW s, NEW point \in {"save_goal", "save_started"},
         point = "save_started" => s = Busy[TypeOf[r]],
         SaveInstance(h, s, point)
  PROVE  Fresh(r)'
  <1> DEFINE new == Then(thread[h], point, Held(h))
  <1>1. /\ h \in Thread /\ ~At(h, "idle") /\ thread[h] \in Record /\ Held(h) \in RequestRow
        /\ thread[h].launched = 0 /\ task[r] = 0 /\ row[r].job = 0 /\ row[r].task = 0
        /\ Held(h).job = 0 /\ Held(h).task = 0 /\ Target(h) = InstanceOf[r]
    BY FreshThread
  <1>2. OnlyOwn(h)
    BY <1>1, SaveInstanceIsOwn
  <1>3. point \in Point
    BY DEF WebPoint, Point
  <1>4. thread' = [thread EXCEPT ![h] = new]
    BY DEF SaveInstance, Hold, Then, IInv, Typed
  <1>5. /\ new \in Record /\ new.row = Held(h) /\ new.launched = 0 /\ new.at = point
    BY <1>1, <1>3, ThenFields
  <1>6. row'[r] = row[r] /\ task'[r] = 0 /\ InstOf(r)' = s
    BY <1>1, ConstantsAssumption DEF SaveInstance, IInv, Typed, InstOf
  <1> HIDE DEF new
  <1> QED
    BY <1>1, <1>2, <1>4, <1>5, <1>6, FreshStays

(* The tables stay. *)
LEMMA FreshStep ==
  ASSUME IInv, OneHandlerEach, NEW r \in Request, Fresh(r), NEW h \in Web,
         NEW new \in Record, thread' = [thread EXCEPT ![h] = new], UNCHANGED <<tables, tower>>,
         new.request = r =>
             /\ new.row.job = 0 /\ new.row.task = 0 /\ new.launched = 0
             /\ new.at \notin {"schedule", "save_scheduled", "save_started", "launch"}
  PROVE  Fresh(r)'
  <1>1. h \in Thread
    BY DEF Thread
  <1>2. OnlyOwn(h)
    BY <1>1, ThreadStepIsOwn
  <1> QED
    BY <1>2, FreshStays DEF tables, InstOf, Fresh

LEMMA FreshBegin ==
  ASSUME IInv, OneHandlerEach, NEW r \in Request, Fresh(r), NEW h \in Web, NEW goal \in Goal,
         Begin(h, r, goal)
  PROVE  Fresh(r)'
  <1> DEFINE new == [Idle EXCEPT !.at = "permission", !.request = r, !.goal = goal, !.row = row[r]]
  <1>1. row[r] \in RequestRow /\ row[r].job = 0 /\ row[r].task = 0
    BY DEF IInv, Typed, Fresh
  <1>2. "permission" \in Point
    BY DEF WebPoint, Point
  <1>3. /\ new \in Record /\ new.at = "permission" /\ new.row = row[r] /\ new.launched = 0
    BY <1>1, <1>2, IdleIsReady DEF Record
  <1>4. thread' = [thread EXCEPT ![h] = new] /\ UNCHANGED <<tables, tower>>
    BY DEF Begin, Load
  <1> HIDE DEF new
  <1> QED
    BY <1>1, <1>3, <1>4, FreshStep

LEMMA FreshCheckPermission ==
  ASSUME IInv, OneHandlerEach, NEW r \in Request, Fresh(r), NEW h \in Web, Own(h) = r,
         CheckPermission(h)
  PROVE  Fresh(r)'
  <1> DEFINE s == instState[Target(h)]
             goal == thread[h].goal
             new == Saw(thread[h], goal, s)
  <1>1. /\ h \in Thread /\ ~At(h, "idle") /\ thread[h] \in Record /\ thread[h].launched = 0
        /\ thread[h].row.job = 0 /\ thread[h].row.task = 0
        /\ Idle \in Record /\ Idle.request # r
    BY FreshThread DEF Held
  <1>2. s \in InstanceState /\ Sound(thread[h])
    BY <1>1, TargetsAreEarned, ActiveIsSound
  <1>3. goal \in {"PROCESSING", "ACCEPTED", "CANCELED", "REJECTED"}
    BY <1>2, ConstantsAssumption DEF CheckPermission, At, Sound, WebPoint
  <1>4. goal \in Point
    BY <1>3 DEF WebPoint, Point
  <1>5. new \in Record /\ new.at = goal /\ new.row = thread[h].row /\ new.launched = 0
    <2> HIDE DEF s, goal
    <2> QED
      BY <1>1, <1>2, <1>4, SawFields
  <1>6. /\ UNCHANGED <<tables, tower>>
        /\ thread' = [thread EXCEPT ![h] = Idle] \/ thread' = [thread EXCEPT ![h] = new]
    BY DEF CheckPermission, ReadInstance, End, Saw, IInv, Typed
  <1>7. CASE thread' = [thread EXCEPT ![h] = Idle]
    BY <1>1, <1>6, <1>7, FreshStep
  <1>8. CASE thread' = [thread EXCEPT ![h] = new]
    <2> HIDE DEF new, goal
    <2> QED
      BY <1>1, <1>3, <1>5, <1>6, <1>8, FreshStep
  <1> QED
    BY <1>6, <1>7, <1>8

LEMMA FreshAbort ==
  ASSUME IInv, OneHandlerEach, NEW r \in Request, Fresh(r), NEW h \in Web, Own(h) = r,
         AbortInstance(h)
  PROVE  Fresh(r)'
  <1>1. CASE SaveInstance(h, "ABORTED", "save_goal")
    BY <1>1, FreshInstance
  <1>2. CASE Hold(h, "save_goal", Held(h)) /\ UNCHANGED <<tables, queue, tower>>
    <2> DEFINE new == Then(thread[h], "save_goal", Held(h))
    <2>1. /\ thread[h] \in Record /\ thread[h].launched = 0 /\ Held(h) \in RequestRow
          /\ Held(h).job = 0 /\ Held(h).task = 0
      BY FreshThread
    <2>2. "save_goal" \in Point
      BY DEF WebPoint, Point
    <2>3. new \in Record /\ new.at = "save_goal" /\ new.row = Held(h) /\ new.launched = 0
      BY <2>1, <2>2, ThenFields
    <2>4. thread' = [thread EXCEPT ![h] = new]
      BY <1>2 DEF Hold, Then, IInv, Typed
    <2> HIDE DEF new
    <2> QED
      BY <1>2, <2>1, <2>3, <2>4, FreshStep
  <1> QED
    BY <1>1, <1>2 DEF AbortInstance

LEMMA FreshLaunchFails ==
  ASSUME IInv, OneHandlerEach, NEW r \in Request, Fresh(r), NEW h \in Web, Own(h) = r,
         LaunchFails(h)
  PROVE  Fresh(r)'
  <1> DEFINE object == [Held(h) EXCEPT !.state = "FAILED"]
             new == Then(thread[h], "save_launched", object)
  <1>1. /\ thread[h] \in Record /\ thread[h].launched = 0 /\ Held(h) \in RequestRow
        /\ Held(h).job = 0 /\ Held(h).task = 0
    BY FreshThread
  <1>2. object \in RequestRow /\ object.job = 0 /\ object.task = 0
    BY <1>1 DEF RequestRow, RequestState
  <1>3. "save_launched" \in Point
    BY DEF WebPoint, Point
  <1>4. new \in Record /\ new.at = "save_launched" /\ new.row = object /\ new.launched = 0
    <2> HIDE DEF object
    <2> QED
      BY <1>1, <1>2, <1>3, ThenFields
  <1>5. thread' = [thread EXCEPT ![h] = new]
    BY DEF LaunchFails, Hold, Then, IInv, Typed
  <1>6. WebStep(h)
    BY DEF WebStep
  <1>7. OnlyOwn(h) /\ row' = row /\ task' = task
    BY <1>6, WebStepIsOwn DEF LaunchFails
  <1> HIDE DEF new, object
  <1> QED
    BY <1>2, <1>4, <1>5, <1>7, FreshStays DEF Fresh

(* Whatever an administrator does to a fresh request but launching its job. *)
LEMMA FreshWebStep ==
  ASSUME IInv, OneHandlerEach, NEW r \in Request, Fresh(r), NEW h \in Web, Own(h) = r,
         WebStep(h), ~Launch(h)
  PROVE  Fresh(r)'
  <1>1. /\ ~At(h, "idle") /\ Held(h) \in RequestRow /\ Held(h).job = 0 /\ Held(h).task = 0
        /\ thread[h].launched = 0 /\ thread[h].at \notin {"schedule", "save_scheduled"}
        /\ Kind(h) = TypeOf[r]
    BY FreshThread
  <1>2. ~(\E q \in Request, goal \in Goal : Begin(h, q, goal)) /\ ~Schedule(h) /\ ~SaveScheduled(h)
    BY <1>1 DEF Begin, Load, Schedule, SaveScheduled, At
  <1>3. CASE SaveAnswers(h) \/ SaveStarted(h) \/ SaveLaunched(h) \/ SaveLast(h)
    BY <1>1, <1>3, FreshSave DEF SaveAnswers, SaveStarted, SaveLaunched, SaveLast
  <1>4. CASE SaveGoal(h)
    <2> DEFINE object == [Held(h) EXCEPT !.state = thread[h].goal]
    <2>1. thread[h].goal \in RequestState
      BY <1>1, <1>4, ActiveIsSound, ConstantsAssumption
      DEF SaveGoal, At, Sound, WebPoint, RequestState, Thread
    <2>2. object \in RequestRow /\ object.job = 0 /\ object.task = 0
      BY <1>1, <2>1 DEF RequestRow
    <2>3. Save(h, object, "done")
      BY <1>4 DEF SaveGoal
    <2> HIDE DEF object
    <2> QED
      BY <2>2, <2>3, FreshSave
  <1>5. CASE ResetInstance(h) \/ StartInstance(h)
    BY <1>1, <1>5, FreshInstance DEF ResetInstance, StartInstance
  <1> QED
    BY <1>2, <1>3, <1>4, <1>5, FreshCheckPermission, FreshAbort, FreshLaunchFails DEF WebStep

(* The launch of the first job. *)
LEMMA LaunchIsFirst ==
  ASSUME IInv, OneHandlerEach, NEW r \in Request, Fresh(r), NEW h \in Web, Own(h) = r,
         Launch(h)
  PROVE  \A j \in Job : j = lastJob + 1 => Launching(r, j)'
  <1>1. /\ h \in Thread /\ thread[h] \in Record /\ Held(h) \in RequestRow /\ h \notin Worker
        /\ Held(h).job = 0 /\ Held(h).task = 0 /\ thread[h].launched = 0
        /\ InstOf(r) = Busy[TypeOf[r]]
        /\ row[r].job = 0 /\ row[r].task = 0 /\ task[r] = 0
    BY FreshThread, ConstantsAssumption DEF Launch, At
  <1>2. OnlyOwn(h)
    BY WebStepIsOwn DEF WebStep
  <1>3. /\ thread'[h].at = "save_launched" /\ thread'[h].request = r
        /\ thread'[h].launched = lastJob + 1
        /\ thread'[h].row = [Held(h) EXCEPT !.state = "PROCESSING"]
    BY <1>1 DEF Launch, IInv, Typed, Own, Held, Record
  <1>4. thread'[h].row = Stored("PROCESSING", 0, 0)
    BY <1>1, <1>3 DEF RequestRow, Stored
  <1>5. row'[r] = row[r] /\ task'[r] = 0 /\ InstOf(r)' = InstOf(r)
    BY <1>1 DEF Launch, tables, InstOf
  <1>6. NoWorker(r)'
    BY <1>1, <1>2 DEF Fresh, NoWorker, OnlyOwn, Own, Thread
  <1> QED
    BY <1>1, <1>3, <1>4, <1>5, <1>6 DEF Launching, Own, Held

-----------------------------------------------------------------------------
(* Between the launch and the save of the job's id. *)

LEMMA RowIsItsFields ==
  ASSUME NEW a \in RequestRow, NEW b \in RequestRow,
         a.state = b.state, a.job = b.job, a.task = b.task
  PROVE  a = b
  BY DEF RequestRow

(* The thread that launched the job, the only one of an administrator. *)
LEMMA LaunchingThread ==
  ASSUME IInv, OneHandlerEach, NEW r \in Request, NEW j \in Job, Launching(r, j),
         NEW h \in Web, Own(h) = r
  PROVE  /\ h \in Thread /\ ~At(h, "idle") /\ thread[h] \in Record /\ h \notin Worker
         /\ thread[h].launched = j /\ j # 0 /\ j \in 0..MaxJob
         /\ \/ /\ thread[h].at \in {"save_launched", "schedule"}
               /\ task[r] = 0 /\ Held(h) = Stored("PROCESSING", 0, 0)
            \/ /\ thread[h].at = "save_scheduled"
               /\ task[r] = j /\ Held(h) = Stored("PROCESSING", j, j)
         /\ Held(h) \in RequestRow
         /\ Idle \in Record /\ Idle.request # r
  <1>1. h \in Thread /\ Idle \in Record /\ Idle.request # r /\ h \notin Worker /\ r # None
    BY IdleIsReady, ConstantsAssumption DEF Thread
  <1>2. ~At(h, "idle")
    BY <1>1, IdleIsReady, ConstantsAssumption DEF IInv, ThreadsAreSound, Own
  <1>3. PICK g \in Web :
          /\ Own(g) = r /\ thread[g].launched = j
          /\ \/ /\ thread[g].at \in {"save_launched", "schedule"}
                /\ task[r] = 0 /\ Held(g) = Stored("PROCESSING", 0, 0)
             \/ /\ thread[g].at = "save_scheduled"
                /\ task[r] = j /\ Held(g) = Stored("PROCESSING", j, j)
    BY DEF Launching
  <1>4. g = h
    BY <1>1, <1>3 DEF OneHandlerEach
  <1> QED
    BY <1>1, <1>2, <1>3, <1>4, ActiveIsSound, ConstantsAssumption DEF Job

(* A save that is not refused. *)
LEMMA SaveEffect ==
  ASSUME IInv, NEW h \in Thread, ~At(h, "idle"), NEW object \in RequestRow, NEW point \in Point,
         point # "done", Save(h, object, point), object.task \in {0, task[Own(h)]}
  PROVE  /\ row'[Own(h)] = object /\ UNCHANGED <<instState, task, queue, tower>>
         /\ thread'[h] \in Record /\ thread'[h].at = point /\ thread'[h].row = object
         /\ thread'[h].request = Own(h) /\ thread'[h].launched = thread[h].launched
  <1>1. Own(h) \in Request /\ thread[h] \in Record /\ thread[h].request = Own(h)
    BY ActiveIsSound DEF Own
  <1>2. row' = [row EXCEPT ![Own(h)] = object] /\ Hold(h, point, object)
    BY DEF Save
  <1>3. thread'[h] = Then(thread[h], point, object)
    BY <1>2 DEF Hold, Then, IInv, Typed
  <1> QED
    BY <1>1, <1>2, <1>3, ThenFields DEF Save, IInv, Typed

(* The save of the id hands the request over to the check task. *)
LEMMA LaunchingWebStep ==
  ASSUME IInv, OneHandlerEach, NEW r \in Request, NEW j \in Job, Launching(r, j),
         NEW h \in Web, Own(h) = r, WebStep(h)
  PROVE  UNCHANGED tower /\ (Launching(r, j)' \/ Polled(r, j)')
  <1>1. /\ h \in Thread /\ ~At(h, "idle") /\ thread[h] \in Record /\ h \notin Worker
        /\ thread[h].launched = j /\ j # 0 /\ j \in 0..MaxJob /\ Held(h) \in RequestRow
        /\ thread[h].at \in {"save_launched", "schedule", "save_scheduled"}
    BY LaunchingThread
  <1>2. OnlyOwn(h) /\ NoWorker(r)'
    <2>1. OnlyOwn(h)
      BY WebStepIsOwn
    <2> QED
      BY <1>1, <2>1 DEF Launching, NoWorker, OnlyOwn, Own, Thread
  <1>3. CASE SaveLaunched(h)
    <2>1. Held(h) = Stored("PROCESSING", 0, 0) /\ task[r] = 0
      BY <1>3, LaunchingThread DEF SaveLaunched, At
    <2>2. Save(h, Held(h), "schedule") /\ "schedule" \in Point
      BY <1>1, <1>3 DEF SaveLaunched, WebPoint, Point
    <2>3. /\ row'[r] = Held(h) /\ UNCHANGED <<instState, task, queue, tower>>
          /\ thread'[h].at = "schedule" /\ thread'[h].row = Held(h)
          /\ thread'[h].request = r /\ thread'[h].launched = j
      BY <1>1, <2>1, <2>2, SaveEffect DEF Stored
    <2>4. Launching(r, j)'
      BY <1>2, <2>1, <2>3 DEF Launching, Stored, InstOf, Own, Held
    <2> QED
      BY <2>3, <2>4
  <1>4. CASE Schedule(h)
    <2>1. Held(h) = Stored("PROCESSING", 0, 0) /\ task[r] = 0
      BY <1>4, LaunchingThread DEF Schedule, At
    <2>2. /\ task' = [task EXCEPT ![r] = j]
          /\ Hold(h, "save_scheduled", [Held(h) EXCEPT !.job = j, !.task = j])
          /\ UNCHANGED <<row, instState, queue, tower>>
      BY <1>1, <1>4, <2>1 DEF Schedule
    <2>3. [Held(h) EXCEPT !.job = j, !.task = j] = Stored("PROCESSING", j, j)
      <3> DEFINE object == [Held(h) EXCEPT !.job = j, !.task = j]
      <3>1. Held(h) \in RequestRow /\ Held(h).state = "PROCESSING"
        BY <1>1, <2>1 DEF Stored
      <3>2. /\ object \in RequestRow /\ object.state = "PROCESSING"
            /\ object.job = j /\ object.task = j
        BY <1>1, <3>1 DEF RequestRow
      <3>3. Stored("PROCESSING", j, j) \in RequestRow
        BY <1>1 DEF Stored, RequestRow, RequestState
      <3> HIDE DEF object
      <3>4. object = Stored("PROCESSING", j, j)
        BY <3>2, <3>3, RowIsItsFields DEF Stored
      <3> QED
        BY <3>4 DEF object
    <2>4. Stored("PROCESSING", j, j) \in RequestRow /\ "save_scheduled" \in Point
      BY <1>1 DEF Stored, RequestRow, RequestState, WebPoint, Point
    <2>5. thread'[h] = Then(thread[h], "save_scheduled", Stored("PROCESSING", j, j))
      BY <1>1, <2>2, <2>3 DEF Hold, Then, IInv, Typed
    <2>6. /\ thread'[h].at = "save_scheduled" /\ thread'[h].row = Stored("PROCESSING", j, j)
          /\ thread'[h].request = r /\ thread'[h].launched = j
      BY <1>1, <2>4, <2>5, ThenFields DEF Own
    <2>7. task'[r] = j
      BY <2>2 DEF IInv, Typed
    <2>8. Launching(r, j)'
      BY <1>2, <2>2, <2>6, <2>7 DEF Launching, InstOf, Own, Held
    <2> QED
      BY <2>2, <2>8
  <1>5. CASE SaveScheduled(h)
    <2>1. Held(h) = Stored("PROCESSING", j, j) /\ task[r] = j
      BY <1>5, LaunchingThread DEF SaveScheduled, At
    <2>2. Save(h, Held(h), "save_last") /\ "save_last" \in Point
      BY <1>1, <1>5 DEF SaveScheduled, WebPoint, Point
    <2>3. /\ row'[r] = Held(h) /\ UNCHANGED <<instState, task, queue, tower>>
          /\ thread'[h].at = "save_last" /\ thread'[h].row = Held(h)
          /\ thread'[h].request = r
      BY <1>1, <2>1, <2>2, SaveEffect DEF Stored
    <2>4. row'[r].job = j /\ row'[r].state = "PROCESSING" /\ row'[r].task = j /\ task'[r] = j
          /\ InstOf(r)' = Busy[TypeOf[r]]
      BY <2>1, <2>3 DEF Stored, Launching, InstOf
    <2>5. ASSUME NEW g \in Web, Own(g)' = r
          PROVE  thread'[g].at = "save_last" /\ Held(g)' = Stored("PROCESSING", j, j)
      <3>1. g = h
        <4>1. g # h => Own(g) = r
          BY <1>2, <2>5 DEF OnlyOwn, Own, Thread
        <4> QED
          BY <4>1, ConstantsAssumption DEF OneHandlerEach
      <3> QED
        BY <2>1, <2>3, <3>1 DEF Held
    <2>6. Polled(r, j)'
      BY <1>1, <1>2, <2>4, <2>5 DEF Polled, NoWorker
    <2> QED
      BY <2>3, <2>6
  <1> QED
    BY <1>1, <1>3, <1>4, <1>5
    DEF WebStep, Begin, Load, CheckPermission, SaveAnswers, ResetInstance, AbortInstance, SaveGoal,
        StartInstance, SaveStarted, Launch, LaunchFails, SaveLast, At

(* No check begins while the row has no job, and no second administrator. *)
LEMMA LaunchingBegin ==
  ASSUME IInv, OneHandlerEach', NEW r \in Request, NEW j \in Job, Launching(r, j)
  PROVE  /\ \A h \in Web, goal \in Goal : ~Begin(h, r, goal)
         /\ \A h \in Worker : BeginCheck(h, r) => UNCHANGED <<tables, tower, thread>>
  <1>1. ASSUME NEW h \in Web, NEW goal \in Goal, Begin(h, r, goal) PROVE FALSE
    <2>1. PICK g \in Web : Own(g) = r
      BY DEF Launching
    <2>2. h \in Thread /\ g \in Thread /\ Own(h) = None /\ r # None
      BY <1>1, IdleIsReady, ConstantsAssumption
      DEF Begin, Load, At, IInv, ThreadsAreSound, Own, Thread
    <2>3. g # h
      BY <2>1, <2>2
    <2>4. Own(g)' = r
      BY <1>1, <2>1, <2>2, <2>3 DEF Begin, Load, IInv, Typed, Own
    <2>5. Own(h)' = r
      BY <1>1, <2>2, IdleIsReady DEF Begin, Load, IInv, Typed, Own, Record, Idle
    <2> QED
      BY <2>2, <2>3, <2>4, <2>5 DEF OneHandlerEach
  <1>2. \A h \in Worker : BeginCheck(h, r) => UNCHANGED <<tables, tower, thread>>
    BY DEF Launching, BeginCheck
  <1> QED
    BY <1>1, <1>2

-----------------------------------------------------------------------------
(* With the check task and the workers. *)

Delivering(r) == \E h \in Worker : Own(h) = r /\ thread[h].at \in {"success", "save_success"}
Settling(r) == \E h \in Worker : Own(h) = r /\ thread[h].at = "unschedule"

(* The part of Polled that is about the tables. *)
Kept(r, j) ==
    /\ row[r].job = j /\ row[r].state \in {"PROCESSING", "COMPLETE"}
    /\ row[r].task = task[r] /\ task[r] \in {0, j}
    /\ jobStatus[j] = "running" => task[r] = j /\ row[r].state = "PROCESSING"
    /\ task[r] = j => /\ InstOf(r) = Busy[TypeOf[r]]
                      /\ row[r].state = "COMPLETE" => Settling(r)
    /\ task[r] = 0 => \/ InstOf(r) = SuccessState[TypeOf[r]]
                      \/ InstOf(r) = Busy[TypeOf[r]] /\ Delivering(r)

LEMMA PolledParts ==
  ASSUME NEW r \in Request, NEW j \in Job
  PROVE  Polled(r, j) <=>
             /\ Kept(r, j)
             /\ \A h \in Web : Own(h) = r =>
                   thread[h].at = "save_last" /\ Held(h) = Stored("PROCESSING", j, j)
             /\ \A h \in Worker : Own(h) = r => Checking(h, r, j)
  BY DEF Polled, Kept, Settling, Delivering

(* Only the worker that goes on is looked at. *)
LEMMA WorkerGoesOn ==
  ASSUME IInv, NEW r \in Request, NEW j \in Job, Polled(r, j), NEW h \in Worker,
         OnlyOwn(h), UNCHANGED tower,
         task'[r] \in {0, task[r]}, Kept(r, j)', Own(h)' = r => Checking(h, r, j)'
  PROVE  Polled(r, j)'
  <1>1. Web \subseteq Thread /\ Worker \subseteq Thread /\ h \notin Web
    BY ConstantsAssumption DEF Thread
  <1>2. ASSUME NEW g \in Web, Own(g)' = r
        PROVE  thread'[g].at = "save_last" /\ Held(g)' = Stored("PROCESSING", j, j)
    <2>1. thread'[g] = thread[g] /\ Own(g) = r
      BY <1>1, <1>2 DEF OnlyOwn, Own
    <2> QED
      BY <2>1 DEF Polled, Held
  <1>3. ASSUME NEW g \in Worker, Own(g)' = r, g # h PROVE Checking(g, r, j)'
    <2>1. thread'[g] = thread[g] /\ Own(g) = r
      BY <1>1, <1>3 DEF OnlyOwn, Own
    <2>2. Checking(g, r, j) /\ task[r] \in {0, j}
      BY <2>1 DEF Polled
    <2> QED
      BY <2>1, <2>2 DEF Checking, Held, tower
  <1> QED
    BY <1>2, <1>3 DEF Polled, Kept, Settling, Delivering

(* A worker that was neither delivering nor settling is not missed. *)
LEMMA NotMissed ==
  ASSUME NEW r \in Request, NEW h \in Worker, OnlyOwn(h)
  PROVE  /\ Settling(r) /\ (Own(h) = r => thread[h].at # "unschedule") => Settling(r)'
         /\ Delivering(r) /\ (Own(h) = r => thread[h].at \notin {"success", "save_success"}) =>
               Delivering(r)'
  BY DEF Settling, Delivering, OnlyOwn, Own, Thread

LEMMA PolledThread ==
  ASSUME IInv, NEW r \in Request, NEW j \in Job, Polled(r, j), NEW h \in Worker, Own(h) = r
  PROVE  /\ h \in Thread /\ ~At(h, "idle") /\ thread[h] \in Record /\ Held(h) \in RequestRow
         /\ Checking(h, r, j) /\ Held(h) = thread[h].row
         /\ Kind(h) = TypeOf[r] /\ Target(h) = InstanceOf[r]
         /\ Idle \in Record /\ Idle.request # r /\ j # 0
  <1>1. h \in Thread /\ Idle \in Record /\ Idle.request # r /\ j # 0
    BY IdleIsReady, ConstantsAssumption DEF Thread, Job
  <1>2. ~At(h, "idle")
    BY <1>1, IdleIsReady, ConstantsAssumption DEF IInv, ThreadsAreSound, Own
  <1> QED
    BY <1>1, <1>2, ActiveIsSound DEF Polled, Kind, Target, Held

(* The tables stay. *)
LEMMA WorkerReads ==
  ASSUME IInv, NEW r \in Request, NEW j \in Job, Polled(r, j), NEW h \in Worker,
         NEW new \in Record, thread' = [thread EXCEPT ![h] = new], UNCHANGED <<tables, tower>>,
         Own(h) = r => thread[h].at # "unschedule" \/ task[r] # j,
         Own(h) = r /\ thread[h].at \in {"success", "save_success"} =>
             InstOf(r) = SuccessState[TypeOf[r]]
             \/ (new.request = r /\ new.at \in {"success", "save_success"}),
         new.request = r => Checking(h, r, j)'
  PROVE  Polled(r, j)'
  <1>1. h \in Thread /\ thread'[h] = new
    BY DEF Thread, IInv, Typed
  <1>2. OnlyOwn(h)
    BY <1>1, ThreadStepIsOwn
  <1>3. task[r] = j /\ Settling(r) => Settling(r)'
    BY <1>2, NotMissed
  <1>4. Delivering(r) => Delivering(r)' \/ InstOf(r) = SuccessState[TypeOf[r]]
    <2>1. CASE Own(h) = r /\ thread[h].at \in {"success", "save_success"}
      BY <1>1, <2>1 DEF Delivering, Own
    <2> QED
      BY <1>2, <2>1, NotMissed
  <1>5. Kept(r, j)
    BY PolledParts
  <1>6. Kept(r, j)'
    BY <1>3, <1>4, <1>5 DEF Kept, tables, tower, InstOf
  <1> QED
    BY <1>1, <1>2, <1>6, WorkerGoesOn DEF Own, tables

(* The last save of the thread that launched the job. *)
LEMMA PolledWebStep ==
  ASSUME IInv, OneHandlerEach, NEW r \in Request, NEW j \in Job, Polled(r, j),
         NEW h \in Web, Own(h) = r, WebStep(h)
  PROVE  UNCHANGED tower /\ Polled(r, j)'
  <1>1. /\ h \in Thread /\ h \notin Worker /\ r # None /\ j # 0 /\ Idle.request # r
        /\ thread[h].at = "save_last" /\ Held(h) = Stored("PROCESSING", j, j)
    BY IdleIsReady, ConstantsAssumption DEF Polled, Thread, Job
  <1>2. SaveLast(h)
    BY <1>1
    DEF WebStep, Begin, Load, CheckPermission, SaveAnswers, ResetInstance, AbortInstance, SaveGoal,
        StartInstance, SaveStarted, Launch, LaunchFails, SaveLaunched, Schedule, SaveScheduled, At
  <1>3. OnlyOwn(h)
    BY WebStepIsOwn
  <1>4. /\ UNCHANGED <<instState, task, queue, tower>> /\ thread' = [thread EXCEPT ![h] = Idle]
        /\ IF task[r] = j THEN row' = [row EXCEPT ![r] = Held(h)] ELSE row' = row
    <2>1. Save(h, Held(h), "done") /\ Held(h).task = j
      BY <1>1, <1>2 DEF SaveLast, Stored
    <2> QED
      BY <1>1, <2>1 DEF Save, End
  <1>5. /\ row'[r].job = j /\ row'[r].state \in {"PROCESSING", "COMPLETE"}
        /\ row'[r].task = task[r]
        /\ row'[r].state = "COMPLETE" => row[r].state = "COMPLETE"
        /\ row[r].state = "PROCESSING" => row'[r].state = "PROCESSING"
    <2>1. CASE task[r] = j
      <3>1. row'[r] = Held(h)
        BY <1>4, <2>1 DEF IInv, Typed
      <3> QED
        BY <1>1, <2>1, <3>1 DEF Stored
    <2>2. CASE task[r] # j
      BY <1>4, <2>2 DEF Polled
    <2> QED
      BY <2>1, <2>2
  <1>6. \A g \in Worker : thread'[g] = thread[g]
    BY <1>1, <1>3 DEF OnlyOwn, Thread
  <1>7. Kept(r, j)
    BY PolledParts
  <1>8. Kept(r, j)'
    BY <1>4, <1>5, <1>6, <1>7 DEF Kept, Settling, Delivering, InstOf, Own, tower
  <1>9. ASSUME NEW g \in Web, Own(g)' = r
        PROVE  thread'[g].at = "save_last" /\ Held(g)' = Stored("PROCESSING", j, j)
    <2>1. thread'[g] = thread[g] /\ Own(g) = r
      BY <1>1, <1>3, <1>4, <1>9 DEF OnlyOwn, Own, Thread, IInv, Typed
    <2> QED
      BY <2>1 DEF Polled, Held
  <1>10. ASSUME NEW g \in Worker, Own(g)' = r PROVE Checking(g, r, j)'
    <2>1. thread'[g] = thread[g] /\ Own(g) = r
      BY <1>6, <1>10 DEF Own
    <2>2. Checking(g, r, j)
      BY <2>1 DEF Polled
    <2> QED
      BY <1>4, <2>1, <2>2 DEF Checking, Held, tower
  <1>11. Polled(r, j)'
    BY <1>8, <1>9, <1>10 DEF Polled, Kept, Settling, Delivering
  <1> QED
    BY <1>4, <1>11

LEMMA PolledBegin ==
  ASSUME NEW r \in Request, NEW j \in Job, Polled(r, j), NEW h \in Web, NEW goal \in Goal
  PROVE  ~Begin(h, r, goal)
  BY ConstantsAssumption
  DEF Polled, Begin, GoalFrom, ProcessFrom, AcceptFrom, CancelFrom, RejectFrom

LEMMA PolledBeginCheck ==
  ASSUME IInv, NEW r \in Request, NEW j \in Job, Polled(r, j), NEW h \in Worker, BeginCheck(h, r)
  PROVE  Polled(r, j)'
  <1> DEFINE new == [Idle EXCEPT !.at = "ask", !.request = r, !.goal = None, !.row = row[r]]
  <1>1. row[r] \in RequestRow /\ row[r].job = j /\ j # 0 /\ r # None
    BY ConstantsAssumption DEF IInv, Typed, Polled, Job
  <1>2. /\ UNCHANGED <<tables, tower>> /\ thread' = [thread EXCEPT ![h] = new]
        /\ thread[h].at = "idle"
    BY <1>1 DEF BeginCheck, Load, At
  <1>3. "ask" \in Point
    BY DEF WorkerPoint, Point
  <1>4. new \in Record /\ new.at = "ask" /\ new.row = row[r]
    BY <1>1, <1>3, IdleIsReady DEF Record
  <1> HIDE DEF new
  <1>5. thread'[h] = new /\ h \in Thread
    BY <1>2 DEF Thread, IInv, Typed
  <1>6. Checking(h, r, j)'
    BY <1>1, <1>2, <1>4, <1>5 DEF Checking, Held, Polled, tables
  <1> QED
    BY <1>2, <1>4, <1>6, WorkerReads

LEMMA PolledAsk ==
  ASSUME IInv, NEW r \in Request, NEW j \in Job, Polled(r, j),
         jobStatus[j] \in {"running", "successful"},
         NEW h \in Worker, Own(h) = r, AskTower(h)
  PROVE  Polled(r, j)'
  <1> DEFINE object == [Held(h) EXCEPT !.state = "COMPLETE"]
             new == Then(thread[h], "save_complete", object)
  <1>1. /\ h \in Thread /\ thread[h] \in Record /\ Held(h) \in RequestRow /\ Checking(h, r, j)
        /\ Idle \in Record /\ Idle.request # r /\ thread[h].at = "ask"
    BY PolledThread DEF AskTower, At
  <1>2. Held(h).job = j /\ Held(h).task \in {task[r], j}
    BY <1>1 DEF Checking
  <1>3. /\ UNCHANGED <<tables, queue, tower>>
        /\ \/ End(h)
           \/ jobStatus[j] = "successful" /\ Hold(h, "save_complete", object)
    BY <1>2 DEF AskTower
  <1>4. CASE End(h)
    BY <1>1, <1>3, <1>4, WorkerReads DEF End
  <1>5. CASE jobStatus[j] = "successful" /\ Hold(h, "save_complete", object)
    <2>1. /\ object \in RequestRow /\ object.job = j /\ object.task = Held(h).task
          /\ object.state = "COMPLETE"
      BY <1>1, <1>2 DEF RequestRow, RequestState
    <2>2. thread' = [thread EXCEPT ![h] = new]
      BY <1>5 DEF Hold, Then, IInv, Typed
    <2>3. "save_complete" \in Point
      BY DEF WorkerPoint, Point
    <2> HIDE DEF object
    <2>4. new \in Record /\ new.at = "save_complete" /\ new.row = object
      BY <1>1, <2>1, <2>3, ThenFields
    <2> HIDE DEF new
    <2>5. thread'[h] = new
      BY <1>1, <2>2 DEF IInv, Typed
    <2>6. Checking(h, r, j)'
      BY <1>2, <1>3, <1>5, <2>1, <2>4, <2>5 DEF Checking, Held, tables, tower
    <2> QED
      BY <1>1, <1>3, <2>2, <2>4, <2>6, WorkerReads
  <1> QED
    BY <1>3, <1>4, <1>5

(* The success is stored with the check task the worker has read, or refused. *)
LEMMA PolledSaveComplete ==
  ASSUME IInv, NEW r \in Request, NEW j \in Job, Polled(r, j), NEW h \in Worker, Own(h) = r,
         SaveComplete(h)
  PROVE  Polled(r, j)'
  <1>1. /\ h \in Thread /\ ~At(h, "idle") /\ thread[h] \in Record /\ Held(h) \in RequestRow
        /\ Checking(h, r, j) /\ Idle \in Record /\ Idle.request # r /\ j # 0
        /\ thread[h].at = "save_complete"
    BY PolledThread DEF SaveComplete, At
  <1>2. /\ Held(h).job = j /\ Held(h).task \in {task[r], j} /\ Held(h).state = "COMPLETE"
        /\ jobStatus[j] = "successful" /\ task[r] \in {0, j}
    BY <1>1 DEF Checking, Polled
  <1>3. Save(h, Held(h), "unschedule") /\ "unschedule" \in Point
    BY DEF SaveComplete, WorkerPoint, Point
  <1>4. CASE Held(h).task \in {0, task[r]}
    <2>1. /\ row'[r] = Held(h) /\ UNCHANGED <<instState, task, queue, tower>>
          /\ thread'[h].at = "unschedule" /\ thread'[h].row = Held(h) /\ thread'[h].request = r
      BY <1>1, <1>3, <1>4, SaveEffect
    <2>2. OnlyOwn(h)
      BY <1>1, <1>3, SaveIsOwn
    <2>3. Held(h).task = task[r]
      BY <1>1, <1>2, <1>4
    <2>4. Settling(r)'
      BY <2>1 DEF Settling, Own
    <2>5. Delivering(r) => Delivering(r)'
      BY <1>1, <2>2, NotMissed
    <2>6. Kept(r, j)
      BY PolledParts
    <2>7. Kept(r, j)'
      BY <1>2, <2>1, <2>3, <2>4, <2>5, <2>6 DEF Kept, InstOf, tower
    <2>8. Checking(h, r, j)'
      BY <1>2, <2>1, <2>3 DEF Checking, Held, tower
    <2> QED
      BY <2>1, <2>2, <2>7, <2>8, WorkerGoesOn
  <1>5. CASE Held(h).task \notin {0, task[r]}
    <2>1. thread' = [thread EXCEPT ![h] = Idle] /\ UNCHANGED <<tables, tower>>
      BY <1>3, <1>5 DEF Save, End, tables
    <2> QED
      BY <1>1, <2>1, WorkerReads
  <1> QED
    BY <1>4, <1>5

(* One worker takes the check task away, and is the one that delivers. *)
LEMMA PolledUnschedule ==
  ASSUME IInv, NEW r \in Request, NEW j \in Job, Polled(r, j), NEW h \in Worker, Own(h) = r,
         Unschedule(h)
  PROVE  Polled(r, j)'
  <1>1. /\ h \in Thread /\ ~At(h, "idle") /\ thread[h] \in Record /\ Held(h) \in RequestRow
        /\ Checking(h, r, j) /\ Idle \in Record /\ Idle.request # r /\ j # 0
        /\ thread[h].at = "unschedule"
    BY PolledThread DEF Unschedule, At
  <1>2. /\ Held(h).job = j /\ Held(h).task \in {task[r], j} /\ Held(h).state = "COMPLETE"
        /\ jobStatus[j] = "successful" /\ task[r] \in {0, j} /\ row[r].task = task[r]
        /\ row[r].job = j /\ row[r].state \in {"PROCESSING", "COMPLETE"}
    BY <1>1 DEF Checking, Polled
  <1>3. CASE Held(h).task # 0 /\ task[r] = Held(h).task
    <2> DEFINE new == Then(thread[h], "success", Held(h))
    <2>1. /\ task' = [task EXCEPT ![r] = 0]
          /\ row' = [row EXCEPT ![r].task = IF @ = task[r] THEN 0 ELSE @]
          /\ Hold(h, "success", Held(h)) /\ UNCHANGED <<instState, queue, tower>>
      BY <1>2, <1>3 DEF Unschedule
    <2>2. /\ row'[r].job = j /\ row'[r].state \in {"PROCESSING", "COMPLETE"} /\ row'[r].task = 0
          /\ task'[r] = 0
      <3>1. row[r] \in RequestRow
        BY DEF IInv, Typed
      <3>2. row'[r] = [row[r] EXCEPT !.task = 0]
        BY <1>2, <2>1 DEF IInv, Typed
      <3> QED
        BY <1>2, <2>1, <3>1, <3>2 DEF RequestRow, IInv, Typed
    <2>3. thread'[h] = new /\ "success" \in Point
      BY <1>1, <2>1 DEF Hold, Then, IInv, Typed, WorkerPoint, Point
    <2>4. /\ thread'[h].at = "success" /\ thread'[h].row = Held(h) /\ thread'[h].request = r
      BY <1>1, <2>3, ThenFields DEF Own
    <2>5. OnlyOwn(h)
      BY WorkerStepIsOwn DEF WorkerStep
    <2>6. Delivering(r)' /\ InstOf(r)' = Busy[TypeOf[r]]
      BY <1>1, <1>2, <1>3, <2>1, <2>4 DEF Delivering, Own, InstOf, Polled
    <2>7. Kept(r, j)'
      BY <1>1, <1>2, <2>1, <2>2, <2>6 DEF Kept, tower
    <2>8. Checking(h, r, j)'
      BY <1>1, <1>2, <1>3, <2>1, <2>2, <2>4 DEF Checking, Held, tower
    <2> QED
      BY <2>1, <2>2, <2>5, <2>7, <2>8, WorkerGoesOn
  <1>4. CASE ~(Held(h).task # 0 /\ task[r] = Held(h).task)
    <2>1. thread' = [thread EXCEPT ![h] = Idle] /\ UNCHANGED <<tables, tower>>
      BY <1>4 DEF Unschedule, End, tables
    <2>2. task[r] # j
      BY <1>1, <1>2, <1>4
    <2> QED
      BY <1>1, <2>1, <2>2, WorkerReads
  <1> QED
    BY <1>3, <1>4

LEMMA BusySucceeds ==
  \A k \in Type : Busy[k] \in SuccessFrom[k] /\ Busy[k] # SuccessState[k]
  BY DEF Type, Busy, SuccessFrom, SuccessState

LEMMA PolledReadForSuccess ==
  ASSUME IInv, NEW r \in Request, NEW j \in Job, Polled(r, j), NEW h \in Worker, Own(h) = r,
         ReadForSuccess(h)
  PROVE  Polled(r, j)'
  <1> DEFINE s == instState[Target(h)]
             new == Saw(thread[h], "save_success", s)
  <1>1. /\ h \in Thread /\ ~At(h, "idle") /\ thread[h] \in Record /\ Held(h) = thread[h].row
        /\ Checking(h, r, j) /\ Idle \in Record /\ Idle.request # r /\ j # 0
        /\ thread[h].at = "success" /\ s = InstOf(r) /\ Kind(h) = TypeOf[r]
    BY PolledThread DEF ReadForSuccess, At, InstOf
  <1>2. s \in InstanceState /\ "save_success" \in Point /\ TypeOf[r] \in Type
    BY <1>1, TargetsAreEarned, ConstantsAssumption DEF WorkerPoint, Point
  <1>3. /\ new \in Record /\ new.at = "save_success" /\ new.row = Held(h)
        /\ new.request = r
    <2> HIDE DEF s
    <2> QED
      BY <1>1, <1>2, SawFields DEF Own
  <1>4. task[r] = 0 /\ (InstOf(r) = SuccessState[TypeOf[r]] \/ InstOf(r) = Busy[TypeOf[r]])
    BY <1>1 DEF Checking, Polled
  <1>5. /\ UNCHANGED <<tables, tower>>
        /\ \/ s \in SuccessFrom[TypeOf[r]] /\ thread' = [thread EXCEPT ![h] = new]
           \/ s \notin SuccessFrom[TypeOf[r]] /\ thread' = [thread EXCEPT ![h] = Idle]
    BY <1>1 DEF ReadForSuccess, ReadInstance, End, Saw, IInv, Typed
  <1>6. CASE s \in SuccessFrom[TypeOf[r]] /\ thread' = [thread EXCEPT ![h] = new]
    <2> HIDE DEF new
    <2>1. thread'[h] = new
      BY <1>1, <1>6 DEF IInv, Typed
    <2>2. Checking(h, r, j)'
      BY <1>1, <1>3, <1>4, <1>5, <2>1 DEF Checking, Held, tables, tower
    <2> QED
      BY <1>1, <1>3, <1>5, <1>6, <2>2, WorkerReads
  <1>7. CASE s \notin SuccessFrom[TypeOf[r]] /\ thread' = [thread EXCEPT ![h] = Idle]
    <2>1. InstOf(r) = SuccessState[TypeOf[r]]
      BY <1>1, <1>2, <1>4, <1>7, BusySucceeds
    <2> QED
      BY <1>1, <1>5, <1>7, <2>1, WorkerReads
  <1> QED
    BY <1>5, <1>6, <1>7

LEMMA PolledSaveSuccess ==
  ASSUME IInv, NEW r \in Request, NEW j \in Job, Polled(r, j), NEW h \in Worker, Own(h) = r,
         SaveSuccess(h)
  PROVE  Polled(r, j)'
  <1>1. /\ h \in Thread /\ ~At(h, "idle") /\ Checking(h, r, j) /\ Idle.request # r /\ j # 0
        /\ thread[h].at = "save_success" /\ Kind(h) = TypeOf[r] /\ Target(h) = InstanceOf[r]
    BY PolledThread DEF SaveSuccess, At
  <1>2. task[r] = 0
    BY <1>1 DEF Checking
  <1>3. /\ instState' = [instState EXCEPT ![InstanceOf[r]] = SuccessState[TypeOf[r]]]
        /\ thread' = [thread EXCEPT ![h] = Idle] /\ UNCHANGED <<row, task, queue, tower>>
    BY <1>1 DEF SaveSuccess, SaveInstance, End
  <1>4. InstOf(r)' = SuccessState[TypeOf[r]]
    BY <1>3, ConstantsAssumption DEF InstOf, IInv, Typed
  <1>5. OnlyOwn(h)
    BY WorkerStepIsOwn DEF WorkerStep
  <1>6. Own(h)' # r
    BY <1>1, <1>3 DEF Own, IInv, Typed
  <1>7. Kept(r, j)
    BY PolledParts
  <1>8. Kept(r, j)'
    BY <1>1, <1>2, <1>3, <1>4, <1>7 DEF Kept, tower
  <1> QED
    BY <1>3, <1>5, <1>6, <1>8, WorkerGoesOn

LEMMA PolledWorkerStep ==
  ASSUME IInv, NEW r \in Request, NEW j \in Job, Polled(r, j),
         jobStatus[j] \in {"running", "successful"},
         NEW h \in Worker, Own(h) = r, WorkerStep(h)
  PROVE  UNCHANGED tower /\ Polled(r, j)'
  <1>1. thread[h].at \in {"ask", "save_complete", "unschedule", "success", "save_success"}
    BY DEF Polled, Checking
  <1>2. /\ ~(\E q \in Request : BeginCheck(h, q) /\ row[q].job # 0)
        /\ ~ReadForFailure(h) /\ ~SaveFailure(h) /\ ~SaveFailed(h)
    BY <1>1 DEF BeginCheck, Load, ReadForFailure, SaveFailure, SaveFailed, At
  <1>3. ASSUME NEW q \in Request, BeginCheck(h, q), row[q].job = 0
        PROVE  UNCHANGED tower /\ Polled(r, j)'
    <2>1. UNCHANGED <<tables, tower, thread>>
      BY <1>3 DEF BeginCheck
    <2> QED
      BY <2>1 DEF Polled, Checking, Own, Held, InstOf, tables, tower
  <1>4. AskTower(h) \/ SaveComplete(h) \/ Unschedule(h) \/ ReadForSuccess(h) \/ SaveSuccess(h)
           => UNCHANGED tower
    BY DEF AskTower, SaveComplete, Save, Unschedule, ReadForSuccess, ReadInstance, SaveSuccess,
           SaveInstance
  <1> QED
    BY <1>2, <1>3, <1>4, PolledAsk, PolledSaveComplete, PolledUnschedule, PolledReadForSuccess,
       PolledSaveSuccess DEF WorkerStep

-----------------------------------------------------------------------------
(* Every request is followed after every step. *)

(* A handler keeps its request until it ends. *)
LEMMA HoldKeepsRequest ==
  ASSUME IInv, NEW h \in Thread, NEW point, NEW object,
         \/ Hold(h, point, object) \/ End(h) \/ Save(h, object, point)
         \/ SaveInstance(h, object, point) \/ ReadInstance(h, object, point)
  PROVE  Own(h)' \in {Own(h), None}
  <1>1. thread \in [Thread -> Record]
    BY DEF IInv, Typed
  <1>2. ASSUME NEW o, Hold(h, point, o) PROVE Own(h)' \in {Own(h), None}
    BY <1>1, <1>2 DEF Hold, Own, Record
  <1>3. CASE End(h)
    BY <1>1, <1>3, IdleIsReady DEF End, Own
  <1>4. CASE ReadInstance(h, object, point) /\ ~End(h)
    BY <1>1, <1>4 DEF ReadInstance, Own, Record
  <1> QED
    BY <1>2, <1>3, <1>4 DEF Save, SaveInstance

LEMMA WebKeepsRequest ==
  ASSUME IInv, NEW h \in Web, WebStep(h), ~(\E q \in Request, goal \in Goal : Begin(h, q, goal))
  PROVE  Own(h)' \in {Own(h), None}
  <1>1. h \in Thread /\ thread \in [Thread -> Record]
    BY DEF Thread, IInv, Typed
  <1>2. CASE Launch(h)
    BY <1>1, <1>2 DEF Launch, Own, Record
  <1>3. CASE CheckPermission(h)
    BY <1>1, <1>3, HoldKeepsRequest DEF CheckPermission
  <1>4. CASE SaveAnswers(h) \/ SaveGoal(h) \/ SaveStarted(h) \/ SaveLaunched(h)
             \/ SaveScheduled(h) \/ SaveLast(h)
    BY <1>1, <1>4, HoldKeepsRequest DEF SaveAnswers, SaveGoal, SaveStarted, SaveLaunched,
                                        SaveScheduled, SaveLast
  <1>5. CASE ResetInstance(h) \/ StartInstance(h) \/ AbortInstance(h)
    BY <1>1, <1>5, HoldKeepsRequest DEF ResetInstance, StartInstance, AbortInstance
  <1>6. CASE LaunchFails(h) \/ Schedule(h)
    BY <1>1, <1>6, HoldKeepsRequest DEF LaunchFails, Schedule
  <1> QED
    BY <1>2, <1>3, <1>4, <1>5, <1>6 DEF WebStep

LEMMA WorkerKeepsRequest ==
  ASSUME IInv, NEW h \in Worker, WorkerStep(h), ~(\E q \in Request : BeginCheck(h, q))
  PROVE  Own(h)' \in {Own(h), None} /\ ~At(h, "idle") /\ UNCHANGED tower
  <1>1. h \in Thread
    BY DEF Thread
  <1>2. CASE AskTower(h) \/ Unschedule(h)
    BY <1>1, <1>2, HoldKeepsRequest DEF AskTower, Unschedule, At
  <1>3. CASE SaveComplete(h) \/ SaveFailed(h)
    BY <1>1, <1>3, HoldKeepsRequest DEF SaveComplete, SaveFailed, Save, At
  <1>4. CASE ReadForSuccess(h) \/ ReadForFailure(h)
    BY <1>1, <1>4, HoldKeepsRequest DEF ReadForSuccess, ReadForFailure, ReadInstance, At
  <1>5. CASE SaveSuccess(h) \/ SaveFailure(h)
    BY <1>1, <1>5, HoldKeepsRequest DEF SaveSuccess, SaveFailure, SaveInstance, At
  <1> QED
    BY <1>2, <1>3, <1>4, <1>5 DEF WorkerStep

LEMMA SameTablesFollow ==
  ASSUME NEW r \in Request, FollowsOne(r), UNCHANGED <<tables, tower, thread>>
  PROVE  FollowsOne(r)'
  <1>1. /\ NoJob(r)' = NoJob(r)
        /\ \A j \in Job : OnlyJob(r, j)' = OnlyJob(r, j)
    BY DEF tower, NoJob, OnlyJob
  <1>2. Fresh(r) => Fresh(r)'
    BY DEF Fresh, NoWorker, Own, Held, InstOf, tables
  <1>3. ASSUME NEW j \in Job PROVE Launching(r, j) => Launching(r, j)'
    BY DEF Launching, NoWorker, Own, Held, InstOf, tables
  <1>4. ASSUME NEW j \in Job PROVE Polled(r, j) => Polled(r, j)'
    BY DEF Polled, Checking, Own, Held, InstOf, tables, tower
  <1> QED
    BY <1>1, <1>2, <1>3, <1>4 DEF FollowsOne, tower

(* The jobs stay: it is enough that the phase the request is in is kept. *)
LEMMA SameJobsFollow ==
  ASSUME NEW r \in Request, FollowsOne(r), UNCHANGED tower,
         NoJob(r) /\ Fresh(r) => Fresh(r)',
         \A j \in Job : OnlyJob(r, j) /\ jobStatus[j] \in {"running", "successful"} =>
             /\ Launching(r, j) => Launching(r, j)' \/ Polled(r, j)'
             /\ Polled(r, j) => Launching(r, j)' \/ Polled(r, j)'
  PROVE  FollowsOne(r)'
  <1>1. /\ NoJob(r)' = NoJob(r)
        /\ \A j \in Job : OnlyJob(r, j)' = OnlyJob(r, j)
    BY DEF tower, NoJob, OnlyJob
  <1> QED
    BY <1>1 DEF FollowsOne, tower

LEMMA WebTower ==
  ASSUME NEW h \in Web, WebStep(h), ~Launch(h)
  PROVE  UNCHANGED tower
  BY DEF WebStep, Begin, CheckPermission, SaveAnswers, ResetInstance, AbortInstance, SaveGoal,
         StartInstance, SaveStarted, LaunchFails, SaveLaunched, Schedule, SaveScheduled, SaveLast,
         Save, SaveInstance, ReadInstance

LEMMA OwnWebStepFollows ==
  ASSUME IInv, OneHandlerEach, NEW r \in Request, FollowsOne(r), NEW h \in Web, Own(h) = r,
         WebStep(h)
  PROVE  FollowsOne(r)'
  <1>1. CASE ~Launch(h)
    <2>1. UNCHANGED tower
      BY <1>1, WebTower
    <2>2. Fresh(r) => Fresh(r)'
      BY <1>1, FreshWebStep
    <2>3. \A j \in Job : /\ Launching(r, j) => Launching(r, j)' \/ Polled(r, j)'
                         /\ Polled(r, j) => Launching(r, j)' \/ Polled(r, j)'
      BY LaunchingWebStep, PolledWebStep
    <2> QED
      BY <2>1, <2>2, <2>3, SameJobsFollow
  <1>2. CASE Launch(h)
    <2>1. /\ lastJob + 1 \in Job /\ jobOwner[lastJob + 1] = None
          /\ jobOwner' = [jobOwner EXCEPT ![lastJob + 1] = r]
      BY <1>2, ConstantsAssumption DEF Launch, Job, IInv, Typed, JobsAreLaunched
    <2>2. jobOwner'[lastJob + 1] = r
      BY <2>1 DEF IInv, Typed
    <2>3. ~NoJob(r)'
      BY <2>1, <2>2 DEF NoJob
    <2>4. ASSUME NEW j \in Job, OnlyJob(r, j)' PROVE j = lastJob + 1 /\ NoJob(r)
      <3>1. j = lastJob + 1
        BY <2>1, <2>2, <2>4 DEF OnlyJob
      <3>2. ASSUME NEW k \in Job, jobOwner[k] = r PROVE FALSE
        <4>1. k # lastJob + 1
          BY <2>1, <3>2, ConstantsAssumption
        <4>2. jobOwner'[k] = r
          BY <2>1, <3>2, <4>1 DEF IInv, Typed
        <4> QED
          BY <2>4, <3>1, <4>1, <4>2 DEF OnlyJob
      <3> QED
        BY <3>1, <3>2 DEF NoJob
    <2>5. ASSUME NEW j \in Job, OnlyJob(r, j)' PROVE Launching(r, j)'
      <3>1. Fresh(r) /\ j = lastJob + 1
        BY <2>4, <2>5 DEF FollowsOne
      <3> QED
        BY <1>2, <3>1, LaunchIsFirst
    <2> QED
      BY <2>3, <2>5 DEF FollowsOne
  <1> QED
    BY <1>1, <1>2

LEMMA BeginFollows ==
  ASSUME IInv, OneHandlerEach, OneHandlerEach', NEW r \in Request, FollowsOne(r), NEW h \in Web,
         NEW goal \in Goal, Begin(h, r, goal)
  PROVE  FollowsOne(r)'
  <1>1. UNCHANGED tower
    BY DEF Begin
  <1>2. Fresh(r) => Fresh(r)'
    BY FreshBegin
  <1>3. \A j \in Job : ~Launching(r, j) /\ ~Polled(r, j)
    BY LaunchingBegin, PolledBegin
  <1> QED
    BY <1>1, <1>2, <1>3, SameJobsFollow

LEMMA OwnWorkerStepFollows ==
  ASSUME IInv, NEW r \in Request, FollowsOne(r), NEW h \in Worker, Own(h) = r, WorkerStep(h),
         UNCHANGED tower
  PROVE  FollowsOne(r)'
  <1>1. ~Fresh(r) /\ \A j \in Job : ~Launching(r, j)
    BY DEF Fresh, Launching, NoWorker
  <1>2. \A j \in Job : jobStatus[j] \in {"running", "successful"} /\ Polled(r, j) => Polled(r, j)'
    BY PolledWorkerStep
  <1> QED
    BY <1>1, <1>2, SameJobsFollow

LEMMA BeginCheckFollows ==
  ASSUME IInv, OneHandlerEach', NEW r \in Request, FollowsOne(r), NEW h \in Worker,
         BeginCheck(h, r)
  PROVE  FollowsOne(r)'
  <1>1. UNCHANGED <<tables, tower>>
    BY DEF BeginCheck
  <1>2. CASE row[r].job = 0
    BY <1>1, <1>2, SameTablesFollow DEF BeginCheck
  <1>3. CASE row[r].job # 0
    <2>1. ~Fresh(r) /\ \A j \in Job : ~Launching(r, j)
      BY <1>3 DEF Fresh, Launching
    <2>2. \A j \in Job : Polled(r, j) => Polled(r, j)'
      BY PolledBeginCheck
    <2> QED
      BY <1>1, <2>1, <2>2, SameJobsFollow
  <1> QED
    BY <1>2, <1>3

LEMMA JobEndsFollows ==
  ASSUME IInv, NEW r \in Request, FollowsOne(r), NEW k \in Job, JobEnds(k)
  PROVE  FollowsOne(r)'
  <1>1. UNCHANGED <<tables, queue, lastJob, jobOwner, thread>>
    BY DEF JobEnds
  <1>2. /\ \A j \in Job : j # k => jobStatus'[j] = jobStatus[j]
        /\ jobStatus[k] = "running" /\ jobStatus'[k] # "running"
    BY DEF JobEnds, IInv, Typed
  <1>3. /\ NoJob(r)' = NoJob(r)
        /\ \A j \in Job : OnlyJob(r, j)' = OnlyJob(r, j)
    BY <1>1 DEF NoJob, OnlyJob
  <1>4. Fresh(r) => Fresh(r)'
    BY <1>1 DEF Fresh, NoWorker, Own, Held, InstOf, tables
  <1>5. ASSUME NEW j \in Job PROVE Launching(r, j) => Launching(r, j)'
    BY <1>1 DEF Launching, NoWorker, Own, Held, InstOf, tables
  <1>6. ASSUME NEW j \in Job, Polled(r, j) PROVE Polled(r, j)'
    <2>1. \A h \in Worker : Own(h) = r => Checking(h, r, j)
      BY <1>6 DEF Polled
    <2>2. ASSUME NEW h \in Worker, Own(h) = r PROVE Checking(h, r, j)'
      BY <1>1, <1>2, <2>1, <2>2 DEF Checking, Held, tables
    <2>3. jobStatus'[j] = "running" => jobStatus[j] = "running"
      BY <1>2
    <2> QED
      BY <1>1, <1>6, <2>2, <2>3 DEF Polled, Own, Held, InstOf, tables
  <1> QED
    BY <1>1, <1>2, <1>3, <1>4, <1>5, <1>6 DEF FollowsOne

LEMMA FollowsIsKept ==
  ASSUME ~Crashes, OneRequestEach, IInv, Follows, OneHandlerEach, OneHandlerEach', [Next]_vars
  PROVE  Follows'
  <1> SUFFICES ASSUME NEW r \in Request PROVE FollowsOne(r)'
    BY DEF Follows
  <1>1. FollowsOne(r) /\ r # None /\ Web \subseteq Thread /\ Worker \subseteq Thread
        /\ thread \in [Thread -> Record]
    BY ConstantsAssumption DEF Follows, Thread, IInv, Typed
  <1>2. ASSUME NEW h \in Web, WebStep(h) PROVE FollowsOne(r)'
    <2>1. OnlyOwn(h)
      BY <1>2, WebStepIsOwn
    <2>2. CASE Own(h) = r
      BY <1>1, <1>2, <2>2, OwnWebStepFollows
    <2>3. ASSUME Own(h) # r, NEW q \in Request, NEW goal \in Goal, Begin(h, q, goal)
          PROVE  FollowsOne(r)'
      <3>1. Own(h)' = q
        BY <1>1, <2>3, IdleIsReady DEF Begin, Load, Own, Record, Idle
      <3>2. CASE q = r
        BY <1>1, <2>3, <3>2, BeginFollows
      <3>3. CASE q # r
        BY <1>1, <2>1, <2>3, <3>1, <3>3, OthersAreElsewhere, FollowedElsewhere
      <3> QED
        BY <3>2, <3>3
    <2>4. CASE Own(h) # r /\ ~(\E q \in Request, goal \in Goal : Begin(h, q, goal))
      <3>1. Own(h)' # r
        BY <1>1, <1>2, <2>4, WebKeepsRequest
      <3> QED
        BY <1>1, <2>1, <2>4, <3>1, OthersAreElsewhere, FollowedElsewhere
    <2> QED
      BY <2>2, <2>3, <2>4
  <1>3. ASSUME NEW h \in Worker, WorkerStep(h) PROVE FollowsOne(r)'
    <2>1. OnlyOwn(h)
      BY <1>3, WorkerStepIsOwn
    <2>2. ASSUME NEW q \in Request, BeginCheck(h, q) PROVE FollowsOne(r)'
      <3>1. CASE q = r
        BY <1>1, <2>2, <3>1, BeginCheckFollows
      <3>2. CASE UNCHANGED thread
        BY <1>1, <2>2, <3>2, SameTablesFollow DEF BeginCheck
      <3>3. CASE q # r /\ Load(h, q, None, "ask")
        <4>1. Own(h)' = q /\ thread[h] = Idle
          BY <1>1, <3>3, IdleIsReady DEF Load, Own, Record, Idle, IInv, ThreadsAreSound, At
        <4>2. Own(h) # r
          BY <1>1, <4>1, IdleIsReady DEF Own
        <4> QED
          BY <1>1, <2>1, <3>3, <4>1, <4>2, OthersAreElsewhere, FollowedElsewhere
      <3> QED
        BY <2>2, <3>1, <3>2, <3>3 DEF BeginCheck
    <2>3. CASE ~(\E q \in Request : BeginCheck(h, q))
      <3>1. Own(h)' \in {Own(h), None} /\ UNCHANGED tower
        BY <1>3, <2>3, WorkerKeepsRequest
      <3>2. CASE Own(h) = r
        BY <1>1, <1>3, <3>1, <3>2, OwnWorkerStepFollows
      <3>3. CASE Own(h) # r
        BY <1>1, <2>1, <3>1, <3>3, OthersAreElsewhere, FollowedElsewhere
      <3> QED
        BY <3>2, <3>3
    <2> QED
      BY <2>2, <2>3
  <1>4. ASSUME NEW h \in Thread, Crash(h) PROVE FollowsOne(r)'
    BY <1>4 DEF Crash
  <1>5. ASSUME NEW q \in Request, BeatTick(q) PROVE FollowsOne(r)'
    BY <1>1, <1>5, SameTablesFollow DEF BeatTick
  <1>6. ASSUME NEW j \in Job, JobEnds(j) PROVE FollowsOne(r)'
    BY <1>1, <1>6, JobEndsFollows
  <1>7. CASE UNCHANGED vars
    BY <1>1, <1>7, SameTablesFollow DEF vars
  <1> QED
    BY <1>2, <1>3, <1>4, <1>5, <1>6, <1>7 DEF Next

LEMMA FollowsAtStart == Init => Follows
  <1> SUFFICES ASSUME Init, NEW r \in Request PROVE FollowsOne(r)
    BY DEF Follows
  <1>1. /\ row[r].job = 0 /\ row[r].task = 0 /\ task[r] = 0
        /\ \A h \in Thread : Own(h) # r
        /\ \A j \in Job : jobOwner[j] # r
    BY IdleIsReady, ConstantsAssumption DEF Init, Own
  <1>2. Fresh(r)
    BY <1>1 DEF Fresh, NoWorker, Thread
  <1> QED
    BY <1>1, <1>2 DEF FollowsOne, OnlyJob

LEMMA Followed ==
  ASSUME ~Crashes, OneRequestEach
  PROVE  Spec /\ []OneHandlerEach => [](IInv /\ Follows)
  <1>1. Follows /\ IInv /\ OneHandlerEach /\ OneHandlerEach' /\ [Next]_vars => Follows'
    BY FollowsIsKept
  <1> QED
    BY <1>1, FollowsAtStart, Inductive, PTL DEF Spec

(* The first job of a request is followed until it ends, for every number of requests,
   workers and waiting checks, and of administrators that come one after the other: a running
   job nobody retried is in the row, the row is PROCESSING, its check task exists, and the
   instance is busy.  Each hypothesis is needed: two administrators at work
   on one request, a thread that dies after the launch, and two requests processed at once on
   one instance each break it on an instance with two threads of the web server. *)
THEOREM FirstJobsAreFollowed ==
  ASSUME ~Crashes, OneRequestEach
  PROVE  Spec /\ []OneHandlerEach => []FirstJobIsFollowed
  <1>1. IInv /\ Follows => FirstJobIsFollowed
    <2> SUFFICES ASSUME IInv, Follows, NEW r \in Request, NEW j \in Job, OnlyJob(r, j),
                        jobStatus[j] = "running", Quiet(r)
                 PROVE  /\ row[r] = [state |-> "PROCESSING", job |-> j, task |-> task[r]]
                        /\ task[r] # 0
                        /\ instState[InstanceOf[r]] = Busy[TypeOf[r]]
      BY DEF FirstJobIsFollowed
    <2>1. ~Launching(r, j)
      BY DEF Launching, Quiet, Thread
    <2>2. Polled(r, j)
      BY <2>1 DEF Follows, FollowsOne
    <2>3. /\ row[r].state = "PROCESSING" /\ row[r].job = j /\ row[r].task = task[r]
          /\ task[r] = j /\ j # 0 /\ j \in 0..MaxJob /\ InstOf(r) = Busy[TypeOf[r]]
      BY <2>2, ConstantsAssumption DEF Polled, Job
    <2>4. row[r] = Stored("PROCESSING", j, j)
      <3>1. row[r] \in RequestRow /\ Stored("PROCESSING", j, j) \in RequestRow
        BY <2>3 DEF IInv, Typed, Stored, RequestRow, RequestState
      <3> QED
        BY <2>3, <3>1, RowIsItsFields DEF Stored
    <2> QED
      BY <2>3, <2>4 DEF Stored, InstOf
  <1> QED
    BY <1>1, Followed, PTL

(* However many workers see the success of the first job: once they are done, the check task
   is gone and the instance got the outcome. *)
THEOREM CompletionsAreDelivered ==
  ASSUME ~Crashes, OneRequestEach
  PROVE  Spec /\ []OneHandlerEach => []CompletionIsDelivered
  <1>1. IInv /\ Follows => CompletionIsDelivered
    <2> SUFFICES ASSUME IInv, Follows, NEW r \in Request, NEW j \in Job, OnlyJob(r, j),
                        row[r].state = "COMPLETE", Quiet(r)
                 PROVE  task[r] = 0 /\ instState[InstanceOf[r]] = SuccessState[TypeOf[r]]
      BY DEF CompletionIsDelivered
    <2>1. row[r].job \in Job /\ jobOwner[row[r].job] = r /\ jobStatus[row[r].job] = "successful"
      BY ConstantsAssumption DEF IInv, Typed, RowsAreEarned, RowIsEarned, RequestRow, Job
    <2>2. row[r].job = j
      BY <2>1 DEF OnlyJob
    <2>3. ~Launching(r, j)
      BY DEF Launching, Quiet, Thread
    <2>4. Polled(r, j)
      BY <2>1, <2>2, <2>3 DEF Follows, FollowsOne
    <2> QED
      BY <2>4 DEF Polled, Quiet, Thread, InstOf
  <1> QED
    BY <1>1, Followed, PTL

=============================================================================
