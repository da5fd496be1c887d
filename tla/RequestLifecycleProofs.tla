------------------------ MODULE RequestLifecycleProofs ------------------------
(* Theorems about RequestLifecycle, for every number of requests, instances,
   operations and jobs. *)
EXTENDS RequestLifecycle, TLAPS

AnyInstState == InstanceState \cup {"FREE", "GONE"}

RowType == [state : RequestState, approval : ApprovalState,
            inst : AnyInstState, started : BOOLEAN]

-----------------------------------------------------------------------------
(* The routines of request.py map rows to rows. *)

LEMMA TablesType ==
    /\ \A t \in Type : /\ Busy[t] \in InstanceState
                       /\ FailedState[t] \in InstanceState
                       /\ SuccessState[t] \in InstanceState
    /\ \A s \in AnyInstState : /\ LastStable(s) \in AnyInstState
                               /\ AbortPending(s) \in AnyInstState
  BY DEF Type, Busy, FailedState, SuccessState, InstanceState, AnyInstState,
         LastStable, AbortPending

LEMMA RowIsRow ==
  ASSUME NEW s \in RequestState, NEW a \in ApprovalState, NEW i \in AnyInstState
  PROVE  Row(s, a, i) \in RowType
  BY DEF Row, RowType

LEMMA ProcessedType ==
  ASSUME NEW o \in Operation, NEW row \in RowType
  PROVE  Processed(o, row) \subseteq RowType
  <1>1. OpType[o] \in Type
    BY ConstantsAssumption
  <1>2. Busy[OpType[o]] \in AnyInstState /\ FailedState[OpType[o]] \in AnyInstState
    BY <1>1, TablesType DEF AnyInstState
  <1>3. [row EXCEPT !.state = "PROCESSING", !.inst = Busy[OpType[o]], !.started = TRUE]
           \in RowType
    BY <1>2 DEF RowType, RequestState
  <1>4. [row EXCEPT !.state = "FAILED", !.inst = FailedState[OpType[o]]] \in RowType
    BY <1>2 DEF RowType, RequestState
  <1>5. \A p \in Orphaned \cap {o} : [row EXCEPT !.inst = Busy[OpType[p]]] \in RowType
    BY <1>2 DEF RowType
  <1>6. QED
    BY <1>3, <1>4, <1>5 DEF Processed

LEMMA AcceptedType ==
  ASSUME NEW o \in Operation, NEW row \in RowType
  PROVE  Accepted(o, row) \subseteq RowType
  <1>1. [row EXCEPT !.state = "ACCEPTED"] \in RowType
    BY DEF RowType, RequestState
  <1>2. QED
    BY <1>1, ProcessedType DEF Accepted

LEMMA AutoStepAcceptedType ==
  ASSUME NEW o \in Operation, NEW row \in RowType
  PROVE  AutoStepAccepted(o, row) \subseteq RowType
  <1>1. [row EXCEPT !.approval = "approved"] \in RowType
    BY DEF RowType, ApprovalState
  <1>2. Accepted(o, [row EXCEPT !.approval = "approved"]) \subseteq RowType
    BY <1>1, AcceptedType
  <1>3. \A w \in RowType : Accepted(o, w) \subseteq RowType
    BY AcceptedType
  <1>4. QED
    BY <1>2, <1>3 DEF AutoStepAccepted

LEMMA AutoAcceptedType ==
  ASSUME NEW o \in Operation, NEW row \in RowType
  PROVE  AutoAccepted(o, row) \subseteq RowType
  BY AcceptedType DEF AutoAccepted

LEMMA SubmittedType ==
  ASSUME NEW o \in Operation, NEW row \in RowType
  PROVE  /\ Submitted(o, row) \subseteq RowType
         /\ ReSubmittedByUi(o, row) \subseteq RowType
         /\ ReSubmittedByApi(o, row) \subseteq RowType
  <1>1. /\ [row EXCEPT !.approval = "none"] \in RowType
        /\ [row EXCEPT !.approval = "waiting"] \in RowType
    BY DEF RowType, ApprovalState
  <1>2. WithoutWorkflow(o, row) \subseteq RowType
    BY <1>1, AutoAcceptedType DEF WithoutWorkflow
  <1>3. WithWorkflow(o, row) \subseteq RowType
    BY <1>1, AutoAcceptedType, AutoStepAcceptedType DEF WithManualStep, WithWorkflow
  <1>4. \A w \in RowType : SavedAgain(o, row, w) \subseteq RowType
    <2> SUFFICES ASSUME NEW w \in RowType PROVE SavedAgain(o, row, w) \subseteq RowType
      OBVIOUS
    <2>1. [w EXCEPT !.state = "SUBMITTED"] \in RowType
      BY DEF RowType, RequestState
    <2>2. QED
      BY <2>1, AutoAcceptedType DEF SavedAgain
  <1>5. Submitted(o, row) \subseteq RowType
    BY <1>2, <1>3 DEF Submitted
  <1>6. ReSubmittedByUi(o, row) \subseteq RowType
    BY <1>1, <1>3 DEF ReSubmittedByUi
  <1>7. QED
    BY <1>4, <1>5, <1>6 DEF ReSubmittedByApi

-----------------------------------------------------------------------------
(* Type correctness. *)

LEMMA StoreType ==
  ASSUME TypeOK, NEW r \in Request, NEW i \in Instance, NEW row \in RowType,
         Store(r, i, row)
  PROVE  /\ reqState' \in [Request -> RequestState \cup {"FREE", "GONE"}]
         /\ reqState'[r] # "FREE"
         /\ \A q \in Request \ {r} : reqState'[q] = reqState[q]
         /\ approval' \in [Request -> ApprovalState]
         /\ towerJobId' \in [Request -> 0..MaxJob]
         /\ expired' \in [Request -> BOOLEAN]
         /\ instState' \in [Instance -> AnyInstState]
         /\ task' \in [Request -> BOOLEAN]
         /\ queue' \in [Request -> 0..MaxMsg]
         /\ lastJob' \in 0..MaxJob
         /\ jobStatus' \in [Job -> JobStatus]
         /\ jobOwner' \in [Job -> Request \cup {None}]
  <1>1. /\ row.state \in RequestState
        /\ row.approval \in ApprovalState
        /\ row.inst \in AnyInstState
        /\ row.started \in BOOLEAN
    BY DEF RowType
  <1>2. StoredState(r, row) \in RequestState /\ StoredState(r, row) # "FREE"
    BY <1>1 DEF StoredState, RequestState
  <1>3. CASE row.started
    <2>1. LaunchJob(r)
      BY <1>3 DEF Store
    <2>2. lastJob + 1 \in Job /\ lastJob + 1 \in 0..MaxJob
      BY <2>1, ConstantsAssumption DEF LaunchJob, TypeOK, Job
    <2>3. /\ lastJob' \in 0..MaxJob
          /\ jobStatus' \in [Job -> JobStatus]
          /\ jobOwner' \in [Job -> Request \cup {None}]
      BY <2>1, <2>2 DEF LaunchJob, TypeOK, JobStatus
    <2>4. /\ towerJobId' \in [Request -> 0..MaxJob]
          /\ expired' \in [Request -> BOOLEAN]
          /\ task' \in [Request -> BOOLEAN]
      BY <2>1, <2>2 DEF LaunchJob, TypeOK
    <2>5. QED
      BY <1>1, <1>2, <2>3, <2>4 DEF Store, TypeOK, AnyInstState
  <1>4. CASE ~row.started
    BY <1>1, <1>2, <1>4 DEF Store, TypeOK, AnyInstState, jobVars
  <1>5. QED
    BY <1>1, <1>3, <1>4

LEMMA StoreOwnType ==
  ASSUME TypeOK, NEW r \in Request, Exists(r), NEW rows, rows \subseteq RowType,
         StoreOwn(r, rows)
  PROVE  TypeOK'
  <1>1. PICK row \in rows : Store(r, target[r], row)
    BY DEF StoreOwn
  <1>2. target[r] \in Instance /\ operation' = operation /\ target' = target
    BY DEF TypeOK, Exists, RequestState, StoreOwn
  <1>3. reqState[r] # "FREE"
    BY DEF Exists, RequestState
  <1>4. QED
    BY <1>1, <1>2, <1>3, StoreType DEF TypeOK, AnyInstState

LEMMA CurrentRowType ==
  ASSUME TypeOK, NEW r \in Request, Exists(r)
  PROVE  /\ operation[r] \in Operation
         /\ target[r] \in Instance
         /\ InstOf(r) \in AnyInstState
         /\ approval[r] \in ApprovalState
         /\ CurrentRow(r) \in RowType
         /\ TypeOf(r) \in Type
  <1>1. operation[r] \in Operation /\ target[r] \in Instance
    BY DEF TypeOK, Exists, RequestState
  <1>2. InstOf(r) \in AnyInstState /\ approval[r] \in ApprovalState
    BY <1>1 DEF TypeOK, InstOf, AnyInstState
  <1>3. CurrentRow(r) \in RowType
    BY <1>2, RowIsRow DEF CurrentRow, Exists
  <1>4. TypeOf(r) \in Type
    BY <1>1, ConstantsAssumption DEF TypeOf
  <1>5. QED
    BY <1>1, <1>2, <1>3, <1>4

LEMMA CreationType ==
  ASSUME TypeOK, NEW r \in Request, Creation(r)
  PROVE  TypeOK'
  <1>1. PICK i \in Instance, o \in Operation, s \in {"PENDING", "AVAILABLE"} :
            CreateRequest(r, i, o, s)
    BY DEF Creation, RequestService, RequestOperationUI, RequestOperationAPI, RequestOperation
  <1>2. Row("SUBMITTED", "none", s) \in RowType
    BY RowIsRow DEF RequestState, ApprovalState, AnyInstState, InstanceState
  <1>3. PICK row \in RowType : Store(r, i, row)
    BY <1>1, <1>2, SubmittedType DEF CreateRequest
  <1>4. /\ operation' = [operation EXCEPT ![r] = o]
        /\ target' = [target EXCEPT ![r] = i]
    BY <1>1 DEF CreateRequest
  <1>5. o # None /\ i # None
    BY ConstantsAssumption
  <1>6. /\ operation' \in [Request -> Operation \cup {None}]
        /\ target' \in [Request -> Instance \cup {None}]
        /\ \A q \in Request : reqState'[q] # "FREE" => operation'[q] # None /\ target'[q] # None
    BY <1>3, <1>4, <1>5, StoreType DEF TypeOK
  <1>7. QED
    BY <1>3, <1>6, StoreType DEF TypeOK, AnyInstState

LEMMA ReviewType ==
  ASSUME TypeOK, NEW r \in Request, Review(r)
  PROVE  TypeOK'
  <1>1. CASE HoldRequest(r)
    BY <1>1 DEF HoldRequest, TypeOK, RequestState, jobVars
  <1> SUFFICES ASSUME ~HoldRequest(r) PROVE TypeOK'
    BY <1>1
  <1>2. Exists(r)
    BY DEF Review, ReSubmitUI, ReSubmitAPI, CancelRequest, RejectRequest, AcceptUI, AcceptAPI,
           AcceptRequest, ApproveLastStep, Exists, RequestState, CancelFrom, RejectFrom, AcceptFrom
  <1>3. /\ operation[r] \in Operation
        /\ InstOf(r) \in AnyInstState
        /\ approval[r] \in ApprovalState
        /\ CurrentRow(r) \in RowType
    BY <1>2, CurrentRowType
  <1>4. CASE ReSubmitUI(r) \/ ReSubmitAPI(r)
    BY <1>2, <1>3, <1>4, SubmittedType, StoreOwnType DEF ReSubmitUI, ReSubmitAPI
  <1>5. CASE CancelRequest(r) \/ RejectRequest(r)
    <2>1. /\ Row("CANCELED", approval[r], AbortPending(InstOf(r))) \in RowType
          /\ Row("REJECTED", approval[r], AbortPending(InstOf(r))) \in RowType
      BY <1>3, TablesType, RowIsRow DEF RequestState
    <2>2. QED
      BY <1>2, <1>5, <2>1, StoreOwnType DEF CancelRequest, RejectRequest
  <1>6. CASE AcceptUI(r) \/ AcceptAPI(r)
    <2>1. Row("ACCEPTED", approval[r], LastStable(InstOf(r))) \in RowType
      BY <1>3, TablesType, RowIsRow DEF RequestState
    <2>2. Accepted(operation[r], Row("ACCEPTED", approval[r], LastStable(InstOf(r)))) \subseteq RowType
      BY <1>3, <2>1, AcceptedType
    <2>3. QED
      BY <1>2, <1>6, <2>2, StoreOwnType DEF AcceptUI, AcceptAPI, AcceptRequest
  <1>7. CASE ApproveLastStep(r)
    <2>1. [CurrentRow(r) EXCEPT !.approval = "approved"] \in RowType
      BY <1>3 DEF RowType, ApprovalState
    <2>2. Accepted(operation[r], [CurrentRow(r) EXCEPT !.approval = "approved"]) \subseteq RowType
      BY <1>3, <2>1, AcceptedType
    <2>3. QED
      BY <1>2, <1>7, <2>1, <2>2, StoreOwnType DEF ApproveLastStep
  <1>8. QED
    BY <1>4, <1>5, <1>6, <1>7 DEF Review

LEMMA CheckType ==
  ASSUME TypeOK, NEW r \in Request, Check(r)
  PROVE  TypeOK'
  <1>1. queue' \in [Request -> 0..MaxMsg]
    <2>1. TakeMessage(r)
      BY DEF Check, CheckIgnored, CheckExpired, CheckSuccessful, CheckFailed
    <2>2. QED
      BY <2>1, ConstantsAssumption DEF TakeMessage, TypeOK
  <1>2. CASE CheckIgnored(r)
    BY <1>1, <1>2 DEF CheckIgnored, TypeOK, requestVars, jobVars
  <1>3. CASE ~CheckIgnored(r)
    <2>1. Exists(r)
      BY <1>3 DEF Check, CheckExpired, CheckSuccessful, CheckFailed, Exists, RequestState
    <2>2. TypeOf(r) \in Type /\ target[r] \in Instance
      BY <2>1, CurrentRowType
    <2>3. CASE CheckExpired(r)
      BY <1>1, <2>2, <2>3, TablesType
      DEF CheckExpired, DeletePeriodicTask, TypeOK, requestVars, jobVars
    <2>4. CASE CheckSuccessful(r)
      BY <1>1, <2>2, <2>4, TablesType
      DEF CheckSuccessful, DeletePeriodicTask, TypeOK, RequestState, jobVars
    <2>5. CASE CheckFailed(r)
      BY <1>1, <2>2, <2>5, TablesType
      DEF CheckFailed, DeletePeriodicTask, TypeOK, RequestState, jobVars
    <2>6. QED
      BY <1>3, <2>3, <2>4, <2>5 DEF Check
  <1>4. QED
    BY <1>2, <1>3

LEMMA RequestStepType ==
  ASSUME TypeOK, NEW r \in Request, RequestStep(r)
  PROVE  TypeOK'
  <1>1. CASE ProcessRequest(r)
    <2>1. Exists(r)
      BY <1>1 DEF ProcessRequest, ProcessFrom, Exists, RequestState
    <2>2. Processed(operation[r], CurrentRow(r)) \subseteq RowType
      BY <2>1, CurrentRowType, ProcessedType
    <2>3. QED
      BY <1>1, <2>1, <2>2, StoreOwnType DEF ProcessRequest
  <1>2. CASE TimePasses(r)
    BY <1>2 DEF TimePasses, TypeOK, jobVars
  <1>3. CASE BeatTick(r)
    BY <1>3, ConstantsAssumption DEF BeatTick, TypeOK, requestVars, jobVars
  <1>4. CASE ArchiveRequest(r)
    BY <1>4 DEF ArchiveRequest, TypeOK, RequestState, jobVars
  <1>5. CASE UnarchiveRequest(r)
    BY <1>5 DEF UnarchiveRequest, TypeOK, RequestState, jobVars
  <1>6. QED
    BY <1>1, <1>2, <1>3, <1>4, <1>5, CreationType, ReviewType, CheckType DEF RequestStep

LEMMA OtherStepType ==
  ASSUME TypeOK,
         \/ \E i \in Instance : ArchiveInstance(i) \/ UnarchiveInstance(i)
         \/ \E j \in Job : JobEnds(j)
         \/ BeatRestart
         \/ Deletion
  PROVE  TypeOK'
  <1>1. CASE \E i \in Instance : ArchiveInstance(i) \/ UnarchiveInstance(i)
    BY <1>1 DEF ArchiveInstance, UnarchiveInstance, TypeOK, InstanceState, requestVars, jobVars
  <1>2. CASE \E j \in Job : JobEnds(j)
    BY <1>2 DEF JobEnds, TypeOK, JobStatus, requestVars
  <1>3. CASE BeatRestart
    BY <1>3 DEF BeatRestart, TypeOK, jobVars
  <1>4. CASE \E r \in Request : DeleteRequest(r)
    BY <1>4 DEF DeleteRequest, DeletePeriodicTask, TypeOK, Exists, RequestState, jobVars
  <1>5. CASE \E R \in SUBSET Request \ {{}} : BulkDeleteRequests(R)
    <2>1. PICK R \in SUBSET Request : BulkDeleteRequests(R)
      BY <1>5
    <2>2. \A r \in R : reqState[r] # "FREE"
      BY <2>1 DEF BulkDeleteRequests, Exists, RequestState
    <2>3. QED
      BY <2>1, <2>2 DEF BulkDeleteRequests, TypeOK, jobVars
  <1>6. CASE \E i \in Instance : DeleteInstance(i)
    <2>1. PICK i \in Instance : DeleteInstance(i)
      BY <1>6
    <2>2. \A r \in Request : Exists(r) => reqState[r] # "FREE"
      BY DEF Exists, RequestState
    <2>3. QED
      BY <2>1, <2>2 DEF DeleteInstance, TypeOK, jobVars
  <1>7. QED
    BY <1>1, <1>2, <1>3, <1>4, <1>5, <1>6 DEF Deletion

(* Every column keeps its type through every handler, and a request that was
   created keeps an operation and an instance. *)
THEOREM TypeCorrect == Spec => []TypeOK
  <1>1. Init => TypeOK
    BY ConstantsAssumption DEF Init, TypeOK, ApprovalState, JobStatus
  <1>2. TypeOK /\ [Next]_vars => TypeOK'
    <2> SUFFICES ASSUME TypeOK, [Next]_vars PROVE TypeOK'
      OBVIOUS
    <2>1. CASE UNCHANGED vars
      BY <2>1 DEF vars, requestVars, jobVars, TypeOK
    <2>2. CASE Next
      BY <2>2, RequestStepType, OtherStepType DEF Next
    <2>3. QED
      BY <2>1, <2>2
  <1>3. QED
    BY <1>1, <1>2, PTL DEF Spec
-----------------------------------------------------------------------------
(***************************************************************************)
(* A request of an operation with auto_accept is accepted by the signal of *)
(* the save that creates it, and nothing makes it SUBMITTED again: the     *)
(* last save of a re-submission through the API never meets one.           *)
(***************************************************************************)
NeverWaits == \A r \in Request : reqState[r] = "SUBMITTED" => operation[r] \notin AutoAccept

Settles(r) ==
    \A q \in Request : reqState'[q] = "SUBMITTED" =>
        IF q = r THEN operation'[r] \notin AutoAccept
                 ELSE reqState[q] = "SUBMITTED" /\ operation'[q] = operation[q]

LEMMA AcceptedState ==
  ASSUME NEW o \in Operation, NEW row \in RowType, NEW w \in Accepted(o, row)
  PROVE  w.state # "SUBMITTED"
  BY DEF Accepted, Processed, RowType

LEMMA AutoStepAcceptedState ==
  ASSUME NEW o \in Operation, NEW row \in RowType, NEW w \in AutoStepAccepted(o, row)
  PROVE  w.state # "SUBMITTED"
  <1> DEFINE approved == [row EXCEPT !.approval = "approved"]
  <1>1. approved \in RowType
    BY DEF RowType, ApprovalState
  <1>2. PICK nested \in Accepted(o, approved) :
            w \in IF nested.started /\ o \in AutoChain THEN {nested} ELSE Accepted(o, nested)
    BY DEF AutoStepAccepted
  <1>3. nested \in RowType /\ nested.state # "SUBMITTED"
    BY <1>1, <1>2, AcceptedType, AcceptedState
  <1>4. QED
    BY <1>2, <1>3, AcceptedState

LEMMA StoreWaits ==
  ASSUME TypeOK, NEW r \in Request, NEW i, NEW w, Store(r, i, w),
         w.state = "SUBMITTED" => operation'[r] \notin AutoAccept,
         \A q \in Request \ {r} : operation'[q] = operation[q]
  PROVE  Settles(r)
  BY DEF Store, StoredState, Settles, TypeOK

LEMMA CreationWaits ==
  ASSUME TypeOK, NEW r \in Request, Creation(r)
  PROVE  Settles(r)
  <1>1. PICK i \in Instance, o \in Operation, s \in {"PENDING", "AVAILABLE"} :
            /\ CreateRequest(r, i, o, s)
            /\ \/ s = "PENDING" /\ OpType[o] = "CREATE"
               \/ s = "AVAILABLE" /\ OpType[o] \in {"UPDATE", "DELETE"}
    BY DEF Creation, RequestService, RequestOperationUI, RequestOperationAPI, RequestOperation
  <1> DEFINE row == Row("SUBMITTED", "none", s)
  <1>2. row \in RowType /\ row.inst = s
    BY RowIsRow DEF Row, RequestState, ApprovalState, AnyInstState, InstanceState
  <1>3. PICK w \in Submitted(o, row) : Store(r, i, w)
    BY <1>1 DEF CreateRequest
  <1>4. operation'[r] = o /\ \A q \in Request \ {r} : operation'[q] = operation[q]
    BY <1>1 DEF CreateRequest, TypeOK
  <1>5. \A a \in ApprovalState : /\ [row EXCEPT !.approval = a] \in RowType
                                 /\ ~Raises(o, [row EXCEPT !.approval = a])
    BY <1>1, <1>2 DEF RowType, Raises, StartFrom, CanProcess
  <1>6. ASSUME o \in AutoAccept PROVE w.state # "SUBMITTED"
    <2>1. CASE w \in AutoStepAccepted(o, row)
      BY <1>2, <2>1, AutoStepAcceptedState
    <2>2. CASE w \in WithoutWorkflow(o, row) \cup WithManualStep(o, row)
      BY <1>5, <1>6, <2>2, AcceptedState
      DEF WithoutWorkflow, WithManualStep, AutoAccepted, ApprovalState
    <2>3. QED
      BY <1>3, <2>1, <2>2 DEF Submitted, WithWorkflow
  <1>7. QED
    BY <1>3, <1>4, <1>6, StoreWaits

LEMMA StoreOwnWaits ==
  ASSUME TypeOK, NEW r \in Request, NEW rows, StoreOwn(r, rows),
         \A w \in rows : w.state = "SUBMITTED" => operation[r] \notin AutoAccept
  PROVE  Settles(r)
  <1>1. PICK w \in rows : Store(r, target[r], w)
    BY DEF StoreOwn
  <1>2. operation' = operation
    BY DEF StoreOwn
  <1>3. QED
    BY <1>1, <1>2, StoreWaits

LEMMA RequestStepWaits ==
  ASSUME TypeOK, NeverWaits, NEW r \in Request, RequestStep(r)
  PROVE  Settles(r)
  <1>1. CASE Creation(r)
    BY <1>1, CreationWaits
  <1>2. CASE HoldRequest(r)
    BY <1>2 DEF HoldRequest, Settles, TypeOK
  <1>3. CASE ReSubmitUI(r) \/ ReSubmitAPI(r)
    <2>1. operation[r] \notin AutoAccept
      BY <1>3 DEF NeverWaits, ReSubmitUI, ReSubmitAPI
    <2>2. QED
      BY <1>3, <2>1, StoreOwnWaits DEF ReSubmitUI, ReSubmitAPI
  <1>4. CASE CancelRequest(r) \/ RejectRequest(r)
    BY <1>4, StoreOwnWaits DEF CancelRequest, RejectRequest, Row
  <1>5. CASE AcceptUI(r) \/ AcceptAPI(r)
    <2>1. Exists(r) /\ AcceptRequest(r)
      BY <1>5 DEF AcceptUI, AcceptAPI, AcceptRequest, AcceptFrom, Exists, RequestState
    <2>2. InstOf(r) \in AnyInstState /\ approval[r] \in ApprovalState /\ operation[r] \in Operation
      BY <2>1, CurrentRowType
    <2>3. Row("ACCEPTED", approval[r], LastStable(InstOf(r))) \in RowType
      BY <2>2, TablesType, RowIsRow DEF RequestState
    <2>4. QED
      BY <2>1, <2>2, <2>3, AcceptedState, StoreOwnWaits DEF AcceptRequest
  <1>6. CASE ApproveLastStep(r)
    <2> DEFINE approved == [CurrentRow(r) EXCEPT !.approval = "approved"]
    <2>1. operation[r] \in Operation /\ approved \in RowType /\ approved.state = reqState[r]
      BY <1>6, CurrentRowType DEF ApproveLastStep, CurrentRow, Row, RowType, ApprovalState
    <2>2. CASE reqState[r] \in AcceptFrom
      <3>1. StoreOwn(r, Accepted(operation[r], approved))
        BY <1>6, <2>2 DEF ApproveLastStep
      <3>2. \A w \in Accepted(operation[r], approved) : w.state # "SUBMITTED"
        BY <2>1, AcceptedState
      <3>3. QED
        BY <3>1, <3>2, StoreOwnWaits
    <2>3. CASE reqState[r] \notin AcceptFrom
      <3>1. StoreOwn(r, {approved})
        BY <1>6, <2>3 DEF ApproveLastStep
      <3>2. reqState[r] # "SUBMITTED"
        BY <2>3 DEF AcceptFrom
      <3>3. \A w \in {approved} : w.state # "SUBMITTED"
        BY <2>1, <3>2
      <3> HIDE DEF approved
      <3>4. QED
        BY <3>1, <3>3, StoreOwnWaits
    <2>4. QED
      BY <2>2, <2>3
  <1>7. CASE ProcessRequest(r)
    <2>1. Exists(r) /\ reqState[r] # "SUBMITTED"
      BY <1>7 DEF ProcessRequest, ProcessFrom, Exists, RequestState
    <2>2. CurrentRow(r) \in RowType /\ CurrentRow(r).state = reqState[r]
      BY <2>1, CurrentRowType DEF CurrentRow, Row
    <2>3. \A w \in Processed(operation[r], CurrentRow(r)) : w.state # "SUBMITTED"
      BY <2>1, <2>2 DEF Processed, RowType
    <2>4. QED
      BY <1>7, <2>3, StoreOwnWaits DEF ProcessRequest
  <1>8. CASE TimePasses(r) \/ BeatTick(r) \/ CheckIgnored(r) \/ CheckExpired(r)
    BY <1>8 DEF TimePasses, BeatTick, CheckIgnored, CheckExpired, requestVars, Settles, NeverWaits
  <1>9. CASE CheckSuccessful(r) \/ CheckFailed(r) \/ ArchiveRequest(r) \/ UnarchiveRequest(r)
    BY <1>9 DEF CheckSuccessful, CheckFailed, ArchiveRequest, UnarchiveRequest, Settles, TypeOK
  <1>10. QED
    BY <1>1, <1>2, <1>3, <1>4, <1>5, <1>6, <1>7, <1>8, <1>9
    DEF RequestStep, Review, Check

(* No request of an operation that is accepted automatically waits for anybody. *)
LEMMA AutoAcceptedNeverWait == Spec => []NeverWaits
  <1>1. Init => NeverWaits
    BY DEF Init, NeverWaits
  <1>2. TypeOK /\ NeverWaits /\ [Next]_vars => NeverWaits'
    <2> SUFFICES ASSUME TypeOK, NeverWaits, [Next]_vars PROVE NeverWaits'
      OBVIOUS
    <2>1. CASE UNCHANGED vars
      BY <2>1 DEF vars, requestVars, NeverWaits
    <2>2. CASE \E r \in Request : RequestStep(r)
      BY <2>2, RequestStepWaits DEF NeverWaits, Settles
    <2>3. CASE \/ \E i \in Instance : ArchiveInstance(i) \/ UnarchiveInstance(i)
               \/ \E j \in Job : JobEnds(j)
               \/ BeatRestart
      BY <2>3 DEF ArchiveInstance, UnarchiveInstance, JobEnds, BeatRestart, requestVars, NeverWaits
    <2>4. CASE Deletion
      BY <2>4 DEF Deletion, DeleteRequest, BulkDeleteRequests, DeleteInstance, NeverWaits, TypeOK
    <2>5. QED
      BY <2>1, <2>2, <2>3, <2>4 DEF Next
  <1>3. QED
    BY <1>1, <1>2, TypeCorrect, PTL DEF Spec

-----------------------------------------------------------------------------
(***************************************************************************)
(* Safety.  The four invariants are proved together: that a launch finds   *)
(* no check task of the same request (so that the job id is saved) follows *)
(* from PollerMatchesProcessing, and that the request is not left by a job *)
(* it forgot follows from RunningJobIsTracked.  JobsInOrder says that a    *)
(* job RHAAP/AWX has not launched yet has no status.  WellConfigured       *)
(* excludes the operations that break them: one with an automatic step and *)
(* automatic processing, and one whose job template was deleted.           *)
(***************************************************************************)
JobsInOrder ==
    \A j \in Job : jobStatus[j] # "none" => j <= lastJob /\ jobOwner[j] \in Request

Safe ==
    /\ TypeOK
    /\ JobsInOrder
    /\ RunningJobIsTracked
    /\ CompleteMeansSuccess
    /\ BusyInstanceHasDriver
    /\ PollerMatchesProcessing

(* No operation has both an automatic approval step and automatic processing, and
   none has lost its job template. *)
WellConfigured == AutoStep \cap AutoProcess = {} /\ Orphaned = {}

Resting == {"FREE", "SUBMITTED", "ON_HOLD", "REJECTED", "CANCELED", "ACCEPTED", "FAILED"}

(* What a routine of request.py may leave when it started from row: a job and a
   busy instance of its type, or no job, and then no newly busy instance. *)
Sound(o, row, w) ==
    /\ w \in RowType
    /\ w.started => w.state = "PROCESSING" /\ w.inst = Busy[OpType[o]]
    /\ ~w.started => w.state \in Resting /\ (w.inst \in BusyState => w.inst = row.inst)

LEMMA BusyTables ==
    /\ \A t \in Type : /\ Busy[t] \in BusyState
                       /\ FailedState[t] \notin BusyState
                       /\ SuccessState[t] \notin BusyState
                       /\ Busy[t] \in SuccessFrom[t]
                       /\ \A u \in Type : Busy[t] = Busy[u] => t = u
    /\ \A s \in AnyInstState : /\ LastStable(s) \in BusyState => LastStable(s) = s
                               /\ AbortPending(s) \in BusyState => AbortPending(s) = s
  BY DEF Type, Busy, BusyState, FailedState, SuccessState, SuccessFrom, InstanceState,
         AnyInstState, LastStable, AbortPending

LEMMA ProcessedSound ==
  ASSUME WellConfigured, NEW o \in Operation, NEW row \in RowType, ~row.started,
         NEW w \in Processed(o, row)
  PROVE  Sound(o, row, w)
  <1>1. w \in RowType
    BY ProcessedType
  <1>2. OpType[o] \in Type
    BY ConstantsAssumption
  <1>3. QED
    BY <1>1, <1>2, BusyTables DEF Processed, Sound, RowType, Resting, WellConfigured

LEMMA AcceptedSound ==
  ASSUME WellConfigured, NEW o \in Operation, NEW row \in RowType, ~row.started,
         NEW w \in Accepted(o, row)
  PROVE  /\ Sound(o, row, w)
         /\ o \notin AutoProcess => ~w.started /\ w.inst = row.inst
  <1> DEFINE accepted == [row EXCEPT !.state = "ACCEPTED"]
  <1>1. /\ accepted \in RowType /\ ~accepted.started
        /\ accepted.inst = row.inst /\ accepted.state \in Resting
    BY DEF RowType, RequestState, Resting
  <1>2. CASE w \in Processed(o, accepted) /\ o \in AutoProcess
    <2>1. Sound(o, accepted, w)
      BY <1>1, <1>2, ProcessedSound
    <2>2. QED
      BY <1>1, <1>2, <2>1 DEF Sound
  <1>3. CASE w = accepted
    BY <1>1, <1>3 DEF Sound
  <1>4. QED
    BY <1>2, <1>3 DEF Accepted

LEMMA AutoStepAcceptedSound ==
  ASSUME WellConfigured, NEW o \in Operation \ AutoProcess, NEW row \in RowType, ~row.started,
         NEW w \in AutoStepAccepted(o, row)
  PROVE  Sound(o, row, w) /\ ~w.started
  <1> DEFINE approved == [row EXCEPT !.approval = "approved"]
  <1>1. approved \in RowType /\ ~approved.started /\ approved.inst = row.inst
    BY DEF RowType, ApprovalState
  <1>2. PICK nested \in Accepted(o, approved) :
            w \in IF nested.started /\ o \in AutoChain THEN {nested} ELSE Accepted(o, nested)
    BY DEF AutoStepAccepted
  <1>3. Sound(o, approved, nested) /\ ~nested.started /\ nested.inst = approved.inst
    BY <1>1, <1>2, AcceptedSound
  <1>4. w \in Accepted(o, nested) /\ nested \in RowType
    BY <1>2, <1>3 DEF Sound
  <1>5. Sound(o, nested, w) /\ ~w.started
    BY <1>3, <1>4, AcceptedSound
  <1>6. QED
    BY <1>1, <1>3, <1>5 DEF Sound

LEMMA SubmittedSound ==
  ASSUME WellConfigured,
         NEW o \in Operation, NEW row \in RowType, ~row.started, row.state \in Resting,
         NEW w \in Submitted(o, row) \cup ReSubmittedByUi(o, row)
  PROVE  Sound(o, row, w) /\ (o \notin AutoAccept => ~w.started)
  <1>1. ASSUME NEW a \in {"none", "waiting"}
        PROVE  LET plain == [row EXCEPT !.approval = a] IN
               /\ Sound(o, row, plain) /\ ~plain.started
               /\ \A v \in Accepted(o, plain) : Sound(o, row, v)
    <2> DEFINE plain == [row EXCEPT !.approval = a]
    <2>1. /\ plain \in RowType /\ ~plain.started /\ plain.inst = row.inst
          /\ plain.state \in Resting
      BY DEF RowType, ApprovalState
    <2>2. \A v \in Accepted(o, plain) : Sound(o, plain, v)
      BY <2>1, AcceptedSound
    <2>3. QED
      BY <2>1, <2>2 DEF Sound
  <1>2. \A v \in WithoutWorkflow(o, row) \cup WithManualStep(o, row) :
            Sound(o, row, v) /\ (o \notin AutoAccept => ~v.started)
    BY <1>1 DEF WithoutWorkflow, WithManualStep, AutoAccepted
  <1>3. ASSUME o \in AutoStep
        PROVE  \A v \in AutoStepAccepted(o, row) : Sound(o, row, v) /\ ~v.started
    BY <1>3, AutoStepAcceptedSound DEF WellConfigured
  <1>4. w \in WithWorkflow(o, row) => Sound(o, row, w) /\ (o \notin AutoAccept => ~w.started)
    BY <1>2, <1>3 DEF WithWorkflow
  <1>5. QED
    BY <1>1, <1>2, <1>4 DEF Submitted, ReSubmittedByUi

LEMMA ReSubmittedSound ==
  ASSUME WellConfigured,
         NEW o \in Operation \ AutoAccept, NEW row \in RowType, ~row.started,
         row.state \in Resting, NEW w \in ReSubmittedByApi(o, row)
  PROVE  Sound(o, row, w)
  <1>1. PICK v \in Submitted(o, row) : w \in SavedAgain(o, row, v)
    BY DEF ReSubmittedByApi
  <1>2. Sound(o, row, v) /\ ~v.started
    BY <1>1, SubmittedSound
  <1>3. w \in {v, [v EXCEPT !.state = "SUBMITTED"]}
    BY <1>1 DEF SavedAgain, AutoAccepted
  <1>4. QED
    BY <1>2, <1>3 DEF Sound, RowType, RequestState, Resting

-----------------------------------------------------------------------------
(* A handler that stores a sound row of a resting request keeps Safe. *)

LEMMA StoreSafe ==
  ASSUME Safe, TypeOK', NEW r \in Request, reqState[r] \in Resting,
         NEW i \in Instance, NEW o \in Operation, NEW row, NEW w, Sound(o, row, w),
         row.inst \in BusyState => row.inst = instState[i],
         Store(r, i, w),
         operation'[r] = o, target'[r] = i,
         \A q \in Request \ {r} : operation'[q] = operation[q] /\ target'[q] = target[q]
  PROVE  Safe'
  <1>1. ~task[r] /\ (\A j \in Job : jobStatus[j] = "running" => jobOwner[j] # r)
    BY DEF Safe, PollerMatchesProcessing, RunningJobIsTracked, Resting
  <1>2. /\ reqState' = [reqState EXCEPT ![r] = w.state]
        /\ instState' = [instState EXCEPT ![i] = w.inst]
    BY <1>1 DEF Store, StoredState
  <1>3. /\ reqState'[r] = w.state
        /\ \A q \in Request \ {r} : reqState'[q] = reqState[q]
        /\ instState'[i] = w.inst
        /\ \A k \in Instance \ {i} : instState'[k] = instState[k]
    BY <1>2 DEF Safe, TypeOK
  <1>4. \A q \in Request \ {r} : TypeOf(q)' = TypeOf(q)
    BY DEF TypeOf
  <1>5. BusyInstanceHasDriver'
    <2> SUFFICES ASSUME NEW k \in Instance, NEW t \in Type, instState'[k] = Busy[t]
                 PROVE  \E q \in Request : /\ reqState'[q] \in {"PROCESSING", "GONE"}
                                           /\ target'[q] = k
                                           /\ TypeOf(q)' = t
      BY DEF BusyInstanceHasDriver
    <2>1. CASE k = i /\ w.started
      <3>1. TypeOf(r)' = OpType[o] /\ OpType[o] \in Type
        BY ConstantsAssumption DEF TypeOf
      <3>2. OpType[o] = t
        BY <1>3, <2>1, <3>1, BusyTables DEF Sound
      <3>3. QED
        BY <1>3, <2>1, <3>1, <3>2 DEF Sound
    <2>2. CASE ~(k = i /\ w.started)
      <3>1. instState[k] = Busy[t]
        BY <1>3, <2>2, BusyTables DEF Sound
      <3>2. PICK q \in Request : /\ reqState[q] \in {"PROCESSING", "GONE"}
                                 /\ target[q] = k
                                 /\ TypeOf(q) = t
        BY <3>1 DEF Safe, BusyInstanceHasDriver
      <3>3. q # r
        BY <3>2 DEF Resting
      <3>4. QED
        BY <1>3, <1>4, <3>2, <3>3
    <2>3. QED
      BY <2>1, <2>2
  <1>6. CASE w.started
    <2>1. LaunchJob(r) /\ w.state = "PROCESSING"
      BY <1>6 DEF Store, Sound
    <2> DEFINE new == lastJob + 1
    <2>2. /\ new \in Job /\ lastJob' = new
          /\ jobStatus' = [jobStatus EXCEPT ![new] = "running"]
          /\ jobOwner' = [jobOwner EXCEPT ![new] = r]
          /\ towerJobId' = [towerJobId EXCEPT ![r] = new]
          /\ task' = [task EXCEPT ![r] = TRUE]
          /\ expired' = [expired EXCEPT ![r] = FALSE]
      BY <1>1, <2>1, ConstantsAssumption DEF LaunchJob, Job, Safe, TypeOK
    <2>3. jobStatus[new] = "none"
      BY <2>2 DEF Safe, JobsInOrder, TypeOK, Job
    <2>4. JobsInOrder'
      BY <2>2 DEF Safe, JobsInOrder, TypeOK, Job
    <2>5. RunningJobIsTracked'
      <3> SUFFICES ASSUME NEW j \in Job, jobStatus'[j] = "running"
                   PROVE  \/ reqState'[jobOwner'[j]] = "GONE"
                          \/ /\ reqState'[jobOwner'[j]] = "PROCESSING"
                             /\ towerJobId'[jobOwner'[j]] = j
        BY DEF RunningJobIsTracked
      <3>1. CASE j = new
        BY <1>3, <2>1, <2>2, <3>1 DEF Safe, TypeOK
      <3>2. CASE j # new
        <4>1. /\ jobStatus[j] = "running" /\ jobOwner'[j] = jobOwner[j]
              /\ jobOwner[j] \in Request \ {r}
          BY <1>1, <2>2, <3>2 DEF Safe, TypeOK, JobsInOrder
        <4>2. \/ reqState[jobOwner[j]] = "GONE"
              \/ /\ reqState[jobOwner[j]] = "PROCESSING"
                 /\ towerJobId[jobOwner[j]] = j
          BY <4>1 DEF Safe, RunningJobIsTracked
        <4>3. QED
          BY <1>3, <2>2, <4>1, <4>2 DEF Safe, TypeOK
      <3>3. QED
        BY <3>1, <3>2
    <2>6. CompleteMeansSuccess'
      <3> SUFFICES ASSUME NEW q \in Request, reqState'[q] \in {"COMPLETE", "ARCHIVED"}
                   PROVE  towerJobId'[q] # 0 /\ jobStatus'[towerJobId'[q]] = "successful"
        BY DEF CompleteMeansSuccess
      <3>1. q # r
        BY <1>3, <2>1
      <3>2. /\ towerJobId[q] # 0 /\ jobStatus[towerJobId[q]] = "successful"
            /\ towerJobId[q] \in Job
        BY <1>3, <3>1, ConstantsAssumption DEF Safe, CompleteMeansSuccess, TypeOK, Job
      <3>3. QED
        BY <2>2, <2>3, <3>1, <3>2 DEF Safe, TypeOK
    <2>7. PollerMatchesProcessing'
      BY <1>3, <2>1, <2>2 DEF Safe, PollerMatchesProcessing, TypeOK
    <2>8. QED
      BY <1>5, <2>4, <2>5, <2>6, <2>7 DEF Safe
  <1>7. CASE ~w.started
    <2>1. w.state \in Resting /\ UNCHANGED <<towerJobId, expired, task, lastJob, jobStatus, jobOwner>>
      BY <1>7 DEF Store, Sound, jobVars
    <2>2. JobsInOrder'
      BY <2>1 DEF Safe, JobsInOrder
    <2>3. RunningJobIsTracked'
      <3> SUFFICES ASSUME NEW j \in Job, jobStatus[j] = "running"
                   PROVE  \/ reqState'[jobOwner[j]] = "GONE"
                          \/ /\ reqState'[jobOwner[j]] = "PROCESSING"
                             /\ towerJobId[jobOwner[j]] = j
        BY <2>1 DEF RunningJobIsTracked
      <3>1. jobOwner[j] \in Request \ {r}
        BY <1>1 DEF Safe, JobsInOrder
      <3>2. QED
        BY <1>3, <3>1 DEF Safe, RunningJobIsTracked
    <2>4. CompleteMeansSuccess'
      BY <1>3, <2>1 DEF Safe, CompleteMeansSuccess, Resting
    <2>5. PollerMatchesProcessing'
      BY <1>1, <1>3, <2>1 DEF Safe, PollerMatchesProcessing, Resting
    <2>6. QED
      BY <1>5, <2>2, <2>3, <2>4, <2>5 DEF Safe
  <1>8. QED
    BY <1>6, <1>7

LEMMA StoreOwnSafe ==
  ASSUME Safe, TypeOK', NEW r \in Request, Exists(r), reqState[r] \in Resting,
         NEW row, NEW rows, \A w \in rows : Sound(operation[r], row, w),
         row.inst \in BusyState => row.inst = InstOf(r),
         StoreOwn(r, rows)
  PROVE  Safe'
  <1>1. PICK w \in rows : Store(r, target[r], w)
    BY DEF StoreOwn
  <1>2. operation[r] \in Operation /\ target[r] \in Instance
    BY CurrentRowType DEF Safe
  <1>3. operation' = operation /\ target' = target
    BY DEF StoreOwn
  <1>4. QED
    BY <1>1, <1>2, <1>3, StoreSafe DEF InstOf

-----------------------------------------------------------------------------
(* Every handler keeps Safe. *)

LEMMA CreationSafe ==
  ASSUME WellConfigured, Safe, TypeOK', NEW r \in Request, Creation(r)
  PROVE  Safe'
  <1>1. PICK i \in Instance, o \in Operation, s \in {"PENDING", "AVAILABLE"} :
            CreateRequest(r, i, o, s)
    BY DEF Creation, RequestService, RequestOperationUI, RequestOperationAPI, RequestOperation
  <1> DEFINE row == Row("SUBMITTED", "none", s)
  <1>2. row \in RowType
    BY RowIsRow DEF RequestState, ApprovalState, AnyInstState, InstanceState
  <1>3. ~row.started /\ row.state \in Resting /\ row.inst \notin BusyState
    BY DEF Row, Resting, BusyState
  <1>4. PICK w \in Submitted(o, row) : Store(r, i, w)
    BY <1>1 DEF CreateRequest
  <1>5. Sound(o, row, w)
    BY <1>2, <1>3, <1>4, SubmittedSound
  <1>6. /\ operation'[r] = o /\ target'[r] = i
        /\ \A q \in Request \ {r} : operation'[q] = operation[q] /\ target'[q] = target[q]
    BY <1>1 DEF CreateRequest, Safe, TypeOK
  <1>7. reqState[r] \in Resting
    BY <1>1 DEF CreateRequest, Resting
  <1>8. QED
    BY <1>3, <1>4, <1>5, <1>6, <1>7, StoreSafe

LEMMA ReviewSafe ==
  ASSUME WellConfigured, Safe, NeverWaits, TypeOK', NEW r \in Request,
         Review(r) \/ ProcessRequest(r)
  PROVE  Safe'
  <1>1. CASE HoldRequest(r)
    <2>1. /\ reqState[r] = "SUBMITTED" /\ reqState'[r] = "ON_HOLD"
          /\ \A q \in Request \ {r} : reqState'[q] = reqState[q]
          /\ UNCHANGED <<operation, target, towerJobId, expired, instState, task, jobVars>>
      BY <1>1 DEF HoldRequest, Safe, TypeOK
    <2>2. QED
      BY <2>1 DEF Safe, JobsInOrder, RunningJobIsTracked, CompleteMeansSuccess,
                  BusyInstanceHasDriver, PollerMatchesProcessing, TypeOf, jobVars
  <1> SUFFICES ASSUME ~HoldRequest(r) PROVE Safe'
    BY <1>1
  <1>2. Exists(r)
    BY DEF Review, ReSubmitUI, ReSubmitAPI, CancelRequest, RejectRequest, AcceptUI, AcceptAPI,
           AcceptRequest, ApproveLastStep, ProcessRequest, Exists, RequestState, CancelFrom,
           RejectFrom, AcceptFrom, ProcessFrom
  <1> DEFINE o == operation[r]
             now == CurrentRow(r)
  <1>3. /\ o \in Operation
        /\ InstOf(r) \in AnyInstState
        /\ approval[r] \in ApprovalState
        /\ now \in RowType
    BY <1>2, CurrentRowType DEF Safe
  <1>4. ~now.started /\ now.state = reqState[r] /\ now.inst = InstOf(r)
    BY DEF CurrentRow, Row
  <1>5. CASE ReSubmitUI(r) \/ ReSubmitAPI(r)
    <2>1. reqState[r] \in Resting /\ o \notin AutoAccept
      BY <1>5 DEF ReSubmitUI, ReSubmitAPI, Resting, NeverWaits
    <2>2. \A w \in ReSubmittedByUi(o, now) \cup ReSubmittedByApi(o, now) : Sound(o, now, w)
      BY <1>3, <1>4, <2>1, SubmittedSound, ReSubmittedSound
    <2>3. QED
      BY <1>2, <1>4, <1>5, <2>1, <2>2, StoreOwnSafe DEF ReSubmitUI, ReSubmitAPI
  <1>6. CASE CancelRequest(r) \/ RejectRequest(r)
    <2>1. PICK s \in {"CANCELED", "REJECTED"} :
              StoreOwn(r, {Row(s, approval[r], AbortPending(InstOf(r)))})
      BY <1>6 DEF CancelRequest, RejectRequest
    <2> DEFINE refused == Row(s, approval[r], AbortPending(InstOf(r)))
    <2>2. refused \in RowType
      BY <1>3, TablesType, RowIsRow DEF RequestState
    <2>3. Sound(o, now, refused)
      BY <1>3, <1>4, <2>2, BusyTables DEF Sound, Row, Resting
    <2>4. reqState[r] \in Resting
      BY <1>6 DEF CancelRequest, RejectRequest, CancelFrom, RejectFrom, Resting
    <2>5. QED
      BY <1>2, <1>4, <2>1, <2>3, <2>4, StoreOwnSafe
  <1>7. CASE AcceptUI(r) \/ AcceptAPI(r)
    <2> DEFINE reset == Row("ACCEPTED", approval[r], LastStable(InstOf(r)))
    <2>1. reqState[r] \in Resting /\ StoreOwn(r, Accepted(o, reset))
      BY <1>7 DEF AcceptUI, AcceptAPI, AcceptRequest, AcceptFrom, Resting
    <2>2. reset \in RowType
      BY <1>3, TablesType, RowIsRow DEF RequestState
    <2>3. ~reset.started /\ (reset.inst \in BusyState => reset.inst = InstOf(r))
      BY <1>3, BusyTables DEF Row
    <2>4. \A w \in Accepted(o, reset) : Sound(o, reset, w)
      BY <1>3, <2>2, <2>3, AcceptedSound
    <2>5. QED
      BY <1>2, <2>1, <2>3, <2>4, StoreOwnSafe
  <1>8. CASE ApproveLastStep(r) /\ reqState[r] \in AcceptFrom
    <2> DEFINE approved == [now EXCEPT !.approval = "approved"]
    <2>1. reqState[r] \in Resting /\ StoreOwn(r, Accepted(o, approved))
      BY <1>8 DEF ApproveLastStep, AcceptFrom, Resting
    <2>2. approved \in RowType /\ ~approved.started /\ approved.inst = InstOf(r)
      BY <1>3, <1>4 DEF RowType, ApprovalState
    <2>3. \A w \in Accepted(o, approved) : Sound(o, approved, w)
      BY <1>3, <2>2, AcceptedSound
    <2>4. QED
      BY <1>2, <2>1, <2>2, <2>3, StoreOwnSafe
  <1>9. CASE ApproveLastStep(r) /\ reqState[r] \notin AcceptFrom
    <2> DEFINE approved == [now EXCEPT !.approval = "approved"]
    <2>1. Store(r, target[r], approved) /\ operation' = operation /\ target' = target
      BY <1>9 DEF ApproveLastStep, StoreOwn
    <2>2. ~approved.started /\ approved.state = reqState[r] /\ approved.inst = instState[target[r]]
      BY <1>3, <1>4 DEF RowType, InstOf
    <2>3. target[r] \in Instance
      BY <1>2, CurrentRowType DEF Safe
    <2>4. /\ reqState' = reqState /\ instState' = instState
          /\ UNCHANGED <<towerJobId, expired, task, lastJob, jobStatus, jobOwner>>
      BY <2>1, <2>2, <2>3 DEF Store, StoredState, Safe, TypeOK, jobVars
    <2>5. QED
      BY <2>1, <2>4 DEF Safe, JobsInOrder, RunningJobIsTracked, CompleteMeansSuccess,
                        BusyInstanceHasDriver, PollerMatchesProcessing, TypeOf
  <1>10. CASE ProcessRequest(r)
    <2>1. reqState[r] \in Resting /\ StoreOwn(r, Processed(o, now))
      BY <1>10 DEF ProcessRequest, ProcessFrom, Resting
    <2>2. \A w \in Processed(o, now) : Sound(o, now, w)
      BY <1>3, <1>4, ProcessedSound
    <2>3. QED
      BY <1>2, <1>4, <2>1, <2>2, StoreOwnSafe
  <1>11. QED
    BY <1>5, <1>6, <1>7, <1>8, <1>9, <1>10 DEF Review

(* A check message settles a request whose job has ended: nothing runs for it any
   more, and its instance was still polled, so it moves. *)
LEMMA SettledSafe ==
  ASSUME Safe, TypeOK', NEW r \in Request,
         reqState[r] = "PROCESSING", towerJobId[r] # 0, ~expired[r],
         jobStatus[towerJobId[r]] # "running",
         NEW s \in {"COMPLETE", "FAILED"},
         s = "COMPLETE" => jobStatus[towerJobId[r]] = "successful",
         reqState' = [reqState EXCEPT ![r] = s],
         task' = [task EXCEPT ![r] = FALSE],
         NEW x \in AnyInstState, x \notin BusyState \/ x = InstOf(r),
         x # Busy[TypeOf(r)],
         instState' = [instState EXCEPT ![target[r]] = x],
         UNCHANGED <<operation, target, towerJobId, expired, lastJob, jobStatus, jobOwner>>
  PROVE  Safe'
  <1>1. target[r] \in Instance /\ TypeOf(r) \in Type
    BY CurrentRowType DEF Safe, Exists, RequestState
  <1>2. /\ reqState'[r] = s
        /\ \A q \in Request \ {r} : reqState'[q] = reqState[q]
        /\ instState'[target[r]] = x
        /\ \A k \in Instance \ {target[r]} : instState'[k] = instState[k]
    BY <1>1 DEF Safe, TypeOK
  <1>3. \A j \in Job : jobStatus[j] = "running" => jobOwner[j] # r
    BY DEF Safe, RunningJobIsTracked
  <1>4. JobsInOrder'
    BY DEF Safe, JobsInOrder
  <1>5. RunningJobIsTracked'
    <2> SUFFICES ASSUME NEW j \in Job, jobStatus[j] = "running"
                 PROVE  \/ reqState'[jobOwner[j]] = "GONE"
                        \/ /\ reqState'[jobOwner[j]] = "PROCESSING"
                           /\ towerJobId[jobOwner[j]] = j
      BY DEF RunningJobIsTracked
    <2>1. jobOwner[j] \in Request \ {r}
      BY <1>3 DEF Safe, JobsInOrder
    <2>2. QED
      BY <1>2, <2>1 DEF Safe, RunningJobIsTracked
  <1>6. CompleteMeansSuccess'
    BY <1>2 DEF Safe, CompleteMeansSuccess
  <1>7. PollerMatchesProcessing'
    BY <1>2 DEF Safe, PollerMatchesProcessing, TypeOK
  <1>8. BusyInstanceHasDriver'
    <2> SUFFICES ASSUME NEW k \in Instance, NEW t \in Type, instState'[k] = Busy[t]
                 PROVE  \E q \in Request : /\ reqState'[q] \in {"PROCESSING", "GONE"}
                                           /\ target[q] = k
                                           /\ TypeOf(q) = t
      BY DEF BusyInstanceHasDriver, TypeOf
    <2>1. instState[k] = Busy[t]
      BY <1>1, <1>2, BusyTables DEF InstOf
    <2>2. PICK q \in Request : /\ reqState[q] \in {"PROCESSING", "GONE"}
                               /\ target[q] = k
                               /\ TypeOf(q) = t
      BY <2>1 DEF Safe, BusyInstanceHasDriver
    <2>3. q # r
      BY <1>2, <2>2
    <2>4. QED
      BY <1>2, <2>2, <2>3
  <1>9. QED
    BY <1>4, <1>5, <1>6, <1>7, <1>8 DEF Safe

LEMMA CheckSafe ==
  ASSUME Safe, TypeOK', NEW r \in Request, Check(r)
  PROVE  Safe'
  <1>1. CASE CheckIgnored(r)
    BY <1>1 DEF CheckIgnored, Safe, JobsInOrder, RunningJobIsTracked, CompleteMeansSuccess,
                BusyInstanceHasDriver, PollerMatchesProcessing, TypeOf, requestVars, jobVars
  <1> SUFFICES ASSUME ~CheckIgnored(r) PROVE Safe'
    BY <1>1
  <1>2. Exists(r)
    BY DEF Check, CheckExpired, CheckSuccessful, CheckFailed, Exists, RequestState
  <1>3. TypeOf(r) \in Type /\ target[r] \in Instance /\ InstOf(r) \in AnyInstState
    BY <1>2, CurrentRowType DEF Safe
  <1>4. CASE CheckExpired(r)
    <2>1. /\ task' = [task EXCEPT ![r] = FALSE]
          /\ UNCHANGED <<reqState, operation, target, towerJobId, expired,
                         lastJob, jobStatus, jobOwner>>
          /\ expired[r]
      BY <1>4 DEF CheckExpired, DeletePeriodicTask, requestVars, jobVars
    <2>2. \A k \in Instance : instState'[k] \in BusyState => instState'[k] = instState[k]
      BY <1>3, <1>4, BusyTables DEF CheckExpired, Safe, TypeOK
    <2>3. BusyInstanceHasDriver'
      BY <2>1, <2>2, BusyTables DEF Safe, BusyInstanceHasDriver, TypeOf
    <2>4. PollerMatchesProcessing'
      BY <2>1 DEF Safe, PollerMatchesProcessing, TypeOK
    <2>5. QED
      BY <2>1, <2>3, <2>4 DEF Safe, JobsInOrder, RunningJobIsTracked, CompleteMeansSuccess
  <1>5. CASE CheckSuccessful(r)
    <2>1. task[r]
      BY <1>5 DEF CheckSuccessful, Safe, PollerMatchesProcessing
    <2> DEFINE x == IF InstOf(r) \in SuccessFrom[TypeOf(r)] THEN SuccessState[TypeOf(r)]
                                                            ELSE InstOf(r)
    <2>2. instState' = [instState EXCEPT ![target[r]] = x]
      BY <1>3, <1>5, <2>1 DEF CheckSuccessful, InstOf, Safe, TypeOK
    <2>3. /\ x \in AnyInstState
          /\ x \notin BusyState \/ x = InstOf(r)
          /\ x # Busy[TypeOf(r)]
      BY <1>3, BusyTables, TablesType DEF AnyInstState
    <2>4. QED
      BY <1>5, <2>2, <2>3, SettledSafe DEF CheckSuccessful, DeletePeriodicTask, jobVars
  <1>6. CASE CheckFailed(r)
    <2> DEFINE x == FailedState[TypeOf(r)]
    <2>1. /\ x \in AnyInstState
          /\ x \notin BusyState
          /\ x # Busy[TypeOf(r)]
      BY <1>3, BusyTables, TablesType DEF AnyInstState
    <2>2. QED
      BY <1>6, <2>1, SettledSafe DEF CheckFailed, DeletePeriodicTask, jobVars
  <1>7. QED
    BY <1>4, <1>5, <1>6 DEF Check

(* Steps that move requests between states none of the invariants looks at, or
   take rows away. *)
LEMMA RequestStepSafe ==
  ASSUME WellConfigured, Safe, NeverWaits, TypeOK', NEW r \in Request, RequestStep(r)
  PROVE  Safe'
  <1>1. CASE TimePasses(r)
    <2>1. /\ expired' = [expired EXCEPT ![r] = TRUE]
          /\ UNCHANGED <<reqState, operation, target, towerJobId, instState, task,
                         lastJob, jobStatus, jobOwner>>
      BY <1>1 DEF TimePasses, jobVars
    <2>2. QED
      BY <2>1 DEF Safe, TypeOK, JobsInOrder, RunningJobIsTracked, CompleteMeansSuccess,
                  BusyInstanceHasDriver, PollerMatchesProcessing, TypeOf
  <1>2. CASE BeatTick(r)
    BY <1>2 DEF BeatTick, Safe, JobsInOrder, RunningJobIsTracked, CompleteMeansSuccess,
                BusyInstanceHasDriver, PollerMatchesProcessing, TypeOf, requestVars, jobVars
  <1>3. CASE ArchiveRequest(r) \/ UnarchiveRequest(r)
    <2>1. /\ reqState[r] \in {"COMPLETE", "ARCHIVED"} /\ reqState'[r] \in {"COMPLETE", "ARCHIVED"}
          /\ \A q \in Request \ {r} : reqState'[q] = reqState[q]
          /\ UNCHANGED <<operation, target, towerJobId, expired, instState, task,
                         lastJob, jobStatus, jobOwner>>
      BY <1>3 DEF ArchiveRequest, UnarchiveRequest, Safe, TypeOK, jobVars
    <2>2. QED
      BY <2>1 DEF Safe, JobsInOrder, RunningJobIsTracked, CompleteMeansSuccess,
                  BusyInstanceHasDriver, PollerMatchesProcessing, TypeOf
  <1>4. QED
    BY <1>1, <1>2, <1>3, CreationSafe, ReviewSafe, CheckSafe DEF RequestStep

LEMMA DeletionSafe ==
  ASSUME Safe, TypeOK', NEW R \in SUBSET Request,
         reqState' = [r \in Request |-> IF r \in R THEN "GONE" ELSE reqState[r]],
         task' \in [Request -> BOOLEAN],
         \A r \in Request : task'[r] => task[r],
         \A r \in Request \ R : task'[r] = task[r],
         \A i \in Instance : instState'[i] \in BusyState => instState'[i] = instState[i],
         UNCHANGED <<operation, target, towerJobId, expired, lastJob, jobStatus, jobOwner>>
  PROVE  Safe'
  <1>1. JobsInOrder' /\ RunningJobIsTracked' /\ CompleteMeansSuccess'
    BY DEF Safe, JobsInOrder, RunningJobIsTracked, CompleteMeansSuccess
  <1>2. BusyInstanceHasDriver'
    BY BusyTables DEF Safe, BusyInstanceHasDriver, TypeOf
  <1>3. PollerMatchesProcessing'
    BY DEF Safe, PollerMatchesProcessing
  <1>4. QED
    BY <1>1, <1>2, <1>3 DEF Safe

LEMMA OtherStepSafe ==
  ASSUME Safe, TypeOK',
         \/ \E i \in Instance : ArchiveInstance(i) \/ UnarchiveInstance(i)
         \/ \E j \in Job : JobEnds(j)
         \/ BeatRestart
         \/ Deletion
  PROVE  Safe'
  <1>1. CASE \E i \in Instance : ArchiveInstance(i) \/ UnarchiveInstance(i)
    <2>1. /\ \A i \in Instance : instState'[i] \in BusyState => instState'[i] = instState[i]
          /\ UNCHANGED <<requestVars, task, jobVars>>
      BY <1>1 DEF ArchiveInstance, UnarchiveInstance, BusyState, Safe, TypeOK
    <2>2. BusyInstanceHasDriver'
      BY <2>1, BusyTables DEF Safe, BusyInstanceHasDriver, TypeOf, requestVars
    <2>3. QED
      BY <2>1, <2>2 DEF Safe, JobsInOrder, RunningJobIsTracked, CompleteMeansSuccess,
                        PollerMatchesProcessing, requestVars, jobVars
  <1>2. CASE \E j \in Job : JobEnds(j)
    <2>1. PICK j \in Job, s \in {"successful", "failed", "canceled"} :
              /\ jobStatus[j] = "running"
              /\ jobStatus' = [jobStatus EXCEPT ![j] = s]
              /\ UNCHANGED <<reqState, operation, target, towerJobId, expired,
                             instState, task, lastJob, jobOwner>>
      BY <1>2 DEF JobEnds, requestVars
    <2>2. \A k \in Job : jobStatus'[k] = IF k = j THEN s ELSE jobStatus[k]
      BY <2>1 DEF Safe, TypeOK
    <2>3. JobsInOrder' /\ RunningJobIsTracked'
      BY <2>1, <2>2 DEF Safe, JobsInOrder, RunningJobIsTracked
    <2>4. CompleteMeansSuccess'
      <3> SUFFICES ASSUME NEW q \in Request, reqState[q] \in {"COMPLETE", "ARCHIVED"}
                   PROVE  towerJobId[q] # 0 /\ jobStatus'[towerJobId[q]] = "successful"
        BY <2>1 DEF CompleteMeansSuccess
      <3>1. towerJobId[q] \in Job /\ jobStatus[towerJobId[q]] = "successful"
        BY ConstantsAssumption DEF Safe, TypeOK, CompleteMeansSuccess, Job
      <3>2. QED
        BY <2>1, <2>2, <3>1 DEF Safe, CompleteMeansSuccess
    <2>5. BusyInstanceHasDriver' /\ PollerMatchesProcessing'
      BY <2>1 DEF Safe, BusyInstanceHasDriver, PollerMatchesProcessing, TypeOf
    <2>6. QED
      BY <2>3, <2>4, <2>5 DEF Safe
  <1>3. CASE BeatRestart
    <2>1. PollerMatchesProcessing'
      BY <1>3 DEF BeatRestart, PollerMatchesProcessing
    <2>2. QED
      BY <1>3, <2>1 DEF BeatRestart, Safe, JobsInOrder, RunningJobIsTracked,
                        CompleteMeansSuccess, BusyInstanceHasDriver, TypeOf, jobVars
  <1>4. CASE \E r \in Request : DeleteRequest(r)
    <2>1. PICK r \in Request : DeleteRequest(r)
      BY <1>4
    <2>2. reqState' = [q \in Request |-> IF q \in {r} THEN "GONE" ELSE reqState[q]]
      BY <2>1 DEF DeleteRequest, Safe, TypeOK
    <2>3. /\ task' \in [Request -> BOOLEAN]
          /\ \A q \in Request : task'[q] => task[q]
          /\ \A q \in Request \ {r} : task'[q] = task[q]
      BY <2>1 DEF DeleteRequest, DeletePeriodicTask, Safe, TypeOK
    <2>4. UNCHANGED <<operation, target, towerJobId, expired, instState,
                      lastJob, jobStatus, jobOwner>>
      BY <2>1 DEF DeleteRequest, jobVars
    <2>5. {r} \in SUBSET Request
      OBVIOUS
    <2>6. QED
      BY <2>2, <2>3, <2>4, <2>5, DeletionSafe
  <1>5. CASE \E R \in SUBSET Request \ {{}} : BulkDeleteRequests(R)
    BY <1>5, DeletionSafe DEF BulkDeleteRequests, Safe, TypeOK, jobVars
  <1>6. CASE \E i \in Instance : DeleteInstance(i)
    <2>1. PICK i \in Instance : DeleteInstance(i)
      BY <1>6
    <2> DEFINE R == {r \in Request : Exists(r) /\ target[r] = i}
    <2>2. reqState' = [r \in Request |-> IF r \in R THEN "GONE" ELSE reqState[r]]
      BY <2>1 DEF DeleteInstance
    <2>3. \A k \in Instance : instState'[k] \in BusyState => instState'[k] = instState[k]
      BY <2>1 DEF DeleteInstance, BusyState, Safe, TypeOK
    <2>4. task' = task /\ task \in [Request -> BOOLEAN]
      BY <2>1 DEF DeleteInstance, Safe, TypeOK
    <2>5. UNCHANGED <<operation, target, towerJobId, expired, lastJob, jobStatus, jobOwner>>
      BY <2>1 DEF DeleteInstance, jobVars
    <2>6. R \in SUBSET Request
      OBVIOUS
    <2> HIDE DEF R
    <2>7. QED
      BY <2>2, <2>3, <2>4, <2>5, <2>6, DeletionSafe
  <1>7. QED
    BY <1>1, <1>2, <1>3, <1>4, <1>5, <1>6 DEF Deletion

(* The inductive invariant behind the four theorems that follow: jobs, check tasks,
   requests and instances stay consistent through every handler, message, restart
   and deletion. *)
THEOREM SafeInvariant ==
  ASSUME WellConfigured
  PROVE  Spec => []Safe
  <1>1. Init => Safe
    <2> SUFFICES ASSUME Init PROVE Safe
      OBVIOUS
    <2>1. TypeOK
      BY ConstantsAssumption DEF Init, TypeOK, ApprovalState, JobStatus
    <2>2. JobsInOrder /\ RunningJobIsTracked /\ CompleteMeansSuccess /\ PollerMatchesProcessing
      BY DEF Init, JobsInOrder, RunningJobIsTracked, CompleteMeansSuccess, PollerMatchesProcessing
    <2>3. BusyInstanceHasDriver
      BY BusyTables DEF Init, BusyInstanceHasDriver, BusyState
    <2>4. QED
      BY <2>1, <2>2, <2>3 DEF Safe
  <1>2. Safe /\ NeverWaits /\ TypeOK' /\ [Next]_vars => Safe'
    <2> SUFFICES ASSUME Safe, NeverWaits, TypeOK', [Next]_vars PROVE Safe'
      OBVIOUS
    <2>1. CASE UNCHANGED vars
      BY <2>1 DEF vars, requestVars, jobVars, Safe, JobsInOrder, RunningJobIsTracked,
                  CompleteMeansSuccess, BusyInstanceHasDriver, PollerMatchesProcessing, TypeOf
    <2>2. CASE Next
      BY <2>2, RequestStepSafe, OtherStepSafe DEF Next
    <2>3. QED
      BY <2>1, <2>2
  <1>3. QED
    BY <1>1, <1>2, TypeCorrect, AutoAcceptedNeverWait, PTL DEF Spec

(* The parts of Safe a reader asks for, under their own names. *)

(* A job that runs is the last job of a request that is PROCESSING, so its result
   will be noticed, unless the request was deleted. *)
THEOREM JobsAreTracked ==
  ASSUME WellConfigured
  PROVE  Spec => []RunningJobIsTracked
  <1>1. Safe => RunningJobIsTracked
    BY DEF Safe
  <1>2. QED
    BY <1>1, SafeInvariant, PTL

(* No request is COMPLETE on the strength of another job than its last one. *)
THEOREM CompletionIsEarned ==
  ASSUME WellConfigured
  PROVE  Spec => []CompleteMeansSuccess
  <1>1. Safe => CompleteMeansSuccess
    BY DEF Safe
  <1>2. QED
    BY <1>1, SafeInvariant, PTL

(* A busy instance has a request of its type at work on it, or a deleted one. *)
THEOREM BusyInstancesAreDriven ==
  ASSUME WellConfigured
  PROVE  Spec => []BusyInstanceHasDriver
  <1>1. Safe => BusyInstanceHasDriver
    BY DEF Safe
  <1>2. QED
    BY <1>1, SafeInvariant, PTL

(* Check tasks and PROCESSING requests go together until the time runs out. *)
THEOREM PollersMatch ==
  ASSUME WellConfigured
  PROVE  Spec => []PollerMatchesProcessing
  <1>1. Safe => PollerMatchesProcessing
    BY DEF Safe
  <1>2. QED
    BY <1>1, SafeInvariant, PTL

-----------------------------------------------------------------------------
(* Refused requests.  Here no hypothesis on the operations is needed. *)

StaysRefused(r) ==
    /\ reqState[r] = "CANCELED" => reqState'[r] \in {"CANCELED", "GONE"}
    /\ reqState[r] = "REJECTED" => reqState'[r] \in {"REJECTED", "CANCELED", "GONE"}

LEMMA StoreRefused ==
  ASSUME TypeOK, NEW r \in Request, NEW i, NEW row, Store(r, i, row),
         \/ reqState[r] \notin {"CANCELED", "REJECTED"}
         \/ ~row.started /\ row.state \in {"CANCELED", reqState[r]}
  PROVE  \A q \in Request : StaysRefused(q)
  BY DEF Store, StoredState, StaysRefused, TypeOK

LEMMA StoreOwnRefused ==
  ASSUME TypeOK, NEW r \in Request, NEW rows, StoreOwn(r, rows),
         \/ reqState[r] \notin {"CANCELED", "REJECTED"}
         \/ \A row \in rows : ~row.started /\ row.state \in {"CANCELED", reqState[r]}
  PROVE  \A q \in Request : StaysRefused(q)
  <1>1. PICK row \in rows : Store(r, target[r], row)
    BY DEF StoreOwn
  <1>2. QED
    BY <1>1, StoreRefused

LEMMA RequestStepRefused ==
  ASSUME TypeOK, NEW r \in Request, RequestStep(r)
  PROVE  \A q \in Request : StaysRefused(q)
  <1>1. CASE Creation(r)
    <2>1. PICK i \in Instance, o \in Operation, s \in {"PENDING", "AVAILABLE"} :
              CreateRequest(r, i, o, s)
      BY <1>1 DEF Creation, RequestService, RequestOperationUI, RequestOperationAPI,
                  RequestOperation
    <2>2. QED
      BY <2>1, StoreRefused DEF CreateRequest
  <1>2. CASE HoldRequest(r)
    BY <1>2 DEF HoldRequest, StaysRefused, TypeOK
  <1>3. CASE ReSubmitUI(r) \/ ReSubmitAPI(r)
    <2>1. reqState[r] \notin {"CANCELED", "REJECTED"}
      BY <1>3 DEF ReSubmitUI, ReSubmitAPI
    <2>2. QED
      BY <1>3, <2>1, StoreOwnRefused DEF ReSubmitUI, ReSubmitAPI
  <1>4. CASE CancelRequest(r)
    <2> DEFINE canceled == Row("CANCELED", approval[r], AbortPending(InstOf(r)))
    <2>1. ~canceled.started /\ canceled.state = "CANCELED"
      BY DEF Row
    <2>2. QED
      BY <1>4, <2>1, StoreOwnRefused DEF CancelRequest
  <1>5. CASE RejectRequest(r)
    <2>1. reqState[r] \notin {"CANCELED", "REJECTED"}
      BY <1>5 DEF RejectRequest, RejectFrom
    <2>2. QED
      BY <1>5, <2>1, StoreOwnRefused DEF RejectRequest
  <1>6. CASE AcceptUI(r) \/ AcceptAPI(r)
    <2>1. reqState[r] \notin {"CANCELED", "REJECTED"}
      BY <1>6 DEF AcceptUI, AcceptAPI, AcceptRequest, AcceptFrom
    <2>2. QED
      BY <1>6, <2>1, StoreOwnRefused DEF AcceptUI, AcceptAPI, AcceptRequest
  <1>7. CASE ApproveLastStep(r) /\ reqState[r] \in AcceptFrom
    <2>1. reqState[r] \notin {"CANCELED", "REJECTED"}
      BY <1>7 DEF AcceptFrom
    <2>2. QED
      BY <1>7, <2>1, StoreOwnRefused DEF ApproveLastStep
  <1>8. CASE ApproveLastStep(r) /\ reqState[r] \notin AcceptFrom
    <2> DEFINE approved == [CurrentRow(r) EXCEPT !.approval = "approved"]
    <2>1. ~approved.started /\ approved.state = reqState[r]
      BY DEF CurrentRow, Row
    <2>2. QED
      BY <1>8, <2>1, StoreOwnRefused DEF ApproveLastStep
  <1>9. CASE ProcessRequest(r)
    <2>1. reqState[r] \notin {"CANCELED", "REJECTED"}
      BY <1>9 DEF ProcessRequest, ProcessFrom
    <2>2. QED
      BY <1>9, <2>1, StoreOwnRefused DEF ProcessRequest
  <1>10. CASE TimePasses(r) \/ BeatTick(r) \/ CheckIgnored(r) \/ CheckExpired(r)
    BY <1>10 DEF TimePasses, BeatTick, CheckIgnored, CheckExpired, requestVars, StaysRefused
  <1>11. CASE CheckSuccessful(r) \/ CheckFailed(r) \/ ArchiveRequest(r) \/ UnarchiveRequest(r)
    BY <1>11 DEF CheckSuccessful, CheckFailed, ArchiveRequest, UnarchiveRequest, StaysRefused,
                 TypeOK
  <1>12. QED
    BY <1>1, <1>2, <1>3, <1>4, <1>5, <1>6, <1>7, <1>8, <1>9, <1>10, <1>11
    DEF RequestStep, Review, Check

(* Nothing brings a CANCELED or REJECTED request back: not the approval of a step it
   still had, not a late message, not a restart of the scheduler. *)
THEOREM RefusedForGood == Spec => RefusedStaysRefused
  <1>1. TypeOK /\ [Next]_vars => [\A r \in Request : StaysRefused(r)]_vars
    <2> SUFFICES ASSUME TypeOK, Next PROVE \A r \in Request : StaysRefused(r)
      OBVIOUS
    <2>1. CASE \E r \in Request : RequestStep(r)
      BY <2>1, RequestStepRefused
    <2>2. CASE \/ \E i \in Instance : ArchiveInstance(i) \/ UnarchiveInstance(i)
               \/ \E j \in Job : JobEnds(j)
               \/ BeatRestart
      BY <2>2 DEF ArchiveInstance, UnarchiveInstance, JobEnds, BeatRestart, requestVars,
                  StaysRefused
    <2>3. CASE Deletion
      BY <2>3 DEF Deletion, DeleteRequest, BulkDeleteRequests, DeleteInstance, StaysRefused,
                  TypeOK
    <2>4. QED
      BY <2>1, <2>2, <2>3 DEF Next
  <1>2. QED
    BY <1>1, TypeCorrect, PTL DEF Spec, RefusedStaysRefused, StaysRefused

-----------------------------------------------------------------------------
(* RequestLifecycle implements InstancePromise, for every number of requests,
   instances, operations and jobs.  The instance states are mapped to the phases
   of the promise, and the jobs that succeeded to the sets created and destroyed. *)

Ph(i) == PhaseOf(instState[i])
Created(r) == reqState[r] # "FREE"
Owner(j) == target[jobOwner[j]]

Closed == {"COMPLETE", "ARCHIVED", "GONE"}

(* What the handlers keep among themselves so that the promise holds.  An instance
   has one creation request, which is over once the instance is delivered; other
   requests are about delivered instances only; a job still runs only as long as
   the promise has room for its success. *)
Owed ==
    /\ \A r \in Request : Created(r) => Ph(target[r]) # "absent"
    /\ \A q, r \in Request :
          /\ Created(q) /\ TypeOf(q) = "CREATE"
          /\ Created(r) /\ TypeOf(r) = "CREATE"
          /\ target[q] = target[r]
          => q = r
    /\ \A r \in Request : Created(r) /\ TypeOf(r) # "CREATE" =>
          Ph(target[r]) \in {"live", "retired", "erased"}
    /\ \A r \in Request : /\ Created(r) /\ TypeOf(r) = "CREATE"
                          /\ Ph(target[r]) \in {"live", "retired"}
                          => reqState[r] \in Closed
    /\ \A j \in Job : jobStatus[j] # "none" => Created(jobOwner[j])
    /\ \A j \in Job : jobStatus[j] = "running" /\ TypeOf(jobOwner[j]) = "CREATE" =>
          Ph(Owner(j)) \in {"reserved", "erased"}
    /\ \A j \in Job : jobStatus[j] = "running" /\ TypeOf(jobOwner[j]) = "DELETE" =>
          Ph(Owner(j)) \in {"live", "erased"} \/ Owner(j) \in Achieved("DELETE")
    /\ \A r \in Request : towerJobId[r] # 0 =>
          jobOwner[towerJobId[r]] = r /\ jobStatus[towerJobId[r]] # "none"

(* A step that Owed survives: rows and jobs are only added, no instance returns to
   an earlier phase, and the claims about the jobs that run hold after it. *)
Later == {"live", "retired", "erased"}

JobClaims ==
    /\ \A j \in Job : jobStatus[j] = "running" /\ TypeOf(jobOwner[j]) = "CREATE" =>
          Ph(Owner(j)) \in {"reserved", "erased"}
    /\ \A j \in Job : jobStatus[j] = "running" /\ TypeOf(jobOwner[j]) = "DELETE" =>
          Ph(Owner(j)) \in {"live", "erased"} \/ Owner(j) \in Achieved("DELETE")
    /\ \A r \in Request : towerJobId[r] # 0 =>
          jobOwner[towerJobId[r]] = r /\ jobStatus[towerJobId[r]] # "none"

Advance ==
    /\ \A q \in Request : Created(q) => Created(q)' /\ operation'[q] = operation[q]
                                                   /\ target'[q] = target[q]
    /\ \A k \in Instance : /\ Ph(k) # "absent" => Ph(k)' # "absent"
                           /\ Ph(k) \in Later => Ph(k)' \in Later
    /\ \A q \in Request : /\ Created(q) /\ TypeOf(q) = "CREATE"
                          /\ Ph(target[q])' \in {"live", "retired"}
                          => reqState'[q] \in Closed
    /\ \A q \in Request : ~Created(q) /\ Created(q)' =>
          \/ /\ TypeOf(q)' = "CREATE"
             /\ Ph(target'[q]) = "absent"
             /\ PhaseOf(instState'[target'[q]]) = "reserved"
          \/ TypeOf(q)' # "CREATE" /\ PhaseOf(instState'[target'[q]]) \in Later
    /\ \A p, q \in Request : ~Created(p) /\ Created(p)' /\ ~Created(q) /\ Created(q)' => p = q
    /\ \A j \in Job : jobStatus[j] # "none" => jobOwner'[j] = jobOwner[j]
    /\ \A j \in Job : jobStatus[j] = "none" /\ jobStatus'[j] # "none" =>
          jobOwner'[j] \in Request /\ reqState'[jobOwner'[j]] # "FREE"
    /\ JobClaims'

LEMMA AdvanceOwed ==
  ASSUME TypeOK, TypeOK', JobsInOrder, Owed, Advance
  PROVE  Owed'
  <1>1. \A r \in Request : /\ Created(r) => target[r] \in Instance
                           /\ Created(r)' => target'[r] \in Instance
    BY DEF TypeOK, Created
  <1>2. \A r \in Request : Created(r)' => Ph(target[r])' # "absent"
    <2> SUFFICES ASSUME NEW r \in Request, Created(r)' PROVE Ph(target[r])' # "absent"
      OBVIOUS
    <2>1. CASE Created(r)
      BY <1>1, <2>1 DEF Advance, Owed, Ph
    <2>2. CASE ~Created(r)
      BY <2>2 DEF Advance, Later, Ph
    <2>3. QED
      BY <2>1, <2>2
  <1>3. ASSUME NEW q \in Request, NEW r \in Request,
               Created(q)', TypeOf(q)' = "CREATE", Created(r)', TypeOf(r)' = "CREATE",
               target'[q] = target'[r]
        PROVE  q = r
    <2>1. CASE Created(q) /\ Created(r)
      BY <1>3, <2>1 DEF Advance, Owed, TypeOf
    <2>2. CASE ~Created(q) /\ ~Created(r)
      BY <1>3, <2>2 DEF Advance
    <2>3. ASSUME NEW a \in Request, NEW b \in Request, Created(a), ~Created(b), Created(b)',
                 TypeOf(b)' = "CREATE", target'[a] = target'[b]
          PROVE  FALSE
      <3>1. Ph(target'[b]) = "absent"
        BY <2>3 DEF Advance
      <3>2. target'[a] = target[a] /\ Ph(target[a]) # "absent"
        BY <2>3 DEF Advance, Owed
      <3>3. QED
        BY <2>3, <3>1, <3>2
    <2>4. QED
      BY <1>3, <2>1, <2>2, <2>3
  <1>4. ASSUME NEW r \in Request, Created(r)', TypeOf(r)' # "CREATE"
        PROVE  Ph(target[r])' \in Later
    <2>1. CASE Created(r)
      <3>1. operation'[r] = operation[r] /\ target'[r] = target[r]
        BY <2>1 DEF Advance
      <3>2. Ph(target[r]) \in Later
        BY <1>4, <2>1, <3>1 DEF Owed, TypeOf, Later
      <3>3. QED
        BY <1>1, <2>1, <3>1, <3>2 DEF Advance, Ph
    <2>2. CASE ~Created(r)
      BY <1>4, <2>2 DEF Advance, Ph
    <2>3. QED
      BY <2>1, <2>2
  <1>5. ASSUME NEW r \in Request, Created(r)', TypeOf(r)' = "CREATE",
               Ph(target[r])' \in {"live", "retired"}
        PROVE  reqState'[r] \in Closed
    <2>1. CASE Created(r)
      BY <1>5, <2>1 DEF Advance, TypeOf, Ph
    <2>2. CASE ~Created(r)
      BY <1>5, <2>2 DEF Advance, Ph
    <2>3. QED
      BY <2>1, <2>2
  <1>6. ASSUME NEW j \in Job, jobStatus'[j] # "none"
        PROVE  reqState'[jobOwner'[j]] # "FREE"
    <2>1. CASE jobStatus[j] # "none"
      <3>1. jobOwner[j] \in Request /\ Created(jobOwner[j]) /\ jobOwner'[j] = jobOwner[j]
        BY <2>1 DEF JobsInOrder, Owed, Advance
      <3>2. QED
        BY <3>1 DEF Advance, Created
    <2>2. CASE jobStatus[j] = "none"
      BY <1>6, <2>2 DEF Advance
    <2>3. QED
      BY <2>1, <2>2
  <1>7. JobClaims'
    BY DEF Advance
  <1>8. QED
    BY <1>2, <1>3, <1>4, <1>5, <1>6, <1>7 DEF Owed, JobClaims, Later, Created

-----------------------------------------------------------------------------
(* The routines of request.py keep the phase of the instance. *)

LEMMA PhaseTables ==
    /\ \A t \in Type : /\ \A s \in StartFrom[t] : /\ PhaseOf(Busy[t]) = PhaseOf(s)
                                                  /\ PhaseOf(FailedState[t]) = PhaseOf(s)
                       /\ t = "CREATE" => PhaseOf(Busy[t]) = "reserved"
                       /\ t # "CREATE" => PhaseOf(Busy[t]) = "live"
                       /\ PhaseOf(FailedState[t]) = PhaseOf(Busy[t])
    /\ \A s \in AnyInstState :
          /\ PhaseOf(LastStable(s)) = PhaseOf(s)
          /\ \/ AbortPending(s) = s
             \/ PhaseOf(s) = "reserved" /\ PhaseOf(AbortPending(s)) = "withdrawn"
  BY DEF Type, StartFrom, Busy, FailedState, PhaseOf, AnyInstState, InstanceState, LastStable,
         AbortPending

LEMMA AcceptedPhase ==
  ASSUME NEW o \in Operation, NEW row \in RowType, NEW w \in Accepted(o, row)
  PROVE  PhaseOf(w.inst) = PhaseOf(row.inst)
  <1> DEFINE accepted == [row EXCEPT !.state = "ACCEPTED"]
  <1>1. accepted.inst = row.inst /\ OpType[o] \in Type
    BY ConstantsAssumption DEF RowType
  <1>2. CASE w = accepted
    BY <1>1, <1>2
  <1>3. CASE w \in Processed(o, accepted) /\ row.inst \in StartFrom[OpType[o]]
    <2>1. w.inst \in {Busy[OpType[o]], FailedState[OpType[o]]}
      BY <1>3 DEF Processed, RowType
    <2>2. QED
      BY <1>1, <1>3, <2>1, PhaseTables
  <1>4. QED
    BY <1>2, <1>3 DEF Accepted

LEMMA SubmittedPhase ==
  ASSUME NEW o \in Operation, NEW row \in RowType,
         NEW w \in Submitted(o, row) \cup ReSubmittedByUi(o, row) \cup ReSubmittedByApi(o, row)
  PROVE  PhaseOf(w.inst) = PhaseOf(row.inst)
  <1>1. ASSUME NEW u \in RowType, NEW v \in AutoAccepted(o, u)
        PROVE  PhaseOf(v.inst) = PhaseOf(u.inst)
    BY <1>1, AcceptedPhase DEF AutoAccepted
  <1>2. \A a \in ApprovalState : /\ [row EXCEPT !.approval = a] \in RowType
                                 /\ [row EXCEPT !.approval = a].inst = row.inst
    BY DEF RowType
  <1>3. \A v \in WithoutWorkflow(o, row) \cup WithManualStep(o, row) :
            PhaseOf(v.inst) = PhaseOf(row.inst)
    BY <1>1, <1>2 DEF WithoutWorkflow, WithManualStep, ApprovalState
  <1>4. \A v \in AutoStepAccepted(o, row) : PhaseOf(v.inst) = PhaseOf(row.inst)
    <2> SUFFICES ASSUME NEW v \in AutoStepAccepted(o, row)
                 PROVE  PhaseOf(v.inst) = PhaseOf(row.inst)
      OBVIOUS
    <2>1. PICK nested \in Accepted(o, [row EXCEPT !.approval = "approved"]) :
              v \in IF nested.started /\ o \in AutoChain THEN {nested} ELSE Accepted(o, nested)
      BY DEF AutoStepAccepted
    <2>2. /\ [row EXCEPT !.approval = "approved"] \in RowType
          /\ [row EXCEPT !.approval = "approved"].inst = row.inst
      BY <1>2 DEF ApprovalState
    <2>3. nested \in RowType
      BY <2>1, <2>2, AcceptedType
    <2>4. PhaseOf(nested.inst) = PhaseOf(row.inst)
      <3> DEFINE approved == [row EXCEPT !.approval = "approved"]
      <3>1. approved \in RowType /\ nested \in Accepted(o, approved) /\ approved.inst = row.inst
        BY <2>1, <2>2
      <3> HIDE DEF approved
      <3>2. PhaseOf(nested.inst) = PhaseOf(approved.inst)
        BY <3>1, AcceptedPhase
      <3>3. QED
        BY <3>1, <3>2
    <2>5. QED
      BY <2>1, <2>3, <2>4, AcceptedPhase
  <1>5. \A v \in Submitted(o, row) \cup ReSubmittedByUi(o, row) :
            v \in RowType /\ PhaseOf(v.inst) = PhaseOf(row.inst)
    BY <1>2, <1>3, <1>4, SubmittedType
    DEF Submitted, ReSubmittedByUi, WithWorkflow, ApprovalState
  <1>6. ASSUME NEW v \in Submitted(o, row), w \in SavedAgain(o, row, v)
        PROVE  PhaseOf(w.inst) = PhaseOf(row.inst)
    <2> DEFINE again == [v EXCEPT !.state = "SUBMITTED"]
    <2>1. again \in RowType /\ again.inst = v.inst
      BY <1>5 DEF RowType, RequestState
    <2>2. CASE w = v
      BY <1>5, <2>2
    <2>3. CASE w \in AutoAccepted(o, again)
      <3>1. PhaseOf(w.inst) = PhaseOf(again.inst)
        BY <1>1, <2>1, <2>3
      <3>2. QED
        BY <1>5, <2>1, <3>1
    <2>4. QED
      BY <1>6, <2>2, <2>3 DEF SavedAgain
  <1>7. QED
    BY <1>5, <1>6 DEF ReSubmittedByApi

-----------------------------------------------------------------------------
(* A handler stores a row: the phase of one instance moves, or none. *)

Told(i) ==
    /\ \A k \in Instance \ {i} : Ph(k)' = Ph(k)
    /\ \A t \in {"CREATE", "DELETE"} : Achieved(t)' = Achieved(t)
    /\ \/ Ph(i)' = Ph(i)
       \/ Ph(i) = "absent" /\ Ph(i)' = "reserved"
       \/ Ph(i) = "reserved" /\ Ph(i)' = "withdrawn"
       \/ Ph(i) = "reserved" /\ Ph(i)' = "live" /\ i \in Achieved("CREATE")
       \/ Ph(i) = "live" /\ Ph(i)' = "retired" /\ i \in Achieved("DELETE")
       \/ Ph(i) \notin {"absent", "erased"} /\ Ph(i)' = "erased"

PromiseStep == [Promise!PromiseNext]_(Promise!promiseVars)

LEMMA ToldStep ==
  ASSUME NEW i \in Instance, Told(i)
  PROVE  PromiseStep
  <1> DEFINE phase == [k \in Instance |-> PhaseOf(instState[k])]
  <1>1. Achieved("CREATE")' = Achieved("CREATE") /\ Achieved("DELETE")' = Achieved("DELETE")
    BY DEF Told
  <1>2. phase' = [phase EXCEPT ![i] = Ph(i)'] /\ phase[i] = Ph(i)
    BY DEF Told, Ph
  <1>3. CASE Ph(i)' = Ph(i)
    <2>1. phase' = phase
      BY <1>2, <1>3
    <2>2. QED
      BY <1>1, <2>1 DEF PromiseStep, Promise!promiseVars
  <1>4. CASE Ph(i) = "absent" /\ Ph(i)' = "reserved"
    BY <1>1, <1>2, <1>4 DEF PromiseStep, Promise!PromiseNext, Promise!Reserve, Promise!Move
  <1>5. CASE Ph(i) = "reserved" /\ Ph(i)' = "withdrawn"
    BY <1>1, <1>2, <1>5 DEF PromiseStep, Promise!PromiseNext, Promise!Withdraw, Promise!Move
  <1>6. CASE Ph(i) = "reserved" /\ Ph(i)' = "live" /\ i \in Achieved("CREATE")
    BY <1>1, <1>2, <1>6 DEF PromiseStep, Promise!PromiseNext, Promise!Deliver, Promise!Move
  <1>7. CASE Ph(i) = "live" /\ Ph(i)' = "retired" /\ i \in Achieved("DELETE")
    BY <1>1, <1>2, <1>7 DEF PromiseStep, Promise!PromiseNext, Promise!Retire, Promise!Move
  <1>8. CASE Ph(i) \notin {"absent", "erased"} /\ Ph(i)' = "erased"
    BY <1>1, <1>2, <1>8 DEF PromiseStep, Promise!PromiseNext, Promise!Erase, Promise!Move
  <1>9. QED
    BY <1>3, <1>4, <1>5, <1>6, <1>7, <1>8 DEF Told

LEMMA AchievedKept ==
  ASSUME JobsInOrder,
         \A j \in Job : jobStatus'[j] = "successful" <=> jobStatus[j] = "successful",
         \A j \in Job : jobStatus[j] = "successful" =>
             /\ jobOwner'[j] = jobOwner[j]
             /\ operation'[jobOwner[j]] = operation[jobOwner[j]]
             /\ target'[jobOwner[j]] = target[jobOwner[j]],
         NEW t
  PROVE  Achieved(t)' = Achieved(t)
  <1> DEFINE S == {k \in Job : jobStatus[k] = "successful" /\ TypeOf(jobOwner[k]) = t}
  <1>1. {k \in Job : jobStatus'[k] = "successful" /\ OpType[operation'[jobOwner'[k]]] = t} = S
    BY DEF TypeOf
  <1>2. Achieved(t)' = {target'[jobOwner'[j]] : j \in S}
    BY <1>1 DEF Achieved, TypeOf
  <1>3. \A j \in S : target'[jobOwner'[j]] = target[jobOwner[j]]
    OBVIOUS
  <1>4. Achieved(t) = {target[jobOwner[j]] : j \in S}
    BY DEF Achieved
  <1> HIDE DEF S
  <1>5. QED
    BY <1>2, <1>3, <1>4

(* What storing a row does to the tables. *)
StoreEffect(r, i, w) ==
    /\ reqState'[r] = w.state /\ w.state # "FREE"
    /\ \A q \in Request \ {r} : reqState'[q] = reqState[q]
    /\ instState'[i] = w.inst
    /\ \A k \in Instance \ {i} : instState'[k] = instState[k]
    /\ \A j \in Job : jobStatus[j] # "none" => /\ jobStatus'[j] = jobStatus[j]
                                              /\ jobOwner'[j] = jobOwner[j]
    /\ \A j \in Job : jobStatus[j] = "none" /\ jobStatus'[j] # "none" =>
          w.started /\ jobStatus'[j] = "running" /\ jobOwner'[j] = r
    /\ \A q \in Request : \/ towerJobId'[q] = towerJobId[q]
                          \/ /\ q = r /\ towerJobId'[q] \in Job
                             /\ jobOwner'[towerJobId'[q]] = r
                             /\ jobStatus'[towerJobId'[q]] = "running"
    /\ \A j \in Job : jobStatus[j] = "running" => jobOwner[j] # r

LEMMA StoreHasEffect ==
  ASSUME Safe, NEW r \in Request, reqState[r] \in Resting, NEW i \in Instance,
         NEW o, NEW row, NEW w, Sound(o, row, w), Store(r, i, w)
  PROVE  StoreEffect(r, i, w)
  <1>1. ~task[r] /\ (\A j \in Job : jobStatus[j] = "running" => jobOwner[j] # r)
    BY DEF Safe, PollerMatchesProcessing, RunningJobIsTracked, Resting
  <1>2. /\ reqState' = [reqState EXCEPT ![r] = w.state]
        /\ instState' = [instState EXCEPT ![i] = w.inst]
        /\ w.state # "FREE"
    BY <1>1 DEF Store, StoredState, Sound, RowType, RequestState
  <1>3. CASE w.started
    <2> DEFINE new == lastJob + 1
    <2>1. /\ new \in Job
          /\ jobStatus' = [jobStatus EXCEPT ![new] = "running"]
          /\ jobOwner' = [jobOwner EXCEPT ![new] = r]
          /\ towerJobId' = [towerJobId EXCEPT ![r] = new]
      BY <1>1, <1>3, ConstantsAssumption DEF Store, LaunchJob, Job, Safe, TypeOK
    <2>2. jobStatus[new] = "none"
      BY <2>1 DEF Safe, JobsInOrder, TypeOK, Job
    <2> HIDE DEF new
    <2>3. /\ \A j \in Job : jobStatus[j] # "none" => /\ jobStatus'[j] = jobStatus[j]
                                                    /\ jobOwner'[j] = jobOwner[j]
          /\ \A j \in Job : jobStatus[j] = "none" /\ jobStatus'[j] # "none" =>
                jobStatus'[j] = "running" /\ jobOwner'[j] = r
          /\ \A q \in Request : \/ towerJobId'[q] = towerJobId[q]
                                \/ /\ q = r /\ towerJobId'[q] \in Job
                                   /\ jobOwner'[towerJobId'[q]] = r
                                   /\ jobStatus'[towerJobId'[q]] = "running"
      BY <2>1, <2>2 DEF Safe, TypeOK
    <2>4. QED
      BY <1>1, <1>2, <1>3, <2>3 DEF StoreEffect, Safe, TypeOK
  <1>4. CASE ~w.started
    <2>1. UNCHANGED <<towerJobId, jobStatus, jobOwner>>
      BY <1>4 DEF Store, jobVars
    <2>2. QED
      BY <1>1, <1>2, <2>1 DEF StoreEffect, Safe, TypeOK
  <1>5. QED
    BY <1>3, <1>4

(* The phases a stored row may lead to: those of the routines above, a withdrawal
   that launches nothing, and the reservation by a new creation request. *)
Fits(r, i, o, w) ==
    \/ /\ Created(r) /\ operation[r] = o /\ target[r] = i
       /\ \/ PhaseOf(w.inst) = Ph(i)
          \/ Ph(i) = "reserved" /\ PhaseOf(w.inst) = "withdrawn" /\ ~w.started
    \/ /\ ~Created(r)
       /\ \/ OpType[o] = "CREATE" /\ Ph(i) = "absent" /\ PhaseOf(w.inst) = "reserved"
          \/ OpType[o] # "CREATE" /\ Ph(i) = "live" /\ PhaseOf(w.inst) = "live"

LEMMA StoreAdvance ==
  ASSUME Safe, TypeOK', Owed, NEW r \in Request, reqState[r] \in Resting,
         NEW i \in Instance, NEW o \in Operation, NEW row, NEW w,
         Sound(o, row, w), Store(r, i, w),
         operation'[r] = o, target'[r] = i,
         \A q \in Request \ {r} : operation'[q] = operation[q] /\ target'[q] = target[q],
         Fits(r, i, o, w)
  PROVE  Advance /\ Told(i)
  <1>1. StoreEffect(r, i, w)
    BY StoreHasEffect
  <1>2. /\ Ph(i)' = PhaseOf(w.inst)
        /\ \A k \in Instance \ {i} : Ph(k)' = Ph(k)
    BY <1>1 DEF StoreEffect, Ph
  <1>3. \A q \in Request : Created(q) => target[q] \in Instance /\ operation[q] \in Operation
    BY DEF Safe, TypeOK, Created
  <1>4. \A q \in Request : Created(q) => Created(q)' /\ operation'[q] = operation[q]
                                                    /\ target'[q] = target[q]
    BY <1>1 DEF StoreEffect, Created, Fits
  <1>5. \A q \in Request : ~Created(q) /\ Created(q)' => q = r
    BY <1>1 DEF StoreEffect, Created
  <1>6. OpType[o] \in Type /\ (w.started => PhaseOf(w.inst) = PhaseOf(Busy[OpType[o]]))
    BY ConstantsAssumption DEF Sound
  <1>7. \A k \in Instance : /\ Ph(k) # "absent" => Ph(k)' # "absent"
                            /\ Ph(k) \in Later => Ph(k)' \in Later
    BY <1>2 DEF Fits, Later
  <1>8. ASSUME NEW q \in Request, Created(q), TypeOf(q) = "CREATE",
               Ph(target[q])' \in {"live", "retired"}
        PROVE  reqState'[q] \in Closed
    <2>1. (Ph(target[q]) = Ph(target[q])' /\ Created(r)) \/ q # r
      BY <1>2, <1>3, <1>8 DEF Fits
    <2>2. Ph(target[q]) \in {"live", "retired"}
      BY <1>2, <1>3, <1>8, <2>1 DEF Fits
    <2>3. reqState[q] \in Closed
      BY <1>8, <2>2 DEF Owed
    <2>4. q # r
      BY <2>3 DEF Resting, Closed
    <2>5. QED
      BY <1>1, <2>3, <2>4 DEF StoreEffect
  <1>9. ~Created(r) =>
          \/ TypeOf(r)' = "CREATE" /\ Ph(i) = "absent" /\ PhaseOf(instState'[i]) = "reserved"
          \/ TypeOf(r)' # "CREATE" /\ PhaseOf(instState'[i]) \in Later
    BY <1>1 DEF StoreEffect, Fits, TypeOf, Later
  <1>10. \A j \in Job : jobStatus[j] # "none" =>
            /\ jobOwner[j] \in Request /\ Created(jobOwner[j])
            /\ jobOwner'[j] = jobOwner[j]
            /\ TypeOf(jobOwner[j])' = TypeOf(jobOwner[j])
            /\ Owner(j)' = Owner(j) /\ Owner(j) \in Instance
    BY <1>1, <1>3, <1>4 DEF StoreEffect, Safe, JobsInOrder, Owed, TypeOf, Owner
  <1>11. \A t \in {"CREATE", "DELETE"} : Achieved(t)' = Achieved(t)
    <2>1. \A j \in Job : jobStatus'[j] = "successful" <=> jobStatus[j] = "successful"
      BY <1>1 DEF StoreEffect
    <2>2. JobsInOrder
      BY DEF Safe
    <2>3. \A j \in Job : jobStatus[j] = "successful" =>
             /\ jobOwner'[j] = jobOwner[j]
             /\ operation'[jobOwner[j]] = operation[jobOwner[j]]
             /\ target'[jobOwner[j]] = target[jobOwner[j]]
      BY <1>4, <1>10
    <2>4. QED
      BY <2>1, <2>2, <2>3, AchievedKept
  <1>12. ASSUME NEW j \in Job, jobStatus'[j] = "running", jobStatus[j] = "none"
         PROVE  /\ Owner(j)' = i /\ jobOwner'[j] = r
                /\ TypeOf(jobOwner[j])' = OpType[o]
                /\ OpType[o] = "CREATE" => Ph(i)' = "reserved"
                /\ OpType[o] # "CREATE" => Ph(i)' = "live"
    BY <1>1, <1>2, <1>6, <1>12, PhaseTables DEF StoreEffect, Owner, TypeOf
  <1>13. ASSUME NEW j \in Job, jobStatus'[j] = "running", jobStatus[j] # "none"
         PROVE  /\ jobStatus[j] = "running" /\ jobOwner[j] # r
                /\ Ph(Owner(j))' = Ph(Owner(j)) \/ TypeOf(jobOwner[j]) \notin {"CREATE", "DELETE"}
    <2>1. jobStatus[j] = "running" /\ jobOwner[j] # r
      BY <1>1, <1>13 DEF StoreEffect
    <2>2. ASSUME Owner(j) = i, Created(r), target[r] = i,
                 Ph(i) = "reserved", PhaseOf(w.inst) = "withdrawn"
          PROVE  FALSE
      <3>1. TypeOf(jobOwner[j]) = "CREATE"
        BY <1>10, <1>13, <2>2 DEF Owed, Owner
      <3>2. TypeOf(r) = "CREATE"
        BY <2>2 DEF Owed
      <3>3. QED
        BY <1>10, <1>13, <2>1, <2>2, <3>1, <3>2 DEF Owed, Owner
    <2>3. ASSUME Owner(j) = i, ~Created(r), Ph(i) = "absent"
          PROVE  FALSE
      BY <1>10, <1>13, <2>3 DEF Owed, Owner
    <2>4. Owner(j) = i => Ph(i)' = Ph(i)
      BY <1>2, <2>2, <2>3 DEF Fits
    <2>5. QED
      BY <1>2, <1>10, <1>13, <2>1, <2>4 DEF Ph
  <1>14. JobClaims'
    <2>1. ASSUME NEW j \in Job, jobStatus'[j] = "running", TypeOf(jobOwner[j])' = "CREATE"
          PROVE  PhaseOf(instState'[Owner(j)']) \in {"reserved", "erased"}
      <3>1. CASE jobStatus[j] = "none"
        BY <1>12, <2>1, <3>1 DEF Ph
      <3>2. CASE jobStatus[j] # "none"
        BY <1>10, <1>13, <2>1, <3>2 DEF Owed, Ph
      <3>3. QED
        BY <3>1, <3>2
    <2>2. ASSUME NEW j \in Job, jobStatus'[j] = "running", TypeOf(jobOwner[j])' = "DELETE"
          PROVE  \/ PhaseOf(instState'[Owner(j)']) \in {"live", "erased"}
                 \/ Owner(j)' \in Achieved("DELETE")'
      <3>1. CASE jobStatus[j] = "none"
        BY <1>12, <2>2, <3>1 DEF Ph
      <3>2. CASE jobStatus[j] # "none"
        BY <1>10, <1>11, <1>13, <2>2, <3>2 DEF Owed, Ph
      <3>3. QED
        BY <3>1, <3>2
    <2>3. ASSUME NEW q \in Request, towerJobId'[q] # 0
          PROVE  jobOwner'[towerJobId'[q]] = q /\ jobStatus'[towerJobId'[q]] # "none"
      <3>1. CASE towerJobId'[q] = towerJobId[q]
        <4>1. towerJobId[q] \in Job /\ jobOwner[towerJobId[q]] = q
              /\ jobStatus[towerJobId[q]] # "none"
          BY <2>3, <3>1, ConstantsAssumption DEF Owed, Safe, TypeOK, Job
        <4>2. QED
          BY <1>1, <3>1, <4>1 DEF StoreEffect
      <3>2. CASE towerJobId'[q] # towerJobId[q]
        BY <1>1, <3>2 DEF StoreEffect
      <3>3. QED
        BY <3>1, <3>2
    <2>4. QED
      BY <2>1, <2>2, <2>3 DEF JobClaims, Ph
  <1>15. Told(i)
    <2>1. Ph(i) # "erased" \/ Ph(i)' = Ph(i)
      BY <1>2 DEF Fits
    <2>2. QED
      BY <1>2, <1>11 DEF Told, Fits
  <1>16. \A j \in Job : jobStatus[j] = "none" /\ jobStatus'[j] # "none" =>
            jobOwner'[j] \in Request /\ reqState'[jobOwner'[j]] # "FREE"
    BY <1>1 DEF StoreEffect
  <1>17. Advance
    BY <1>4, <1>5, <1>7, <1>8, <1>9, <1>10, <1>14, <1>16 DEF Advance
  <1>18. QED
    BY <1>15, <1>17

-----------------------------------------------------------------------------
(* Every handler advances, and is a step of the promise. *)

Kept == Advance /\ PromiseStep

LEMMA StoreOwnKept ==
  ASSUME Safe, TypeOK', Owed, NEW r \in Request, Exists(r), reqState[r] \in Resting,
         NEW row, NEW rows, StoreOwn(r, rows),
         \A w \in rows : /\ Sound(operation[r], row, w)
                         /\ \/ PhaseOf(w.inst) = Ph(target[r])
                            \/ /\ Ph(target[r]) = "reserved"
                               /\ PhaseOf(w.inst) = "withdrawn" /\ ~w.started
  PROVE  Kept
  <1>1. PICK w \in rows : Store(r, target[r], w)
    BY DEF StoreOwn
  <1>2. operation[r] \in Operation /\ target[r] \in Instance /\ Created(r)
    BY CurrentRowType DEF Safe, Exists, RequestState, Created
  <1>3. operation' = operation /\ target' = target
    BY DEF StoreOwn
  <1>4. Fits(r, target[r], operation[r], w)
    BY <1>1, <1>2 DEF Fits
  <1>5. Sound(operation[r], row, w)
    BY <1>1
  <1>6. Advance /\ Told(target[r])
    BY <1>1, <1>2, <1>3, <1>4, <1>5, StoreAdvance
  <1>7. QED
    BY <1>2, <1>6, ToldStep DEF Kept

LEMMA CreationKept ==
  ASSUME WellConfigured, Safe, TypeOK', Owed, NEW r \in Request, Creation(r)
  PROVE  Kept
  <1>1. PICK i \in Instance, o \in Operation, s \in {"PENDING", "AVAILABLE"} :
            /\ CreateRequest(r, i, o, s)
            /\ \/ s = "PENDING" /\ instState[i] = "FREE" /\ OpType[o] = "CREATE"
               \/ s = "AVAILABLE" /\ instState[i] = "AVAILABLE" /\ OpType[o] \in {"UPDATE", "DELETE"}
    BY DEF Creation, RequestService, RequestOperationUI, RequestOperationAPI, RequestOperation
  <1> DEFINE row == Row("SUBMITTED", "none", s)
  <1>2. row \in RowType
    BY RowIsRow DEF RequestState, ApprovalState, AnyInstState, InstanceState
  <1>3. ~row.started /\ row.state \in Resting /\ row.inst = s
    BY DEF Row, Resting
  <1>4. PICK w \in Submitted(o, row) : Store(r, i, w)
    BY <1>1 DEF CreateRequest
  <1>5. Sound(o, row, w)
    BY <1>2, <1>3, <1>4, SubmittedSound
  <1>6. PhaseOf(w.inst) = PhaseOf(s)
    BY <1>2, <1>3, <1>4, SubmittedPhase
  <1>7. /\ operation'[r] = o /\ target'[r] = i
        /\ \A q \in Request \ {r} : operation'[q] = operation[q] /\ target'[q] = target[q]
    BY <1>1 DEF CreateRequest, Safe, TypeOK
  <1>8. reqState[r] \in Resting /\ ~Created(r)
    BY <1>1 DEF CreateRequest, Resting, Created
  <1>9. Fits(r, i, o, w)
    BY <1>1, <1>6, <1>8 DEF Fits, Ph, PhaseOf
  <1>10. Advance /\ Told(i)
    BY <1>4, <1>5, <1>7, <1>8, <1>9, StoreAdvance
  <1>11. QED
    BY <1>10, ToldStep DEF Kept

(* Steps that leave the instances and the jobs alone. *)
LEMMA IdleKept ==
  ASSUME Safe, Owed,
         UNCHANGED <<operation, target, towerJobId, jobVars>>,
         \A i \in Instance : instState'[i] = instState[i] \/
             \/ \E t \in Type : instState[i] = Busy[t] /\ instState'[i] = FailedState[t]
             \/ PhaseOf(instState'[i]) = PhaseOf(instState[i]),
         \A q \in Request : /\ Created(q)' = Created(q)
                            /\ reqState[q] \in Closed => reqState'[q] \in Closed
  PROVE  Kept
  <1>1. \A i \in Instance : Ph(i)' = Ph(i)
    BY PhaseTables DEF Ph
  <1>2. \A t : Achieved(t)' = Achieved(t)
    BY DEF Achieved, TypeOf, jobVars
  <1>3. \A q \in Request : Created(q) => target[q] \in Instance
    BY DEF Safe, TypeOK, Created
  <1>4. \A j \in Job : jobStatus[j] = "running" => Owner(j) \in Instance
    BY <1>3 DEF Safe, JobsInOrder, Owed, Owner
  <1>5. JobClaims'
    BY <1>1, <1>2, <1>4 DEF JobClaims, Owed, TypeOf, Owner, Ph, jobVars
  <1>6. Advance
    BY <1>1, <1>3, <1>5 DEF Advance, Owed, TypeOf, Ph, Created, jobVars
  <1>7. PromiseStep
    <2>1. [k \in Instance |-> PhaseOf(instState[k])]' = [k \in Instance |-> PhaseOf(instState[k])]
      BY <1>1 DEF Ph
    <2>2. QED
      BY <1>2, <2>1 DEF PromiseStep, Promise!promiseVars
  <1>8. QED
    BY <1>6, <1>7 DEF Kept

LEMMA ReviewKept ==
  ASSUME WellConfigured, Safe, NeverWaits, TypeOK', Owed, NEW r \in Request,
         Review(r) \/ ProcessRequest(r)
  PROVE  Kept
  <1>1. CASE HoldRequest(r)
    BY <1>1, IdleKept DEF HoldRequest, Created, Closed, Safe, TypeOK
  <1> SUFFICES ASSUME ~HoldRequest(r) PROVE Kept
    BY <1>1
  <1>2. Exists(r)
    BY DEF Review, ReSubmitUI, ReSubmitAPI, CancelRequest, RejectRequest, AcceptUI, AcceptAPI,
           AcceptRequest, ApproveLastStep, ProcessRequest, Exists, RequestState, CancelFrom,
           RejectFrom, AcceptFrom, ProcessFrom
  <1> DEFINE o == operation[r]
             now == CurrentRow(r)
  <1>3. /\ o \in Operation
        /\ InstOf(r) \in AnyInstState
        /\ approval[r] \in ApprovalState
        /\ now \in RowType
        /\ PhaseOf(InstOf(r)) = Ph(target[r])
    BY <1>2, CurrentRowType DEF Safe, InstOf, Ph
  <1>4. ~now.started /\ now.state = reqState[r] /\ now.inst = InstOf(r)
    BY DEF CurrentRow, Row
  <1>5. CASE ReSubmitUI(r) \/ ReSubmitAPI(r)
    <2>1. reqState[r] \in Resting /\ o \notin AutoAccept
      BY <1>5 DEF ReSubmitUI, ReSubmitAPI, Resting, NeverWaits
    <2>2. \A w \in ReSubmittedByUi(o, now) \cup ReSubmittedByApi(o, now) :
             Sound(o, now, w) /\ PhaseOf(w.inst) = Ph(target[r])
      BY <1>3, <1>4, <2>1, SubmittedSound, ReSubmittedSound, SubmittedPhase
    <2>3. QED
      BY <1>2, <1>5, <2>1, <2>2, StoreOwnKept DEF ReSubmitUI, ReSubmitAPI
  <1>6. CASE CancelRequest(r) \/ RejectRequest(r)
    <2>1. PICK s \in {"CANCELED", "REJECTED"} :
              StoreOwn(r, {Row(s, approval[r], AbortPending(InstOf(r)))})
      BY <1>6 DEF CancelRequest, RejectRequest
    <2> DEFINE refused == Row(s, approval[r], AbortPending(InstOf(r)))
    <2>2. refused \in RowType
      BY <1>3, TablesType, RowIsRow DEF RequestState
    <2>3. Sound(o, now, refused)
      BY <1>3, <1>4, <2>2, BusyTables DEF Sound, Row, Resting
    <2>4. \/ PhaseOf(refused.inst) = Ph(target[r])
          \/ /\ Ph(target[r]) = "reserved"
             /\ PhaseOf(refused.inst) = "withdrawn" /\ ~refused.started
      BY <1>3, PhaseTables DEF Row
    <2>5. reqState[r] \in Resting
      BY <1>6 DEF CancelRequest, RejectRequest, CancelFrom, RejectFrom, Resting
    <2> HIDE DEF refused
    <2>6. StoreOwn(r, {refused})
      BY <2>1 DEF refused
    <2>7. QED
      BY <1>2, <2>3, <2>4, <2>5, <2>6, StoreOwnKept
  <1>7. CASE AcceptUI(r) \/ AcceptAPI(r)
    <2> DEFINE reset == Row("ACCEPTED", approval[r], LastStable(InstOf(r)))
    <2>1. reqState[r] \in Resting /\ StoreOwn(r, Accepted(o, reset))
      BY <1>7 DEF AcceptUI, AcceptAPI, AcceptRequest, AcceptFrom, Resting
    <2>2. reset \in RowType
      BY <1>3, TablesType, RowIsRow DEF RequestState
    <2>3. ~reset.started /\ PhaseOf(reset.inst) = Ph(target[r])
      BY <1>3, PhaseTables DEF Row
    <2>4. \A w \in Accepted(o, reset) : Sound(o, reset, w) /\ PhaseOf(w.inst) = Ph(target[r])
      BY <1>3, <2>2, <2>3, AcceptedSound, AcceptedPhase
    <2>5. QED
      BY <1>2, <2>1, <2>4, StoreOwnKept
  <1>8. CASE ApproveLastStep(r) /\ reqState[r] \in AcceptFrom
    <2> DEFINE approved == [now EXCEPT !.approval = "approved"]
    <2>1. reqState[r] \in Resting /\ StoreOwn(r, Accepted(o, approved))
      BY <1>8 DEF ApproveLastStep, AcceptFrom, Resting
    <2>2. approved \in RowType /\ ~approved.started /\ PhaseOf(approved.inst) = Ph(target[r])
      BY <1>3, <1>4 DEF RowType, ApprovalState
    <2> HIDE DEF approved
    <2>3. \A w \in Accepted(o, approved) :
             Sound(o, approved, w) /\ PhaseOf(w.inst) = Ph(target[r])
      BY <1>3, <2>2, AcceptedSound, AcceptedPhase
    <2>4. QED
      BY <1>2, <2>1, <2>3, StoreOwnKept
  <1>9. CASE ApproveLastStep(r) /\ reqState[r] \notin AcceptFrom
    <2> DEFINE approved == [now EXCEPT !.approval = "approved"]
    <2>1. Store(r, target[r], approved) /\ operation' = operation /\ target' = target
      BY <1>9 DEF ApproveLastStep, StoreOwn
    <2>2. ~approved.started /\ approved.state = reqState[r] /\ approved.inst = instState[target[r]]
      BY <1>3, <1>4 DEF RowType, InstOf
    <2>3. target[r] \in Instance
      BY <1>2, CurrentRowType DEF Safe
    <2>4. /\ reqState' = reqState /\ instState' = instState
          /\ UNCHANGED <<towerJobId, jobVars>>
      BY <2>1, <2>2, <2>3 DEF Store, StoredState, Safe, TypeOK
    <2>5. QED
      BY <2>1, <2>4, IdleKept DEF Created
  <1>10. CASE ProcessRequest(r)
    <2>1. /\ reqState[r] \in Resting /\ StoreOwn(r, Processed(o, now))
          /\ InstOf(r) \in StartFrom[OpType[o]]
      BY <1>10 DEF ProcessRequest, ProcessFrom, Resting, TypeOf
    <2>2. OpType[o] \in Type
      BY <1>3, ConstantsAssumption
    <2>3. \A w \in Processed(o, now) : w.inst \in {Busy[OpType[o]], FailedState[OpType[o]]}
      BY <1>3 DEF Processed, RowType
    <2>4. \A w \in Processed(o, now) : Sound(o, now, w) /\ PhaseOf(w.inst) = Ph(target[r])
      BY <1>3, <1>4, <2>1, <2>2, <2>3, ProcessedSound, PhaseTables
    <2>5. QED
      BY <1>2, <2>1, <2>4, StoreOwnKept
  <1>11. QED
    BY <1>5, <1>6, <1>7, <1>8, <1>9, <1>10 DEF Review

LEMMA SuccessTables ==
  \A t \in Type : /\ \A s \in SuccessFrom[t] : /\ PhaseOf(s) \in {"reserved", "live"}
                                               /\ t = "DELETE" => PhaseOf(s) = "live"
                 /\ PhaseOf(SuccessState[t]) = IF t = "DELETE" THEN "retired" ELSE "live"
  BY DEF Type, SuccessFrom, SuccessState, PhaseOf

(* A check message that finds a success: the creation request delivers the instance,
   a deletion request retires it. *)
LEMMA SuccessKept ==
  ASSUME Safe, TypeOK', Owed, NEW r \in Request, CheckSuccessful(r)
  PROVE  Kept
  <1> DEFINE i == target[r]
             t == TypeOf(r)
  <1>1. Created(r) /\ i \in Instance /\ t \in Type
    BY CurrentRowType DEF CheckSuccessful, Safe, Exists, RequestState, Created
  <1>2. /\ UNCHANGED <<operation, target, towerJobId, lastJob, jobStatus, jobOwner>>
        /\ reqState[r] = "PROCESSING"
        /\ reqState'[r] = "COMPLETE"
        /\ \A q \in Request \ {r} : reqState'[q] = reqState[q]
    BY DEF CheckSuccessful, jobVars, Safe, TypeOK
  <1>3. /\ \A k \in Instance \ {i} : Ph(k)' = Ph(k)
        /\ \/ Ph(i)' = Ph(i)
           \/ instState[i] \in SuccessFrom[t] /\ instState'[i] = SuccessState[t]
    BY <1>1 DEF CheckSuccessful, InstOf, Ph, Safe, TypeOK
  <1>4. /\ jobOwner[towerJobId[r]] = r /\ jobStatus[towerJobId[r]] = "successful"
        /\ towerJobId[r] \in Job
    BY ConstantsAssumption DEF CheckSuccessful, Owed, Safe, TypeOK, Job
  <1>5. i \in Achieved(t)
    BY <1>4 DEF Achieved
  <1>6. \A u : Achieved(u)' = Achieved(u)
    BY <1>2 DEF Achieved, TypeOf
  <1>7. \/ Ph(i)' = Ph(i)
        \/ t = "CREATE" /\ Ph(i) = "reserved" /\ Ph(i)' = "live"
        \/ t = "DELETE" /\ Ph(i) = "live" /\ Ph(i)' = "retired"
    <2>1. t = "CREATE" => Ph(i) \notin {"live", "retired"}
      BY <1>1, <1>2 DEF Owed, Closed
    <2>2. t # "CREATE" => Ph(i) \in Later
      BY <1>1 DEF Owed, Later
    <2>3. CASE instState[i] \in SuccessFrom[t] /\ instState'[i] = SuccessState[t]
      <3> DEFINE was == Ph(i)
                 is == PhaseOf(instState'[i])
      <3>1. /\ was \in {"reserved", "live"}
            /\ t = "DELETE" => was = "live"
            /\ is = IF t = "DELETE" THEN "retired" ELSE "live"
        BY <1>1, <2>3, SuccessTables DEF Ph
      <3>2. /\ t = "CREATE" => was = "reserved"
            /\ t # "CREATE" => was = "live"
            /\ t \in {"CREATE", "UPDATE", "DELETE"}
        BY <1>1, <2>1, <2>2, <3>1 DEF Later, Type
      <3>3. Ph(i)' = is
        BY <1>2 DEF Ph
      <3> HIDE DEF was, is
      <3>4. \/ is = was
            \/ t = "CREATE" /\ was = "reserved" /\ is = "live"
            \/ t = "DELETE" /\ was = "live" /\ is = "retired"
        BY <3>1, <3>2
      <3>5. QED
        BY <3>3, <3>4 DEF was
    <2>4. QED
      BY <1>3, <2>3
  <1>8. \A q \in Request : Created(q) => target[q] \in Instance
    BY DEF Safe, TypeOK, Created
  <1>9. \A j \in Job : jobStatus[j] = "running" =>
            jobOwner[j] \in Request \ {r} /\ Created(jobOwner[j]) /\ Owner(j) \in Instance
    BY <1>2, <1>4, <1>8 DEF Safe, JobsInOrder, RunningJobIsTracked, Owed, Owner
  <1>10. JobClaims'
    <2>1. ASSUME NEW j \in Job, jobStatus[j] = "running", TypeOf(jobOwner[j]) = "CREATE"
          PROVE  Ph(Owner(j))' \in {"reserved", "erased"}
      <3>1. Ph(Owner(j)) \in {"reserved", "erased"}
        BY <2>1 DEF Owed
      <3>2. ~(t = "CREATE" /\ Owner(j) = i)
        BY <1>1, <1>9, <2>1 DEF Owed, Owner
      <3>3. Ph(Owner(j))' = Ph(Owner(j))
        BY <1>2, <1>3, <1>7, <1>9, <2>1, <3>1, <3>2 DEF Owner, Ph
      <3>4. QED
        BY <3>1, <3>3
    <2>2. ASSUME NEW j \in Job, jobStatus[j] = "running", TypeOf(jobOwner[j]) = "DELETE"
          PROVE  Ph(Owner(j))' \in {"live", "erased"} \/ Owner(j) \in Achieved("DELETE")
      <3>1. Ph(Owner(j)) \in {"live", "erased"} \/ Owner(j) \in Achieved("DELETE")
        BY <2>2 DEF Owed
      <3>2. CASE Owner(j) = i
        BY <1>2, <1>5, <1>7, <2>2, <3>1, <3>2 DEF Owner, Ph
      <3>3. CASE Owner(j) # i
        BY <1>2, <1>3, <1>9, <2>2, <3>1, <3>3 DEF Owner, Ph
      <3>4. QED
        BY <3>2, <3>3
    <2>3. \A q \in Request : towerJobId[q] # 0 =>
             jobOwner[towerJobId[q]] = q /\ jobStatus[towerJobId[q]] # "none"
      BY DEF Owed
    <2>4. \A j \in Job : Owner(j)' = Owner(j) /\ TypeOf(jobOwner[j])' = TypeOf(jobOwner[j])
      BY <1>2 DEF Owner, TypeOf
    <2>5. QED
      BY <1>2, <1>6, <2>1, <2>2, <2>3, <2>4 DEF JobClaims
  <1>11. \A k \in Instance : /\ Ph(k) # "absent" => Ph(k)' # "absent"
                             /\ Ph(k) \in Later => Ph(k)' \in Later
    <2>1. \A k \in Instance \ {i} : PhaseOf(instState'[k]) = PhaseOf(instState[k])
      BY <1>3 DEF Ph
    <2>2. \/ PhaseOf(instState'[i]) = PhaseOf(instState[i])
          \/ PhaseOf(instState[i]) = "reserved" /\ PhaseOf(instState'[i]) = "live"
          \/ PhaseOf(instState[i]) = "live" /\ PhaseOf(instState'[i]) = "retired"
      BY <1>2, <1>7 DEF Ph
    <2>3. QED
      BY <2>1, <2>2 DEF Ph, Later
  <1>12. ASSUME NEW q \in Request, Created(q), TypeOf(q) = "CREATE",
                Ph(target[q])' \in {"live", "retired"}
         PROVE  reqState'[q] \in Closed
    <2>1. CASE q = r
      BY <1>2, <2>1 DEF Closed
    <2>2. CASE q # r /\ Ph(target[q]) \in {"live", "retired"}
      BY <1>2, <1>12, <2>2 DEF Owed
    <2>3. CASE q # r /\ Ph(target[q]) \notin {"live", "retired"}
      <3> DEFINE k == target[q]
      <3>1. PhaseOf(instState'[k]) \in {"live", "retired"} /\ k \in Instance
        BY <1>2, <1>8, <1>12 DEF Ph
      <3>2. PhaseOf(instState[k]) \notin {"live", "retired"}
        BY <2>3 DEF Ph
      <3>3. k = i
        BY <1>3, <3>1, <3>2 DEF Ph
      <3>4. t = "CREATE"
        BY <1>2, <1>7, <3>1, <3>2, <3>3 DEF Ph
      <3>5. QED
        BY <1>1, <1>12, <2>3, <3>3, <3>4 DEF Owed
    <2>4. QED
      BY <2>1, <2>2, <2>3
  <1>13. Advance
    BY <1>2, <1>10, <1>11, <1>12 DEF Advance, Created
  <1>14. Told(i)
    BY <1>3, <1>5, <1>6, <1>7 DEF Told
  <1>15. QED
    BY <1>1, <1>13, <1>14, ToldStep DEF Kept

LEMMA CheckKept ==
  ASSUME Safe, TypeOK', Owed, NEW r \in Request, Check(r)
  PROVE  Kept
  <1>1. CASE CheckIgnored(r)
    BY <1>1, IdleKept DEF CheckIgnored, requestVars, Created
  <1> SUFFICES ASSUME ~CheckIgnored(r) PROVE Kept
    BY <1>1
  <1>2. Exists(r)
    BY DEF Check, CheckExpired, CheckSuccessful, CheckFailed, Exists, RequestState
  <1>3. TypeOf(r) \in Type /\ target[r] \in Instance
    BY <1>2, CurrentRowType DEF Safe
  <1>4. CASE CheckExpired(r)
    BY <1>3, <1>4, IdleKept DEF CheckExpired, requestVars, Created, InstOf, Safe, TypeOK
  <1>5. CASE CheckFailed(r)
    BY <1>3, <1>5, IdleKept DEF CheckFailed, Created, Closed, InstOf, Safe, TypeOK
  <1>6. QED
    BY <1>4, <1>5, SuccessKept DEF Check

LEMMA RequestStepKept ==
  ASSUME WellConfigured, Safe, NeverWaits, TypeOK', Owed, NEW r \in Request, RequestStep(r)
  PROVE  Kept
  <1>1. CASE Creation(r)
    BY <1>1, CreationKept
  <1>2. CASE Review(r) \/ ProcessRequest(r)
    BY <1>2, ReviewKept
  <1>3. CASE Check(r)
    BY <1>3, CheckKept
  <1>4. CASE TimePasses(r) \/ BeatTick(r)
    BY <1>4, IdleKept DEF TimePasses, BeatTick, requestVars, Created
  <1>5. CASE ArchiveRequest(r) \/ UnarchiveRequest(r)
    BY <1>5, IdleKept DEF ArchiveRequest, UnarchiveRequest, Created, Closed, Safe, TypeOK
  <1>6. QED
    BY <1>1, <1>2, <1>3, <1>4, <1>5 DEF RequestStep

(* The end of a job adds its instance to the ones it succeeded for. *)
LEMMA AchievedGrows ==
  ASSUME TypeOK, NEW j \in Job, NEW s, jobStatus[j] = "running",
         jobStatus' = [jobStatus EXCEPT ![j] = s],
         UNCHANGED <<operation, target, jobOwner>>, NEW u
  PROVE  Achieved(u)' = IF s = "successful" /\ TypeOf(jobOwner[j]) = u
                        THEN Achieved(u) \cup {Owner(j)}
                        ELSE Achieved(u)
  <1> DEFINE S == {k \in Job : jobStatus[k] = "successful" /\ TypeOf(jobOwner[k]) = u}
             T == {k \in Job : jobStatus'[k] = "successful" /\ TypeOf(jobOwner[k]) = u}
  <1>1. \A k \in Job \ {j} : k \in T <=> k \in S
    BY DEF TypeOK
  <1>2. j \notin S /\ (j \in T <=> s = "successful" /\ TypeOf(jobOwner[j]) = u)
    BY DEF TypeOK
  <1>3. T = IF s = "successful" /\ TypeOf(jobOwner[j]) = u THEN S \cup {j} ELSE S
    BY <1>1, <1>2
  <1>4. Achieved(u) = {Owner(k) : k \in S}
    BY DEF Achieved, Owner
  <1>5. Achieved(u)' = {Owner(k) : k \in T}
    BY DEF Achieved, Owner, TypeOf
  <1> HIDE DEF S, T
  <1>6. QED
    BY <1>3, <1>4, <1>5

LEMMA JobEndsKept ==
  ASSUME Safe, Owed, NEW j \in Job, JobEnds(j)
  PROVE  Kept
  <1> DEFINE i == Owner(j)
             t == TypeOf(jobOwner[j])
  <1>1. PICK s \in {"successful", "failed", "canceled"} : jobStatus' = [jobStatus EXCEPT ![j] = s]
    BY DEF JobEnds
  <1>2. jobStatus[j] = "running" /\ TypeOK /\ JobsInOrder
        /\ UNCHANGED <<reqState, operation, target, towerJobId, instState, lastJob, jobOwner>>
    BY DEF JobEnds, Safe, requestVars
  <1>3. \A u : Achieved(u)' = IF s = "successful" /\ t = u THEN Achieved(u) \cup {i} ELSE Achieved(u)
    BY <1>1, <1>2, AchievedGrows
  <1>4. \A k \in Job : (jobStatus'[k] = "running" => jobStatus[k] = "running")
                       /\ (jobStatus'[k] # "none" <=> jobStatus[k] # "none")
    BY <1>1, <1>2 DEF TypeOK
  <1>5. \A k \in Job : Owner(k)' = Owner(k) /\ TypeOf(jobOwner[k])' = TypeOf(jobOwner[k])
    BY <1>2 DEF Owner, TypeOf
  <1>6. \A k : Ph(k)' = Ph(k)
    BY <1>2 DEF Ph
  <1>7. JobClaims'
    <2>1. \A k \in Job : jobStatus'[k] = "running" /\ TypeOf(jobOwner[k]) = "CREATE" =>
              Ph(Owner(k)) \in {"reserved", "erased"}
      BY <1>4 DEF Owed
    <2>2. \A k \in Job : jobStatus'[k] = "running" /\ TypeOf(jobOwner[k]) = "DELETE" =>
              Ph(Owner(k)) \in {"live", "erased"} \/ Owner(k) \in Achieved("DELETE")'
      BY <1>3, <1>4 DEF Owed
    <2>3. \A q \in Request : towerJobId[q] # 0 =>
              jobOwner[towerJobId[q]] = q /\ jobStatus'[towerJobId[q]] # "none"
      BY <1>2, <1>4, ConstantsAssumption DEF Owed, TypeOK, Job
    <2>4. QED
      BY <1>2, <1>5, <2>1, <2>2, <2>3 DEF JobClaims, Ph
  <1>8. Advance
    <2>1. \A q \in Request : Created(q)' = Created(q)
      BY <1>2 DEF Created
    <2>2. \A q \in Request : /\ Created(q) /\ TypeOf(q) = "CREATE"
                             /\ Ph(target[q])' \in {"live", "retired"}
                             => reqState'[q] \in Closed
      BY <1>2 DEF Owed, Ph
    <2>3. QED
      BY <1>2, <1>4, <1>6, <1>7, <2>1, <2>2 DEF Advance
  <1>9. PromiseStep
    <2> DEFINE phase == [k \in Instance |-> PhaseOf(instState[k])]
    <2>1. phase' = phase
      BY <1>2
    <2>2. i \in Instance /\ phase[i] = Ph(i)
      BY <1>2 DEF JobsInOrder, Owed, TypeOK, Created, Owner, Ph
    <2>3. CASE s = "successful" /\ t = "CREATE"
      <3>1. phase[i] \in {"reserved", "erased"}
        BY <1>2, <2>2, <2>3 DEF Owed
      <3>2. Achieved("CREATE")' = Achieved("CREATE") \cup {i} /\ Achieved("DELETE")' = Achieved("DELETE")
        BY <1>3, <2>3
      <3>3. QED
        BY <2>1, <2>2, <3>1, <3>2 DEF PromiseStep, Promise!PromiseNext, Promise!CreationSucceeds
    <2>4. CASE s = "successful" /\ t = "DELETE" /\ Ph(i) \in {"live", "erased"}
      <3>1. Achieved("DELETE")' = Achieved("DELETE") \cup {i} /\ Achieved("CREATE")' = Achieved("CREATE")
        BY <1>3, <2>4
      <3>2. QED
        BY <2>1, <2>2, <2>4, <3>1 DEF PromiseStep, Promise!PromiseNext, Promise!DestructionSucceeds
    <2>5. CASE s = "successful" /\ t = "DELETE" /\ Ph(i) \notin {"live", "erased"}
      <3>1. i \in Achieved("DELETE")
        BY <1>2, <2>5 DEF Owed
      <3>2. Achieved("DELETE")' = Achieved("DELETE") /\ Achieved("CREATE")' = Achieved("CREATE")
        BY <1>3, <2>5, <3>1
      <3>3. QED
        BY <2>1, <3>2 DEF PromiseStep, Promise!promiseVars
    <2>6. CASE s # "successful" \/ t \notin {"CREATE", "DELETE"}
      <3>1. Achieved("DELETE")' = Achieved("DELETE") /\ Achieved("CREATE")' = Achieved("CREATE")
        BY <1>3, <2>6
      <3>2. QED
        BY <2>1, <3>1 DEF PromiseStep, Promise!promiseVars
    <2>7. QED
      BY <2>3, <2>4, <2>5, <2>6
  <1>10. QED
    BY <1>8, <1>9 DEF Kept

LEMMA DeleteInstanceKept ==
  ASSUME Safe, Owed, NEW i \in Instance, DeleteInstance(i)
  PROVE  Kept
  <1>1. /\ UNCHANGED <<operation, target, towerJobId, lastJob, jobStatus, jobOwner>>
        /\ instState[i] \in InstanceState /\ instState'[i] = "GONE"
        /\ \A k \in Instance \ {i} : instState'[k] = instState[k]
    BY DEF DeleteInstance, jobVars, Safe, TypeOK
  <1>2. /\ PhaseOf(instState[i]) \notin {"absent", "erased"}
        /\ PhaseOf(instState'[i]) = "erased"
    BY <1>1 DEF InstanceState, PhaseOf
  <1>3. \A k \in Instance \ {i} : PhaseOf(instState'[k]) = PhaseOf(instState[k])
    BY <1>1
  <1>4. \A u : Achieved(u)' = Achieved(u)
    BY <1>1 DEF Achieved, TypeOf
  <1>5. \A q \in Request : /\ Created(q)' = Created(q)
                           /\ reqState[q] \in Closed => reqState'[q] \in Closed
                           /\ Created(q) => target[q] \in Instance
    BY DEF DeleteInstance, Created, Closed, Exists, RequestState, Safe, TypeOK
  <1>6. \A k \in Job : Owner(k)' = Owner(k) /\ TypeOf(jobOwner[k])' = TypeOf(jobOwner[k])
    BY <1>1 DEF Owner, TypeOf
  <1>7. \A k \in Job : jobStatus[k] = "running" => Owner(k) \in Instance
    BY <1>5 DEF Safe, JobsInOrder, Owed, Owner
  <1>8. JobClaims'
    <2>1. \A k \in Job : jobStatus[k] = "running" /\ TypeOf(jobOwner[k]) = "CREATE" =>
              PhaseOf(instState'[Owner(k)]) \in {"reserved", "erased"}
      BY <1>2, <1>3, <1>7 DEF Owed, Ph
    <2>2. \A k \in Job : jobStatus[k] = "running" /\ TypeOf(jobOwner[k]) = "DELETE" =>
              PhaseOf(instState'[Owner(k)]) \in {"live", "erased"} \/ Owner(k) \in Achieved("DELETE")
      BY <1>2, <1>3, <1>7 DEF Owed, Ph
    <2>3. \A q \in Request : towerJobId[q] # 0 =>
              jobOwner[towerJobId[q]] = q /\ jobStatus[towerJobId[q]] # "none"
      BY DEF Owed
    <2>4. QED
      BY <1>1, <1>4, <1>6, <2>1, <2>2, <2>3 DEF JobClaims, Ph
  <1>9. Advance
    <2>1. \A k \in Instance : /\ Ph(k) # "absent" => Ph(k)' # "absent"
                              /\ Ph(k) \in Later => Ph(k)' \in Later
      BY <1>2, <1>3 DEF Ph, Later
    <2>2. \A q \in Request : /\ Created(q) /\ TypeOf(q) = "CREATE"
                             /\ PhaseOf(instState'[target[q]]) \in {"live", "retired"}
                             => reqState'[q] \in Closed
      BY <1>2, <1>3, <1>5 DEF Owed, Ph
    <2>3. QED
      BY <1>1, <1>5, <1>8, <2>1, <2>2 DEF Advance, Ph
  <1>10. Told(i)
    BY <1>2, <1>3, <1>4 DEF Told, Ph
  <1>11. QED
    BY <1>9, <1>10, ToldStep DEF Kept

LEMMA OtherStepKept ==
  ASSUME Safe, Owed,
         \/ \E i \in Instance : ArchiveInstance(i) \/ UnarchiveInstance(i)
         \/ \E j \in Job : JobEnds(j)
         \/ BeatRestart
         \/ Deletion
  PROVE  Kept
  <1>1. CASE \E i \in Instance : ArchiveInstance(i) \/ UnarchiveInstance(i)
    <2>1. PhaseOf("DELETED") = PhaseOf("ARCHIVED")
      BY DEF PhaseOf
    <2>2. \A i \in Instance : PhaseOf(instState'[i]) = PhaseOf(instState[i])
      BY <1>1, <2>1 DEF ArchiveInstance, UnarchiveInstance, Safe, TypeOK
    <2>3. UNCHANGED <<requestVars, jobVars>>
      BY <1>1 DEF ArchiveInstance, UnarchiveInstance
    <2>4. QED
      BY <2>2, <2>3, IdleKept DEF requestVars, Created
  <1>2. CASE \E j \in Job : JobEnds(j)
    BY <1>2, JobEndsKept
  <1>3. CASE BeatRestart
    BY <1>3, IdleKept DEF BeatRestart, Created
  <1>4. CASE \E r \in Request : DeleteRequest(r)
    BY <1>4, IdleKept DEF DeleteRequest, Exists, RequestState, Created, Closed, Safe, TypeOK
  <1>5. CASE \E R \in SUBSET Request \ {{}} : BulkDeleteRequests(R)
    BY <1>5, IdleKept DEF BulkDeleteRequests, Exists, RequestState, Created, Closed, Safe, TypeOK
  <1>6. CASE \E i \in Instance : DeleteInstance(i)
    BY <1>6, DeleteInstanceKept
  <1>7. QED
    BY <1>1, <1>2, <1>3, <1>4, <1>5, <1>6 DEF Deletion

(* The handlers keep the promise made to the owner of an instance, whatever requests
   are made, refused, retried, polled or deleted, for every number of them. *)
THEOREM PromiseKept ==
  ASSUME WellConfigured
  PROVE  Spec => KeepsPromise
  <1>1. Init => Owed /\ Promise!PromiseInit
    <2> SUFFICES ASSUME Init PROVE Owed /\ Promise!PromiseInit
      OBVIOUS
    <2>1. PhaseOf("FREE") = "absent"
      BY DEF PhaseOf
    <2>2. Owed
      BY DEF Init, Owed, Created
    <2>3. \A u : Achieved(u) = {}
      BY DEF Init, Achieved
    <2>4. QED
      BY <2>1, <2>2, <2>3 DEF Init, Promise!PromiseInit
  <1>2. Safe /\ NeverWaits /\ TypeOK' /\ Owed /\ [Next]_vars => Owed' /\ PromiseStep
    <2> SUFFICES ASSUME Safe, NeverWaits, TypeOK', Owed, [Next]_vars PROVE Owed' /\ PromiseStep
      OBVIOUS
    <2>1. CASE UNCHANGED vars
      BY <2>1, IdleKept, AdvanceOwed DEF Kept, vars, requestVars, Created, Safe
    <2>2. CASE Next
      <3>1. Kept
        BY <2>2, RequestStepKept, OtherStepKept DEF Next
      <3>2. QED
        BY <3>1, AdvanceOwed DEF Kept, Safe
    <2>3. QED
      BY <2>1, <2>2
  <1>3. Spec => []Safe /\ []NeverWaits
    BY SafeInvariant, AutoAcceptedNeverWait
  <1>4. Safe => TypeOK
    BY DEF Safe
  <1>5. QED
    BY <1>1, <1>2, <1>3, <1>4, PTL DEF Spec, KeepsPromise, Promise!PromiseSpec, PromiseStep
=============================================================================
