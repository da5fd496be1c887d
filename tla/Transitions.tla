------------------------------ MODULE Transitions ------------------------------
(* The transition tables of Request and Instance (the @transition decorators of
   service_catalog/models/request.py and instance.py), which the modules that run
   the handlers share. *)

Type == {"CREATE", "UPDATE", "DELETE"}

RequestState ==
    {"SUBMITTED", "ON_HOLD", "REJECTED", "CANCELED", "ACCEPTED", "PROCESSING",
     "COMPLETE", "FAILED", "ARCHIVED"}
InstanceState ==
    {"PENDING", "PROVISION_FAILED", "PROVISIONING", "UPDATING", "UPDATE_FAILED",
     "DELETING", "DELETED", "DELETE_FAILED", "ARCHIVED", "AVAILABLE", "ABORTED"}

(* Mutant: accept() also leaves PROCESSING. *)
AcceptFromProcessing == {"ACCEPTED", "SUBMITTED", "FAILED", "ON_HOLD", "PROCESSING"}

AcceptFrom == {"ACCEPTED", "SUBMITTED", "FAILED", "ON_HOLD"}
CancelFrom == {"SUBMITTED", "ON_HOLD", "REJECTED", "ACCEPTED"}
RejectFrom == {"SUBMITTED", "ACCEPTED", "ON_HOLD"}
ProcessFrom == {"ACCEPTED", "FAILED"}

(* Request.can_process *)
CanProcess == {"AVAILABLE", "PENDING", "UPDATE_FAILED", "PROVISION_FAILED", "DELETE_FAILED"}

(* Instance.provisioning, updating, deleting: sources and target. *)
StartFrom == [CREATE |-> {"PENDING", "PROVISION_FAILED"},
              UPDATE |-> {"AVAILABLE", "UPDATE_FAILED"},
              DELETE |-> {"AVAILABLE", "DELETE_FAILED"}]
Busy == [CREATE |-> "PROVISIONING", UPDATE |-> "UPDATING", DELETE |-> "DELETING"]
BusyState == {"PROVISIONING", "UPDATING", "DELETING"}

(* Instance.provisioning_has_failed, update_has_failed, delete_has_failed. *)
FailedState == [CREATE |-> "PROVISION_FAILED", UPDATE |-> "UPDATE_FAILED",
                DELETE |-> "DELETE_FAILED"]

(* Instance.available, Instance.deleted: where the job's success leads. *)
SuccessFrom == [CREATE |-> {"PROVISION_FAILED", "DELETE_FAILED", "UPDATE_FAILED",
                            "PROVISIONING", "UPDATING"},
                UPDATE |-> {"PROVISION_FAILED", "DELETE_FAILED", "UPDATE_FAILED",
                            "PROVISIONING", "UPDATING"},
                DELETE |-> {"DELETING"}]
SuccessState == [CREATE |-> "AVAILABLE", UPDATE |-> "AVAILABLE", DELETE |-> "DELETED"]

(* Instance.reset_to_last_stable_state *)
LastStable(s) ==
    CASE s = "PROVISION_FAILED" -> "PENDING"
      [] s \in {"UPDATE_FAILED", "DELETE_FAILED"} -> "AVAILABLE"
      [] OTHER -> s

(* Mutant: the test on PENDING also lets an AVAILABLE instance through. *)
AbortUnlessBusy(s) == IF s \in {"PENDING", "AVAILABLE"} THEN "ABORTED" ELSE s

(* cancel and reject abort an instance that is still PENDING. *)
AbortPending(s) == IF s = "PENDING" THEN "ABORTED" ELSE s
=============================================================================
