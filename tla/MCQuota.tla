------------------------------- MODULE MCQuota -------------------------------
(* Instances of Quota for TLC. *)
EXTENDS Quota
=============================================================================
