------------------------- MODULE MCRequestLifecycle -------------------------
(* Instances of RequestLifecycle for TLC: one instance, one operation of each
   type, and as many requests as the configuration names. *)
EXTENDS RequestLifecycle, TLC

CONSTANTS create, update, delete

MCOpType == create :> "CREATE" @@ update :> "UPDATE" @@ delete :> "DELETE"

(* The primary keys of requests are interchangeable. *)
Symmetry == Permutations(Request)
=============================================================================
