------------------------ MODULE MCHandlerInterleaving ------------------------
(* Instances of HandlerInterleaving for TLC: up to two requests on one instance. *)
EXTENDS HandlerInterleaving, TLC

CONSTANTS r1, r2, i1

MCOneTypeOf == r1 :> "CREATE"
MCTwoTypeOf == r1 :> "UPDATE" @@ r2 :> "DELETE"
MCInstanceOf == [r \in Request |-> i1]
MCPending == i1 :> "PENDING"
MCAvailable == i1 :> "AVAILABLE"

(* Threads of the same kind are interchangeable. *)
Symmetry == Permutations(Web) \cup Permutations(Worker)
=============================================================================
