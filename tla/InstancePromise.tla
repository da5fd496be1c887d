--------------------------- MODULE InstancePromise ---------------------------
(***************************************************************************)
(* What the catalog promises the owner of an instance, whatever requests   *)
(* are made, refused, retried or lost on the way: an instance is reserved, *)
(* then either withdrawn or delivered, it is delivered only after a        *)
(* creation job succeeded, retired only after a deletion job succeeded,    *)
(* and never comes back from either.  RequestLifecycle implements it with  *)
(* eleven instance states and nine request states.                         *)
(***************************************************************************)
CONSTANT Instance

VARIABLES
    phase,       \* where each instance is for its owner
    created,     \* instances for which a creation job succeeded on RHAAP/AWX
    destroyed    \* instances for which a deletion job succeeded on RHAAP/AWX

promiseVars == <<phase, created, destroyed>>

Phase == {"absent", "reserved", "withdrawn", "live", "retired", "erased"}

Move(i, from, to) ==
    /\ phase[i] = from
    /\ phase' = [phase EXCEPT ![i] = to]
    /\ UNCHANGED <<created, destroyed>>

Reserve(i) == Move(i, "absent", "reserved")
Withdraw(i) == Move(i, "reserved", "withdrawn")
Deliver(i) == i \in created /\ Move(i, "reserved", "live")
Retire(i) == i \in destroyed /\ Move(i, "live", "retired")

(* An administrator deletes the row. *)
Erase(i) ==
    /\ phase[i] \notin {"absent", "erased"}
    /\ Move(i, phase[i], "erased")

CreationSucceeds(i) ==
    /\ phase[i] \in {"reserved", "erased"}
    /\ created' = created \cup {i}
    /\ UNCHANGED <<phase, destroyed>>

DestructionSucceeds(i) ==
    /\ phase[i] \in {"live", "erased"}
    /\ destroyed' = destroyed \cup {i}
    /\ UNCHANGED <<phase, created>>

PromiseInit ==
    /\ phase = [i \in Instance |-> "absent"]
    /\ created = {}
    /\ destroyed = {}

PromiseNext ==
    \E i \in Instance :
        \/ Reserve(i)
        \/ Withdraw(i)
        \/ Deliver(i)
        \/ Retire(i)
        \/ Erase(i)
        \/ CreationSucceeds(i)
        \/ DestructionSucceeds(i)

PromiseSpec == PromiseInit /\ [][PromiseNext]_promiseVars
=============================================================================
