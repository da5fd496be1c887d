-------------------------- MODULE MCResourceTracker --------------------------
(* Three linked rows, the attribute of the first two shared, and two resources. *)
EXTENDS ResourceTracker, TLC

CONSTANTS servers, cluster, projects, cpu, vcpu

MCRow == {<<servers, cpu>>, <<cluster, vcpu>>, <<projects, vcpu>>}

\* Totals that were never repaired are followed one error deep, with one resource.
FewErrors ==
    /\ NothingHidden /\ NoDangling
    /\ \/ Wrong = {}
       \/ Cardinality(Wrong) = 1 /\ \E i \in Resource : resource[i] = Null

Symmetry == Permutations(Resource)
=============================================================================
