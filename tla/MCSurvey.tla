------------------------------ MODULE MCSurvey ------------------------------
EXTENDS Survey, TLC

Symmetry == Permutations(Operation) \union Permutations(Template) \union Permutations(Value)

\* Bound: while a request is under a workflow, its operation is the only one.
Alone ==
    \A r \in Request : Open(r) /\ (request[r].current # None \/ request[r].steps # NoSteps)
        => \A o \in Operation : Exists(o) => o = request[r].operation
=============================================================================
