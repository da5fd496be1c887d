SPECIFICATION Spec
CONSTANTS
    r1 = r1
    r2 = r2
    i1 = i1
    Request = {r1}
    Instance = {i1}
    Web = {v1, v2}
    Worker = {w1}
    TypeOf <- MCOneTypeOf
    InstanceOf <- MCInstanceOf
    FirstState <- MCPending
    Goal = {"PROCESSING", "CANCELED"}
    Crashes = TRUE
    None = None
    MaxJob = 2
    MaxMsg = 1
SYMMETRY Symmetry
INVARIANTS
    OutcomeIsEarned
CHECK_DEADLOCK FALSE
