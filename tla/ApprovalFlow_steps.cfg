SPECIFICATION Spec
CONSTANTS
    Request = {r1, r2}
    MaxStep = 3
    Conditional = {2}
    Reorders = FALSE
    None = None
SYMMETRY Symmetry
INVARIANTS
    InOrder
PROPERTIES
    AcceptedStepByStep
    SettledStaysSettled
    ResetBringsUpToDate
CHECK_DEADLOCK FALSE
