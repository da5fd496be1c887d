SPECIFICATION FairSpec
CONSTANTS
    r1 = r1
    r2 = r2
    i1 = i1
    Request = {r1}
    Instance = {i1}
    Web = {v1}
    Worker = {w1, w2}
    TypeOf <- MCOneTypeOf
    InstanceOf <- MCInstanceOf
    FirstState <- MCPending
    Goal = {"PROCESSING", "ACCEPTED", "CANCELED"}
    Crashes = FALSE
    None = None
    MaxJob = 2
    MaxMsg = 1
INVARIANTS
    FirstJobIsFollowed
    CompletionIsDelivered
PROPERTIES
    FirstJobSettles
CHECK_DEADLOCK FALSE
