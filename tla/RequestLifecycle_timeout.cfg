SPECIFICATION Spec
CONSTANTS
    Request = {r1, r2}
    Instance = {i1}
    create = create
    update = update
    delete = delete
    None = None
    Operation = {create, update, delete}
    OpType <- MCOpType
    AutoAccept = {}
    AutoProcess = {}
    Workflow = {}
    AutoStep = {}
    AutoChain = {}
    Orphaned = {}
    MaxJob = 2
    MaxMsg = 1
PROPERTIES
    RemovedPollSettlesRequest
CHECK_DEADLOCK FALSE
